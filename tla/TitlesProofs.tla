----------------------------- MODULE TitlesProofs -----------------------------
(***************************************************************************)
(* Titles on their way, proved for any bounds: the tracker's sleep and the *)
(* wake-ups of submissions, the copies of a title while they are filed in  *)
(* the library, the feeds that titles come from, the mirror their strm     *)
(* files are in, and which of a folder's videos are filed.  Each part has  *)
(* its own specification and its own inductive invariant.                  *)
(***************************************************************************)
EXTENDS TrackerWake, LibraryFiling, FeedPolling, StrmMirror, FolderSelection, TLAPS,
        FiniteSetTheorems, WellFoundedInduction

-----------------------------------------------------------------------------
(* The least and the greatest of a set of numbers are in it.                *)
LEMMA MinIsIn ==
    ASSUME NEW S, S \subseteq Nat, S # {}
    PROVE  Min(S) \in S /\ \A x \in S : Min(S) <= x
<1>1. PICK m \in S : \A k \in S : ~ (<<k, m>> \in OpToRel(<, Nat)) BY WFMin, NatLessThanWellFounded
<1>2. \A k \in S : ~ (k < m) BY <1>1, Zenon DEF OpToRel
<1>3. \A k \in S : m =< k BY <1>2, SMT
<1>4. QED BY <1>3, Zenon DEF Min

LEMMA MaxIsIn ==
    ASSUME NEW S, S \subseteq Nat, S # {}, NEW n \in Nat, \A x \in S : x <= n
    PROVE  Max(S) \in S
<1> DEFINE D == {n - x : x \in S}
<1>1. D \subseteq Nat /\ D # {}
  <2>1. \A x \in S : n - x \in Nat BY SMT
  <2>2. QED BY <2>1
<1>2. Min(D) \in D /\ \A d \in D : Min(D) <= d
  <2> HIDE DEF D
  <2>1. QED BY <1>1, MinIsIn
<1>3. PICK x \in S : Min(D) = n - x BY <1>2
<1>4. \A y \in S : n - x <= n - y BY <1>2, <1>3
<1>5. \A y \in S : x >= y BY <1>4, SMT
<1>6. QED BY <1>5, Zenon DEF Max

-----------------------------------------------------------------------------
(* The tracker's sleep: what it is due for, and why.                        *)

WakeTypes ==
    /\ now \in Nat /\ loop \in {"polling", "sleeping"} /\ since \in Nat /\ regular \in Nat /\ due \in Nat
    /\ submittedAt \subseteq 0 .. now /\ submission \in BOOLEAN /\ owed \subseteq 0 .. now /\ since <= now

(* It ends at the interval's deadline or before, and is not over as long as *)
(* a submission has to be looked at.                                        *)
SleepSound ==
    loop = "sleeping" =>
        /\ regular = since + Interval /\ due <= regular /\ now <= due
        /\ submission => now < due

(* Every check of a running burst that fell due after the sleep began ends  *)
(* it, or will once the sleep is woken.                                     *)
ChecksMade ==
    loop = "sleeping" => \A t \in submittedAt, o \in FastChecks :
        t + o > since => due <= t + o \/ (submission /\ now < t + o)

(* A magnet no poll has begun after is of a burst, or its checks are past.  *)
OfBurst(s) ==
    \/ \E t \in submittedAt : t <= s /\ (s < t + MergeWithin \/ s = t)
    \/ \A o \in FastChecks : s + o < since + MergeWithin

OwedHaveBursts == \A s \in owed : OfBurst(s)

WakeInv == WakeTypes /\ SleepSound /\ ChecksMade /\ OwedHaveBursts

LEMMA LastCheck ==
    /\ FastChecks \subseteq Nat /\ Max(FastChecks) \in FastChecks
    /\ \A o \in FastChecks : o > 0 /\ o <= Max(FastChecks)
<1>1. PICK last \in FastChecks : \A o \in FastChecks : o <= last BY WakeAssumption
<1>2. last \in Nat /\ \A o \in FastChecks : o \in Nat /\ o > 0 BY WakeAssumption, SMT
<1>3. \A o \in FastChecks : last >= o BY <1>1, <1>2, SMT
<1>4. Max(FastChecks) \in FastChecks /\ \A o \in FastChecks : Max(FastChecks) >= o BY <1>3, Zenon DEF Max
<1>5. QED BY <1>2, <1>4, WakeAssumption, SMT

(* What a turn of the sleep is due for.                                     *)
LEMMA SleepIsFor ==
    ASSUME WakeTypes, Sleep, regular' \in Nat, regular' > now
    PROVE  /\ due' \in Nat /\ due' <= regular' /\ now < due'
           /\ submission' = FALSE /\ submittedAt' \subseteq submittedAt
           /\ \A t \in submittedAt, o \in FastChecks : t + o > now => t \in submittedAt' /\ due' <= t + o
<1>1. /\ submission' = FALSE /\ submittedAt' = Recent
      /\ due' = Min({regular'} \union PendingFastChecks)
  BY DEF Sleep
<1>2. Recent \subseteq submittedAt /\ submittedAt \subseteq Nat /\ now \in Nat BY DEF Recent, WakeTypes
<1> DEFINE S == {regular'} \union PendingFastChecks
<1>3. \A x \in S : x \in Nat /\ x > now
  <2>1. ASSUME NEW x \in PendingFastChecks PROVE x \in Nat /\ x > now
    <3>1. PICK t \in Recent, o \in FastChecks : x = t + o /\ x \notin 0 .. now BY DEF PendingFastChecks
    <3>2. t \in Nat /\ o \in Nat BY <1>2, LastCheck
    <3>3. QED BY <1>2, <3>1, <3>2
  <2>2. QED BY <2>1
<1>4. S \subseteq Nat /\ S # {} BY <1>3
<1> HIDE DEF S
<1>5. Min(S) \in S /\ \A x \in S : Min(S) <= x BY <1>4, MinIsIn
<1>6. due' = Min(S) BY <1>1 DEF S
<1>7. due' \in Nat /\ due' > now /\ due' <= regular'
  <2>1. regular' \in S BY DEF S
  <2>2. QED BY <1>3, <1>5, <1>6, <2>1
<1>8. ASSUME NEW t \in submittedAt, NEW o \in FastChecks, t + o > now
      PROVE  t \in submittedAt' /\ due' <= t + o
  <2>1. t \in Nat /\ o \in Nat /\ o <= Max(FastChecks) /\ Max(FastChecks) \in Nat BY <1>2, LastCheck
  <2>2. now - t < Max(FastChecks) BY <1>2, <1>8, <2>1
  <2>3. t \in Recent BY <2>2 DEF Recent
  <2>4. t + o \in PendingFastChecks BY <1>2, <1>8, <2>1, <2>3 DEF PendingFastChecks
  <2>5. t + o \in S BY <2>4 DEF S
  <2>6. QED BY <1>1, <1>5, <1>6, <2>3, <2>5
<1>9. QED BY <1>1, <1>2, <1>7, <1>8

LEMMA NotifySubmissionKeeps == ASSUME WakeInv, ~Crossing, NotifySubmission PROVE WakeInv'
<1>1. /\ submission' = TRUE /\ owed' = owed \union {now} /\ UNCHANGED <<now, loop, since, regular, due>>
      /\ loop = "sleeping" => ~(now >= due)
      /\ submittedAt' = IF submittedAt # {} /\ now - Max(submittedAt) < MergeWithin
                        THEN submittedAt ELSE submittedAt \union {now}
  BY DEF NotifySubmission
<1>2. /\ now \in Nat /\ due \in Nat /\ since \in Nat /\ since <= now /\ MergeWithin \in Nat /\ MergeWithin > 0
      /\ submittedAt \subseteq 0 .. now /\ owed \subseteq 0 .. now
  BY WakeAssumption DEF WakeInv, WakeTypes
<1>3. submittedAt \subseteq submittedAt' /\ submittedAt' \subseteq submittedAt \union {now} BY <1>1
<1>4. WakeTypes' BY <1>1, <1>2, <1>3 DEF WakeInv, WakeTypes
<1>5. SleepSound' BY <1>1, <1>2 DEF WakeInv, SleepSound
<1>6. ChecksMade'
  <2>1. SUFFICES ASSUME loop = "sleeping", NEW t \in submittedAt', NEW o \in FastChecks, t + o > since
        PROVE due <= t + o \/ now < t + o
    BY <1>1 DEF ChecksMade
  <2>2. CASE t \in submittedAt BY <2>1, <2>2 DEF WakeInv, ChecksMade
  <2>3. CASE t = now BY <1>2, <2>3, LastCheck
  <2>4. QED BY <1>3, <2>2, <2>3
<1>7. OwedHaveBursts'
  <2>1. SUFFICES ASSUME NEW s \in owed' PROVE OfBurst(s)' BY DEF OwedHaveBursts
  <2>2. CASE s \in owed
    <3>1. OfBurst(s) BY <2>2 DEF WakeInv, OwedHaveBursts
    <3>2. QED BY <1>1, <1>3, <3>1 DEF OfBurst
  <2>3. CASE s = now /\ now \in submittedAt' BY <1>2, <2>3 DEF OfBurst
  <2>4. CASE s = now /\ now \notin submittedAt'
    <3>1. submittedAt # {} /\ now - Max(submittedAt) < MergeWithin /\ submittedAt' = submittedAt BY <1>1, <2>4
    <3>2. Max(submittedAt) \in submittedAt
      <4>1. submittedAt \subseteq Nat /\ \A x \in submittedAt : x <= now BY <1>2
      <4>2. QED BY <1>2, <3>1, <4>1, MaxIsIn
    <3>3. PICK t \in submittedAt : t = Max(submittedAt) BY <3>2
    <3>4. t \in Nat /\ t <= now /\ now < t + MergeWithin BY <1>2, <3>1, <3>3
    <3>5. QED BY <2>4, <3>1, <3>4 DEF OfBurst
  <2>5. QED BY <1>1, <2>2, <2>3, <2>4
<1>8. QED BY <1>4, <1>5, <1>6, <1>7 DEF WakeInv

LEMMA PollEndsKeeps == ASSUME WakeInv, PollEnds PROVE WakeInv'
<1>1. /\ regular' = now + Interval /\ Sleep /\ loop' = "sleeping" /\ since' = now /\ UNCHANGED <<now, owed>>
  BY DEF PollEnds
<1>2. /\ now \in Nat /\ since \in Nat /\ since <= now /\ MergeWithin \in Nat /\ MergeWithin > 0
      /\ submittedAt \subseteq 0 .. now /\ owed \subseteq 0 .. now /\ Interval \in Nat /\ Interval > 0
  BY WakeAssumption DEF WakeInv, WakeTypes
<1>3. regular' \in Nat /\ regular' > now BY <1>1, <1>2
<1>4. /\ due' \in Nat /\ due' <= regular' /\ now < due'
      /\ submission' = FALSE /\ submittedAt' \subseteq submittedAt
      /\ \A t \in submittedAt, o \in FastChecks : t + o > now => t \in submittedAt' /\ due' <= t + o
  BY <1>1, <1>3, SleepIsFor DEF WakeInv
<1>5. WakeTypes'
  <2>1. now' \in Nat /\ loop' \in {"polling", "sleeping"} /\ since' \in Nat /\ regular' \in Nat /\ since' <= now'
    BY <1>1, <1>2, <1>3
  <2>2. submission' \in BOOLEAN BY <1>4, Zenon
  <2>3. submittedAt' \subseteq 0 .. now' /\ owed' \subseteq 0 .. now' /\ due' \in Nat BY <1>1, <1>2, <1>4
  <2>4. QED BY <2>1, <2>2, <2>3 DEF WakeTypes
<1>6. SleepSound' BY <1>1, <1>2, <1>4 DEF SleepSound
<1>7. ChecksMade' BY <1>1, <1>4 DEF ChecksMade
<1>8. OwedHaveBursts'
  <2>1. SUFFICES ASSUME NEW s \in owed PROVE OfBurst(s)' BY <1>1 DEF OwedHaveBursts
  <2>2. s \in Nat /\ s <= now BY <1>2
  <2>3. CASE \A o \in FastChecks : s + o < since + MergeWithin
    <3>1. \A o \in FastChecks : s + o < since' + MergeWithin BY <1>1, <1>2, <2>2, <2>3, LastCheck
    <3>2. QED BY <3>1, WakeAssumption DEF OfBurst
  <2>4. CASE \E t \in submittedAt : t <= s /\ (s < t + MergeWithin \/ s = t)
    <3>1. PICK t \in submittedAt : t <= s /\ (s < t + MergeWithin \/ s = t) BY <2>4
    <3>2. CASE t \in submittedAt' BY <3>1, <3>2, WakeAssumption DEF OfBurst
    <3>3. CASE t \notin submittedAt'
      <4>1. \A o \in FastChecks : ~(t + o > now) BY <1>4, <3>3
      <4>2. \A o \in FastChecks : s + o < now + MergeWithin BY <1>2, <2>2, <3>1, <4>1, LastCheck
      <4>3. QED BY <1>1, <4>2 DEF OfBurst
    <3>4. QED BY <3>2, <3>3
  <2>5. QED BY <2>3, <2>4 DEF WakeInv, OwedHaveBursts, OfBurst
<1>9. QED BY <1>5, <1>6, <1>7, <1>8 DEF WakeInv

LEMMA WokenBySubmissionKeeps == ASSUME WakeInv, WokenBySubmission PROVE WakeInv'
<1>1. /\ loop = "sleeping" /\ submission /\ regular' = regular /\ Sleep /\ UNCHANGED <<now, loop, since, owed>>
  BY DEF WokenBySubmission
<1>2. /\ now \in Nat /\ since \in Nat /\ since <= now /\ MergeWithin \in Nat /\ MergeWithin > 0
      /\ submittedAt \subseteq 0 .. now /\ owed \subseteq 0 .. now /\ Interval \in Nat
      /\ regular \in Nat /\ due \in Nat
  BY WakeAssumption DEF WakeInv, WakeTypes
<1>3. regular = since + Interval /\ due <= regular /\ now < due BY <1>1 DEF WakeInv, SleepSound
<1>4. /\ due' \in Nat /\ due' <= regular' /\ now < due'
      /\ submission' = FALSE /\ submittedAt' \subseteq submittedAt
      /\ \A t \in submittedAt, o \in FastChecks : t + o > now => t \in submittedAt' /\ due' <= t + o
  <2>1. regular' \in Nat /\ regular' > now BY <1>1, <1>2, <1>3
  <2>2. QED BY <1>1, <2>1, SleepIsFor DEF WakeInv
<1>5. \A t \in submittedAt, o \in FastChecks : t + o > since => t + o > now
  <2>1. SUFFICES ASSUME NEW t \in submittedAt, NEW o \in FastChecks, t + o > since PROVE t + o > now OBVIOUS
  <2>2. t \in Nat /\ o \in Nat BY <1>2, LastCheck
  <2>3. due <= t + o \/ now < t + o BY <1>1, <2>1 DEF WakeInv, ChecksMade
  <2>4. QED BY <1>2, <1>3, <2>2, <2>3
<1>6. WakeTypes' BY <1>1, <1>2, <1>4 DEF WakeInv, WakeTypes
<1>7. SleepSound' BY <1>1, <1>2, <1>3, <1>4 DEF SleepSound
<1>8. ChecksMade' BY <1>1, <1>4, <1>5 DEF ChecksMade
<1>9. OwedHaveBursts'
  <2>1. SUFFICES ASSUME NEW s \in owed PROVE OfBurst(s)' BY <1>1 DEF OwedHaveBursts
  <2>2. s \in Nat /\ s <= now BY <1>2
  <2>3. CASE \A o \in FastChecks : s + o < since + MergeWithin BY <1>1, <2>3 DEF OfBurst
  <2>4. CASE \E t \in submittedAt : t <= s /\ (s < t + MergeWithin \/ s = t)
    <3>1. PICK t \in submittedAt : t <= s /\ (s < t + MergeWithin \/ s = t) BY <2>4
    <3>2. CASE t \in submittedAt' BY <3>1, <3>2, WakeAssumption DEF OfBurst
    <3>3. CASE t \notin submittedAt'
      <4>1. \A o \in FastChecks : ~(t + o > since) BY <1>4, <1>5, <3>3
      <4>2. \A o \in FastChecks : s + o < since + MergeWithin BY <1>2, <2>2, <3>1, <4>1, LastCheck
      <4>3. QED BY <1>1, <4>2 DEF OfBurst
    <3>4. QED BY <3>2, <3>3
  <2>5. QED BY <2>3, <2>4 DEF WakeInv, OwedHaveBursts, OfBurst
<1>10. QED BY <1>6, <1>7, <1>8, <1>9 DEF WakeInv

LEMMA WakeNextKeeps == ASSUME WakeInv, ~Crossing, [WakeNext]_wakeVars PROVE WakeInv'
<1>1. CASE UNCHANGED wakeVars
  BY <1>1 DEF wakeVars, WakeInv, WakeTypes, SleepSound, ChecksMade, OwedHaveBursts, OfBurst
<1>2. CASE PollBegins
  <2>1. /\ loop' = "polling" /\ since' = now /\ owed' = {} /\ UNCHANGED <<now, regular, due, submittedAt, submission>>
    BY <1>2 DEF PollBegins
  <2>2. WakeTypes' BY <2>1 DEF WakeInv, WakeTypes
  <2>3. QED BY <2>1, <2>2 DEF WakeInv, SleepSound, ChecksMade, OwedHaveBursts
<1>3. CASE Tick
  <2>1. /\ now' = now + 1 /\ UNCHANGED <<loop, since, regular, due, submittedAt, submission, owed>>
        /\ loop = "sleeping" => now < due /\ ~submission
    BY <1>3 DEF Tick
  <2>2. now \in Nat /\ due \in Nat BY DEF WakeInv, WakeTypes
  <2>3. WakeTypes' BY <2>1, <2>2 DEF WakeInv, WakeTypes
  <2>4. SleepSound' BY <2>1, <2>2 DEF WakeInv, SleepSound
  <2>5. ChecksMade' BY <2>1 DEF WakeInv, ChecksMade
  <2>6. OwedHaveBursts' BY <2>1 DEF WakeInv, OwedHaveBursts, OfBurst
  <2>7. QED BY <2>3, <2>4, <2>5, <2>6 DEF WakeInv
<1>4. QED BY <1>1, <1>2, <1>3, NotifySubmissionKeeps, PollEndsKeeps, WokenBySubmissionKeeps DEF WakeNext

(* The tracker's sleep never lasts past the interval, nor past a fast check *)
(* of a magnet no poll has begun after (_wait_next_tracker_poll,            *)
(* notify_submission): for any offsets, intervals, lengths of a poll and    *)
(* submissions, as long as none comes at the instant a check falls due.     *)
THEOREM SubmissionsArePolled == WakeSpec /\ ~Crossing => []SubmissionPolled
<1>1. SUFFICES ASSUME ~Crossing PROVE WakeSpec => []SubmissionPolled BY Zenon
<1>2. WakeInit => WakeInv
  <2>1. SUFFICES ASSUME WakeInit PROVE WakeInv OBVIOUS
  <2>2. WakeTypes
    <3>1. Interval \in Nat BY WakeAssumption
    <3>2. submission \in BOOLEAN BY <2>1, Zenon DEF WakeInit
    <3>3. QED BY <2>1, <3>1, <3>2 DEF WakeInit, WakeTypes
  <2>3. QED BY <2>1, <2>2 DEF WakeInit, WakeInv, SleepSound, ChecksMade, OwedHaveBursts
<1>3. WakeInv /\ [WakeNext]_wakeVars => WakeInv' BY <1>1, WakeNextKeeps
<1>4. WakeInv => SubmissionPolled
  <2>1. SUFFICES ASSUME WakeInv, loop = "sleeping"
        PROVE  /\ due <= regular /\ regular = since + Interval
               /\ ~submission => \A s \in owed, o \in FastChecks : s + o >= since + MergeWithin => due <= s + o
    BY DEF SubmissionPolled
  <2>2. due <= regular /\ regular = since + Interval BY <2>1 DEF WakeInv, SleepSound
  <2>3. ASSUME ~submission, NEW s \in owed, NEW o \in FastChecks, s + o >= since + MergeWithin PROVE due <= s + o
    <3>1. /\ s \in Nat /\ o \in Nat /\ since \in Nat /\ MergeWithin \in Nat /\ MergeWithin > 0 /\ due \in Nat
          /\ submittedAt \subseteq Nat
      BY <2>1, LastCheck, WakeAssumption DEF WakeInv, WakeTypes
    <3>2. ~(s + o < since + MergeWithin) BY <2>3, <3>1
    <3>3. PICK t \in submittedAt : t <= s /\ (s < t + MergeWithin \/ s = t)
      BY <2>1, <3>2 DEF WakeInv, OwedHaveBursts, OfBurst
    <3>4. t \in Nat /\ t + o > since BY <2>3, <3>1, <3>3
    <3>5. due <= t + o BY <2>1, <2>3, <3>4 DEF WakeInv, ChecksMade
    <3>6. QED BY <3>1, <3>3, <3>4, <3>5
  <2>4. QED BY <2>2, <2>3
<1>5. QED BY <1>2, <1>3, <1>4, PTL DEF WakeSpec

-----------------------------------------------------------------------------
(* Copies of a title: what the filer knows of the copy and of the library   *)
(* at each of its steps, whoever else moves files.                          *)

Rows == {"none", "discovered", "downloading", "resolve_failed", "exhausted", "archived", "attention"}
Entries == {Free} \cup (Copies \X (1 .. MaxParts))
Filings == [pc : {"none", "inspect", "promote", "held", "targets", "move", "result", "record"},
            copy : Copies \cup {"none"}, files : Seq(1 .. MaxParts), left : SUBSET Numbers, moved : 0 .. MaxParts,
            outcome : {"none", "archived", "attention"},
            read : Rows]
Asks == [pc : {"none", "promote", "look", "look_on", "answer"}, dir : {"priority", "normal"},
         source : {"rss", "manual"}, left : SUBSET Numbers, found : SUBSET Numbers]

CopyTypes ==
    /\ arrived \in [Copies -> 0 .. MaxParts] /\ here \in [Copies -> SUBSET (1 .. MaxParts)] /\ grew \in [Copies -> BOOLEAN]
    /\ \A c \in Copies : arrived[c] <= PartsOf[c] /\ here[c] \subseteq 1 .. arrived[c]
    /\ seen \in [Folders -> Int]
    /\ lib \in [Dirs -> [Numbers -> Entries]]
    /\ row \in Rows
    /\ filing \in Filings /\ (filing.pc # "none" => filing.copy \in Copies)
    /\ ask \in Asks

(* A folder that has not all of its videos yet has all that came, and is    *)
(* larger than at the last look when it grew since.                         *)
FoldersGrow ==
    \A f \in Folders : arrived[f] < PartsOf[f] =>
        here[f] = 1 .. arrived[f] /\ seen[f] <= arrived[f] /\ (grew[f] => seen[f] < arrived[f])

BeingFiled == filing.pc \in {"promote", "held", "targets", "move"}

(* What is in a folder that is being filed is still to be moved.            *)
FilesSound ==
    /\ filing.pc \in {"inspect", "promote", "held", "targets", "move"} /\ C \in Folders => arrived[C] = PartsOf[C]
    /\ filing.pc = "inspect" => filing.moved = 0
    /\ BeingFiled =>
          /\ filing.moved <= Len(filing.files) /\ Len(filing.files) <= MaxParts
          /\ filing.pc # "move" => filing.moved = 0
          /\ C \in Folders => \A i \in here[C] : \E k \in 1 .. Len(filing.files) : k > filing.moved /\ filing.files[k] = i

(* A priority copy follows what it promoted; its targets stay free.         *)
PlacesSound ==
    /\ filing.pc = "held" => C \notin Priority
    /\ filing.pc = "promote" => Holding("normal") \subseteq Holding("priority") \cup filing.left
    /\ filing.pc \in {"targets", "move"} /\ C \in Priority /\ ~BrandRouted => Holding("normal") \subseteq Holding("priority")
    /\ filing.pc = "move" =>
          \A k \in 1 .. Len(filing.files) : k > filing.moved => lib[DirOf(C)][Number(k)] = Free

FilingInv == CopyTypes /\ FoldersGrow /\ FilesSound /\ PlacesSound /\ NothingLost

(* In name order every file of a set comes once.                            *)
LEMMA InOrderHasAll ==
    ASSUME NEW P \in SUBSET (1 .. MaxParts)
    PROVE  /\ InOrder(P) \in Seq(1 .. MaxParts) /\ Len(InOrder(P)) <= MaxParts
           /\ \A i \in P : \E k \in 1 .. Len(InOrder(P)) : InOrder(P)[k] = i
<1> DEFINE upto(i) == {j \in P : j <= i}
           rank == [i \in P |-> Cardinality(upto(i))]
           n == Cardinality(P)
<1>1. IsFiniteSet(P) /\ n \in Nat /\ n <= MaxParts
  <2>1. IsFiniteSet(1 .. MaxParts) /\ Cardinality(1 .. MaxParts) = MaxParts
    <3>1. IsFiniteSet(1 .. MaxParts) /\ Cardinality(1 .. MaxParts) = IF 1 > MaxParts THEN 0 ELSE MaxParts - 1 + 1 
      <4>1. 1 \in Int /\ MaxParts \in Int BY FilingAssumption
      <4>2. QED BY <4>1, FS_Interval
    <3>2. QED BY <3>1, FilingAssumption
  <2>2. IsFiniteSet(P) /\ n <= MaxParts BY <2>1, FS_Subset
  <2>3. QED BY <2>2, FS_CardinalityType
<1>2. ASSUME NEW i \in P
      PROVE IsFiniteSet(upto(i)) /\ rank[i] \in 1 .. n
  <2>1. upto(i) \in SUBSET P /\ i \in upto(i) OBVIOUS
  <2>2. IsFiniteSet(upto(i)) /\ Cardinality(upto(i)) <= n BY <1>1, <2>1, FS_Subset
  <2>3. Cardinality(upto(i)) \in Nat BY <2>2, FS_CardinalityType
  <2>4. Cardinality(upto(i)) # 0 BY <2>1, <2>2, FS_EmptySet
  <2>5. QED BY <1>1, <2>2, <2>3, <2>4
<1>3. ASSUME NEW i \in P, NEW j \in P, i < j PROVE rank[i] # rank[j]
  <2>1. upto(i) \in SUBSET upto(j)
    <3>1. \A x \in 1 .. MaxParts : x <= i => x <= j BY <1>3
    <3>2. \A x \in upto(i) : x \in upto(j) BY <3>1
    <3>3. QED BY <3>2
  <2>2. j \in upto(j) /\ j \notin upto(i) BY <1>3
  <2>3. IsFiniteSet(upto(j)) BY <1>2
  <2>4. Cardinality(upto(j)) = Cardinality(upto(i)) => upto(j) = upto(i) BY <2>1, <2>3, FS_Subset
  <2>5. QED BY <2>2, <2>4
<1>4. rank \in Injection(P, 1 .. n)
  <2>1. rank \in [P -> 1 .. n] BY <1>2
  <2>2. \A i, j \in P : rank[i] = rank[j] => i = j
    <3>1. SUFFICES ASSUME NEW i \in P, NEW j \in P, i # j PROVE rank[i] # rank[j] OBVIOUS
    <3>2. i < j \/ j < i BY <3>1
    <3>3. QED BY <1>3, <3>2
  <2>3. QED BY <2>1, <2>2, Zenon DEF Injection, IsInjective
<1>5. rank \in Surjection(P, 1 .. n)
  <2>1. IsFiniteSet(1 .. n) /\ Cardinality(1 .. n) = n BY <1>1, FS_Interval
  <2> HIDE DEF rank
  <2>2. QED BY <1>1, <1>4, <2>1, FS_Injection
<1>6. \A k \in 1 .. n : \E i \in P : rank[i] = k BY <1>5, Zenon DEF Surjection
<1>7. ASSUME NEW k \in 1 .. n PROVE InOrder(P)[k] \in P /\ rank[InOrder(P)[k]] = k
  <2>1. InOrder(P)[k] = CHOOSE i \in P : Cardinality({j \in P : j <= i}) = k BY DEF InOrder
  <2>2. \E i \in P : Cardinality({j \in P : j <= i}) = k BY <1>6, <1>7
  <2>3. InOrder(P)[k] \in P /\ Cardinality({j \in P : j <= InOrder(P)[k]}) = k BY <2>1, <2>2, Zenon
  <2>4. QED BY <2>3
<1>8. InOrder(P) \in [1 .. n -> 1 .. MaxParts] BY <1>1, <1>7 DEF InOrder
<1>9. InOrder(P) \in Seq(1 .. MaxParts) /\ Len(InOrder(P)) = n
  <2> HIDE DEF n
  <2> DEFINE S == 1 .. MaxParts
             f == InOrder(P)
  <2>1. n \in Nat /\ f \in [1 .. n -> S] BY <1>1, <1>8
  <2> HIDE DEF S, f
  <2>2. f \in Seq(S) /\ Len(f) = n BY <2>1
  <2>3. QED BY <2>2 DEF S, f
<1>10. ASSUME NEW i \in P PROVE InOrder(P)[rank[i]] = i
  <2>1. rank[i] \in 1 .. n BY <1>2
  <2>2. InOrder(P)[rank[i]] \in P /\ rank[InOrder(P)[rank[i]]] = rank[i] BY <1>7, <2>1
  <2>3. \A a, b \in P : rank[a] = rank[b] => a = b BY <1>4, Zenon DEF Injection, IsInjective
  <2> HIDE DEF rank
  <2>4. QED BY <2>2, <2>3
<1>11. QED BY <1>1, <1>2, <1>9, <1>10

(* A promotion takes a file from the one directory to the other.            *)
LEMMA PromotedIs ==
    ASSUME CopyTypes, NEW n \in Numbers, lib["priority"][n] = Free, lib["normal"][n] # Free, lib' = Promoted(n)
    PROVE  /\ lib' \in [Dirs -> [Numbers -> Entries]]
           /\ lib'["priority"][n] = lib["normal"][n] /\ lib'["normal"][n] = Free
           /\ \A d \in Dirs, m \in Numbers :
                 (d = "brand" \/ m # n) => lib'[d][m] = lib[d][m]
<1>1. "priority" \in Dirs /\ "normal" \in Dirs BY DEF Dirs
<1>2. lib \in [Dirs -> [Numbers -> Entries]] /\ Free \in Entries BY DEF CopyTypes, Entries
<1>3. lib["normal"] \in [Numbers -> Entries] /\ lib["priority"] \in [Numbers -> Entries] /\ lib["normal"][n] \in Entries
  BY <1>1, <1>2
<1> DEFINE gains == [lib["priority"] EXCEPT ![n] = lib["normal"][n]]
           gives == [lib["normal"] EXCEPT ![n] = Free]
<1>4. gains \in [Numbers -> Entries] /\ gives \in [Numbers -> Entries] BY <1>2, <1>3
<1>5. lib' = [[lib EXCEPT !["priority"] = gains] EXCEPT !["normal"] = gives] BY <1>1, <1>2 DEF Promoted
<1>6. gains[n] = lib["normal"][n] /\ gives[n] = Free
      /\ \A m \in Numbers : m # n => gains[m] = lib["priority"][m] /\ gives[m] = lib["normal"][m]
  BY <1>3
<1> HIDE DEF gains, gives
<1>7. lib' \in [Dirs -> [Numbers -> Entries]] BY <1>1, <1>2, <1>4, <1>5
<1>8. lib'["priority"] = gains /\ lib'["normal"] = gives /\ \A d \in Dirs : d = "brand" => lib'[d] = lib[d]
  BY <1>1, <1>2, <1>5
<1>9. ASSUME NEW d \in Dirs, NEW m \in Numbers, d = "brand" \/ m # n PROVE lib'[d][m] = lib[d][m]
  BY <1>6, <1>8, <1>9 DEF Dirs
<1>10. QED BY <1>6, <1>7, <1>8, <1>9

(* Nothing is lost by it, and what the filer relies on stays.               *)
LEMMA PromotionKeeps ==
    ASSUME CopyTypes, FoldersGrow, FilesSound, PlacesSound, NothingLost,
           NEW n \in Numbers, lib["priority"][n] = Free, lib["normal"][n] # Free, lib' = Promoted(n),
           UNCHANGED <<arrived, here>>
    PROVE  /\ NothingLost'
           /\ Holding("normal")' = Holding("normal") \ {n} /\ Holding("priority")' = Holding("priority") \cup {n}
           /\ \A d \in Dirs, m \in Numbers : lib[d][m] = Free /\ d # "priority" => lib'[d][m] = Free
<1>1. /\ lib'["priority"][n] = lib["normal"][n] /\ lib'["normal"][n] = Free
      /\ \A d \in Dirs, m \in Numbers : (d = "brand" \/ m # n) => lib'[d][m] = lib[d][m]
  BY PromotedIs
<1>2. NothingLost'
  <2>1. SUFFICES ASSUME NEW c \in Copies, NEW i \in 1 .. arrived[c] PROVE Present(c, i)'
    BY DEF NothingLost
  <2>2. CASE i \in here[c] BY <2>2 DEF Present
  <2>3. CASE \E d \in Dirs, m \in Numbers : lib[d][m] = <<c, i>>
    <3>1. PICK d \in Dirs, m \in Numbers : lib[d][m] = <<c, i>> BY <2>3
    <3>2. CASE d = "brand" \/ m # n BY <1>1, <3>1, <3>2 DEF Present
    <3>3. CASE d = "normal" /\ m = n BY <1>1, <3>1, <3>3 DEF Present, Dirs
    <3>4. CASE d = "priority" /\ m = n
      <4>1. i \in Nat /\ i # 0 BY DEF CopyTypes
      <4>2. <<c, i>> # Free BY <4>1 DEF Free
      <4>3. QED BY <3>1, <3>4, <4>2
    <3>5. QED BY <3>2, <3>3, <3>4 DEF Dirs
  <2>4. QED BY <2>2, <2>3 DEF NothingLost, Present
<1>3. Holding("normal")' = Holding("normal") \ {n} BY <1>1 DEF Holding, Dirs
<1>4. Holding("priority")' = Holding("priority") \cup {n} BY <1>1 DEF Holding, Dirs
<1>5. \A d \in Dirs, m \in Numbers : lib[d][m] = Free /\ d # "priority" => lib'[d][m] = Free BY <1>1 DEF Dirs
<1>6. QED BY <1>2, <1>3, <1>4, <1>5

(* A step that leaves copies, library and filing alone keeps all of it.     *)
LEMMA FilingStays ==
    ASSUME FilingInv, UNCHANGED <<copyVars, seen, lib, filing>>, row' \in Rows, ask' \in Asks
    PROVE  FilingInv'
<1>1. UNCHANGED <<arrived, here, grew, seen, lib, filing>> BY DEF copyVars
<1>2. CopyTypes' BY <1>1 DEF FilingInv, CopyTypes
<1>3. FoldersGrow' BY <1>1 DEF FilingInv, FoldersGrow
<1>4. FilesSound' BY <1>1 DEF FilingInv, FilesSound, BeingFiled, C
<1>5. PlacesSound' BY <1>1 DEF FilingInv, PlacesSound, C, Holding, DirOf, Number
<1>6. NothingLost' BY <1>1 DEF FilingInv, NothingLost, Present
<1>7. QED BY <1>2, <1>3, <1>4, <1>5, <1>6 DEF FilingInv

(* A step of the filer alone has only its own facts to establish.           *)
LEMMA FilerOnly ==
    ASSUME FilingInv, UNCHANGED <<arrived, here, grew, seen, lib, ask>>, row' \in Rows,
           filing' \in Filings, filing'.pc # "none" => filing'.copy \in Copies, FilesSound', PlacesSound'
    PROVE  FilingInv'
<1>1. CopyTypes' BY DEF FilingInv, CopyTypes
<1>2. FoldersGrow' BY DEF FilingInv, FoldersGrow
<1>3. NothingLost' BY DEF FilingInv, NothingLost, Present
<1>4. QED BY <1>1, <1>2, <1>3 DEF FilingInv

(* A step that ends the filing of a copy.                                   *)
LEMMA FilingOver ==
    ASSUME FilingInv, UNCHANGED <<arrived, here, grew, seen, lib, ask>>, row' \in Rows,
           filing' \in Filings, filing'.pc \in {"none", "result", "record"},
           filing'.pc # "none" => filing'.copy \in Copies
    PROVE  FilingInv'
<1>1. FilesSound' BY DEF FilesSound, BeingFiled
<1>2. PlacesSound' BY DEF PlacesSound
<1>3. QED BY <1>1, <1>2, FilerOnly

(* The records of a job that is over.                                       *)
LEMMA JobTypes == NoJob \in Filings /\ NoAsk \in Asks
<1>1. <<>> \in Seq(1 .. MaxParts) /\ 0 \in 0 .. MaxParts BY FilingAssumption
<1>2. NoJob \in Filings BY <1>1 DEF NoJob, Filings, Rows
<1>3. NoAsk \in Asks BY DEF NoAsk, Asks
<1>4. QED BY <1>2, <1>3

(* Videos that come are in their folder; one being filed has them all.      *)
LEMMA ArriveKeeps ==
    ASSUME FilingInv, NEW c \in Copies, Arrive(c)
    PROVE  FilingInv'
<1>1. UNCHANGED <<seen, lib, row, filing, ask>> /\ arrived[c] < PartsOf[c] BY DEF Arrive
<1>2. CopyTypes /\ FoldersGrow /\ FilesSound /\ PlacesSound /\ NothingLost BY DEF FilingInv
<1>3. PartsOf[c] \in 1 .. MaxParts /\ arrived[c] \in 0 .. MaxParts /\ here[c] \subseteq 1 .. arrived[c]
  BY <1>2, FilingAssumption DEF CopyTypes
<1> DEFINE Comes(a, h) ==
              /\ arrived' = [arrived EXCEPT ![c] = a] /\ here' = [here EXCEPT ![c] = h]
              /\ arrived[c] < a /\ a <= PartsOf[c] /\ h \subseteq 1 .. a
              /\ c \in Folders => h = here[c] \cup {a} /\ a = arrived[c] + 1
              /\ \A i \in 1 .. a : i \in 1 .. arrived[c] => (i \in here[c] => i \in h)
              /\ \A i \in 1 .. a : i \notin 1 .. arrived[c] => i \in h
<1>4. PICK a \in 0 .. MaxParts, h \in SUBSET (1 .. MaxParts) : Comes(a, h)
  <2>1. CASE c \in Groups /\ ~Piecemeal
    <3>1. /\ arrived' = [arrived EXCEPT ![c] = PartsOf[c]] /\ here' = [here EXCEPT ![c] = 1..PartsOf[c]]
      BY <2>1 DEF Arrive
    <3>2. c \notin Folders BY <2>1, FilingAssumption
    <3>3. 1 .. PartsOf[c] \in SUBSET (1 .. MaxParts) /\ PartsOf[c] \in 0 .. MaxParts BY <1>3, FilingAssumption
    <3>4. Comes(PartsOf[c], 1 .. PartsOf[c]) BY <1>1, <1>3, <3>1, <3>2
    <3> HIDE DEF Comes
    <3>5. QED BY <3>3, <3>4
  <2>2. CASE ~(c \in Groups /\ ~Piecemeal)
    <3> DEFINE one == arrived[c] + 1
    <3>1. /\ arrived' = [arrived EXCEPT ![c] = one] /\ here' = [here EXCEPT ![c] = here[c] \cup {one}]
      BY <2>2, Zenon DEF Arrive
    <3>2. here[c] \cup {one} \in SUBSET (1 .. MaxParts) /\ one \in 0 .. MaxParts BY <1>1, <1>3, FilingAssumption
    <3>3. Comes(one, here[c] \cup {one}) BY <1>1, <1>3, <3>1
    <3> HIDE DEF Comes
    <3>4. QED BY <3>2, <3>3
  <2>3. QED BY <2>1, <2>2
<1>5. grew' = [grew EXCEPT ![c] = TRUE] BY DEF Arrive
<1>6. CopyTypes'
  <2>1. arrived' \in [Copies -> 0 .. MaxParts] /\ here' \in [Copies -> SUBSET (1 .. MaxParts)]
    BY <1>2, <1>4 DEF CopyTypes
  <2>2. grew' \in [Copies -> BOOLEAN] BY <1>2, <1>5 DEF CopyTypes
  <2>3. \A x \in Copies : arrived'[x] <= PartsOf[x] /\ here'[x] \subseteq 1 .. arrived'[x] BY <1>2, <1>4 DEF CopyTypes
  <2>4. QED BY <1>1, <1>2, <2>1, <2>2, <2>3 DEF CopyTypes
<1>7. FoldersGrow'
  <2>1. SUFFICES ASSUME NEW f \in Folders, arrived'[f] < PartsOf[f]
                 PROVE here'[f] = 1 .. arrived'[f] /\ seen[f] <= arrived'[f] /\ (grew'[f] => seen[f] < arrived'[f])
    BY <1>1 DEF FoldersGrow
  <2>2. f \in Copies BY DEF Copies
  <2>3. CASE f = c
    <3>1. here[c] = 1 .. arrived[c] /\ seen[c] <= arrived[c] /\ seen[c] \in Int
      BY <1>1, <1>2, <2>1, <2>3 DEF FoldersGrow, CopyTypes
    <3>2. here'[c] = here[c] \cup {arrived[c] + 1} /\ arrived'[c] = arrived[c] + 1
      BY <1>2, <1>4, <2>1, <2>3 DEF CopyTypes
    <3>3. QED BY <1>3, <2>3, <3>1, <3>2
  <2>4. CASE f # c BY <1>2, <1>4, <1>5, <2>1, <2>2, <2>4 DEF FoldersGrow, CopyTypes
  <2>5. QED BY <2>3, <2>4
<1>8. FilesSound'
  <2>1. C' = C /\ BeingFiled' = BeingFiled BY <1>1 DEF C, BeingFiled
  <2>2. C \in Folders => C \in Copies BY DEF Copies
  <2>3. filing.pc \in {"inspect", "promote", "held", "targets", "move"} /\ C \in Folders => C # c
    BY <1>1, <1>2, <1>3 DEF FilesSound
  <2>4. filing.pc \in {"inspect", "promote", "held", "targets", "move"} /\ C \in Folders => arrived'[C] = arrived[C] /\ here'[C] = here[C]
    BY <1>2, <1>4, <2>2, <2>3 DEF CopyTypes
  <2>5. QED BY <1>1, <1>2, <2>1, <2>4 DEF FilesSound, BeingFiled
<1>9. PlacesSound' BY <1>1, <1>2 DEF PlacesSound, C, Holding, DirOf, Number
<1>10. NothingLost'
  <2>1. SUFFICES ASSUME NEW x \in Copies, NEW i \in 1 .. arrived'[x] PROVE Present(x, i)' BY DEF NothingLost
  <2>2. CASE x # c
    <3>1. arrived'[x] = arrived[x] /\ here'[x] = here[x] BY <1>2, <1>4, <2>2 DEF CopyTypes
    <3>2. Present(x, i) BY <1>2, <2>1, <3>1 DEF NothingLost
    <3>3. QED BY <1>1, <3>1, <3>2 DEF Present
  <2>3. CASE x = c
    <3>1. arrived'[c] = a /\ here'[c] = h BY <1>2, <1>4 DEF CopyTypes
    <3>2. CASE i \in 1 .. arrived[c]
      <4>1. Present(c, i) BY <1>2, <3>2 DEF NothingLost
      <4>2. i \in here[c] => i \in h BY <1>4, <2>1, <2>3, <3>1, <3>2
      <4>3. QED BY <1>1, <2>3, <3>1, <4>1, <4>2 DEF Present
    <3>3. CASE i \notin 1 .. arrived[c] BY <1>4, <2>1, <2>3, <3>1, <3>3 DEF Present
    <3>4. QED BY <3>2, <3>3
  <2>4. QED BY <2>2, <2>3
<1>11. QED BY <1>6, <1>7, <1>8, <1>9, <1>10 DEF FilingInv

(* A folder that still grows is never of the size of the last look.         *)
LEMMA LookKeeps ==
    ASSUME FilingInv, NEW f \in Folders, Look(f)
    PROVE  FilingInv'
<1>1. UNCHANGED <<arrived, here, lib, row, ask>> BY DEF Look
<1>2. CopyTypes /\ FoldersGrow /\ NothingLost /\ f \in Copies BY DEF FilingInv, Copies
<1>3. arrived[f] < PartsOf[f] => Cardinality(here[f]) = arrived[f]
  <2>1. SUFFICES ASSUME arrived[f] < PartsOf[f]
                 PROVE Cardinality(1 .. arrived[f]) = arrived[f]
    BY <1>2 DEF FoldersGrow
  <2>2. arrived[f] \in Int /\ arrived[f] >= 0 BY <1>2 DEF CopyTypes
  <2>3. Cardinality(1 .. arrived[f]) = IF 1 > arrived[f] THEN 0 ELSE arrived[f] - 1 + 1 BY <2>2, FS_Interval
  <2>4. QED BY <2>2, <2>3
<1>4. Cardinality(here[f]) \in Int
  <2>1. here[f] \in SUBSET (1 .. MaxParts) BY <1>2 DEF CopyTypes
  <2>2. IsFiniteSet(1 .. MaxParts)
    <3>1. 1 \in Int /\ MaxParts \in Int BY FilingAssumption
    <3>2. QED BY <3>1, FS_Interval
  <2>3. IsFiniteSet(here[f]) BY <2>1, <2>2, FS_Subset
  <2>4. QED BY <2>3, FS_CardinalityType
<1>5. seen' = [seen EXCEPT ![f] = Cardinality(here[f])] /\ grew' = [grew EXCEPT ![f] = FALSE] BY DEF Look
<1> DEFINE size == Cardinality(here[f])
<1> HIDE DEF size
<1>6. seen' = [seen EXCEPT ![f] = size] /\ size \in Int /\ (arrived[f] < PartsOf[f] => size = arrived[f])
  BY <1>3, <1>4, <1>5 DEF size
<1>7. filing' = NoJob \/ (filing' = [NoJob EXCEPT !.pc = "inspect", !.copy = f] /\ seen[f] = size)
  BY DEF Look, Settled, size
<1>8. filing' \in Filings /\ (filing'.pc # "none" => filing'.copy = f /\ filing'.pc = "inspect" /\ filing'.moved = 0 /\ seen[f] = size)
  <2>1. NoJob \in Filings /\ NoJob.pc = "none" BY JobTypes DEF NoJob
  <2>2. [NoJob EXCEPT !.pc = "inspect", !.copy = f] \in Filings BY <1>2, <2>1 DEF Filings
  <2>3. QED BY <1>7, <2>1, <2>2 DEF NoJob
<1>9. seen[f] = size => arrived[f] = PartsOf[f]
  <2>1. arrived[f] < PartsOf[f] => grew[f] BY DEF Look
  <2>2. arrived[f] < PartsOf[f] => seen[f] < arrived[f] BY <1>2, <2>1 DEF FoldersGrow
  <2>3. arrived[f] <= PartsOf[f] /\ arrived[f] \in Int /\ PartsOf[f] \in Int /\ seen[f] \in Int
    BY <1>2, FilingAssumption DEF CopyTypes
  <2>4. QED BY <1>6, <2>2, <2>3
<1>10. CopyTypes'
  <2>1. seen' \in [Folders -> Int] BY <1>2, <1>6 DEF CopyTypes
  <2>2. grew' \in [Copies -> BOOLEAN] BY <1>2, <1>5 DEF CopyTypes
  <2>3. QED BY <1>1, <1>2, <1>8, <2>1, <2>2 DEF CopyTypes
<1>11. FoldersGrow'
  <2>1. SUFFICES ASSUME NEW x \in Folders, arrived[x] < PartsOf[x]
                 PROVE here[x] = 1 .. arrived[x] /\ seen'[x] <= arrived[x] /\ (grew'[x] => seen'[x] < arrived[x])
    BY <1>1 DEF FoldersGrow
  <2>2. CASE x = f
    <3>1. seen'[f] = arrived[f] /\ arrived[f] \in Int /\ ~grew'[f] BY <1>2, <1>5, <1>6, <2>1, <2>2 DEF CopyTypes
    <3>2. QED BY <1>2, <2>1, <2>2, <3>1 DEF FoldersGrow
  <2>3. CASE x # f
    <3>1. seen'[x] = seen[x] /\ grew'[x] = grew[x] BY <1>2, <1>5, <1>6, <2>3 DEF CopyTypes, Copies
    <3>2. QED BY <1>2, <2>1, <3>1 DEF FoldersGrow
  <2>4. QED BY <2>2, <2>3
<1>12. FilesSound' BY <1>1, <1>8, <1>9 DEF FilesSound, BeingFiled, C
<1>13. PlacesSound' BY <1>8 DEF PlacesSound
<1>14. NothingLost' BY <1>1, <1>2 DEF NothingLost, Present
<1>15. QED BY <1>10, <1>11, <1>12, <1>13, <1>14 DEF FilingInv

(* A rename into the library takes the place of nothing.                    *)
LEMMA MoveKeeps ==
    ASSUME FilingInv, MoveOne
    PROVE  FilingInv'
<1>1. UNCHANGED <<reported, pass, ask, seen, arrived, grew, row>> BY DEF MoveOne, OutOfJob
<1>2. CopyTypes /\ FoldersGrow /\ FilesSound /\ PlacesSound /\ NothingLost /\ C \in Copies /\ filing \in Filings /\ row \in Rows
  BY DEF FilingInv, CopyTypes, MoveOne, At, C
<1>3. CASE Over /\ UNCHANGED <<lib, here>>
  <2>1. filing' \in Filings /\ filing'.pc = "none" BY <1>3, JobTypes DEF Over, NoJob
  <2>2. QED BY <1>1, <1>2, <1>3, <2>1, FilingOver
<1> DEFINE k == filing.moved + 1
           file == filing.files[k]
           dir == DirOf(C)
           num == Number(k)
<1>4. CASE /\ lib' = Put(C, file, dir, num)
           /\ here' = [here EXCEPT ![C] = @ \ {file}]
           /\ filing' = [filing EXCEPT !.moved = k]
  <2>1. /\ filing.pc = "move" /\ filing.moved \in Nat /\ filing.files \in Seq(1 .. MaxParts)
        /\ k \in 1 .. Len(filing.files) /\ Len(filing.files) <= MaxParts
    BY <1>2 DEF MoveOne, At, FilesSound, BeingFiled, Filings
  <2>2. file \in 1 .. MaxParts /\ k \in 1 .. MaxParts /\ num \in Numbers BY <2>1, FilingAssumption DEF Number, Numbers
  <2>3. dir \in Dirs BY DEF DirOf, Dirs
  <2>4. lib[dir][num] = Free BY <1>2, <2>1 DEF PlacesSound
  <2>5. filing' \in Filings /\ filing'.pc = "move" /\ filing'.moved = k /\ filing'.files = filing.files /\ filing'.copy = C /\ C' = C
    BY <1>2, <1>4, <2>1, <2>2 DEF Filings, C
  <2>6. BeingFiled /\ BeingFiled' BY <2>1, <2>5 DEF BeingFiled
  <2> DEFINE fills == [lib[dir] EXCEPT ![num] = <<C, file>>]
  <2>7. fills \in [Numbers -> Entries] /\ fills[num] = <<C, file>> /\ \A m \in Numbers : m # num => fills[m] = lib[dir][m]
    BY <1>2, <2>2, <2>3 DEF CopyTypes, Entries
  <2>8. lib' = [lib EXCEPT ![dir] = fills] BY <1>2, <1>4, <2>3 DEF Put, CopyTypes
  <2> DEFINE left == here[C] \ {file}
  <2>9. here' = [here EXCEPT ![C] = left] BY <1>4
  <2>10. left \in SUBSET (1 .. MaxParts) /\ left \subseteq here[C] BY <1>2 DEF CopyTypes
  <2>11. left = here[C] \ {file} OBVIOUS
  <2>12. dir = DirOf(C) /\ num = Number(k) /\ k = filing.moved + 1 /\ file = filing.files[k] OBVIOUS
  <2> HIDE DEF fills, left, k, file, dir, num
  <2>13. lib' \in [Dirs -> [Numbers -> Entries]] /\ lib'[dir] = fills /\ \A d \in Dirs : d # dir => lib'[d] = lib[d]
    BY <1>2, <2>3, <2>7, <2>8 DEF CopyTypes
  <2>14. here' \in [Copies -> SUBSET (1 .. MaxParts)] /\ here'[C] = left /\ \A x \in Copies : x # C => here'[x] = here[x]
    BY <1>2, <2>9, <2>10 DEF CopyTypes
  <2>15. CopyTypes'
    <3>1. \A x \in Copies : here'[x] \subseteq 1 .. arrived[x] BY <1>2, <2>10, <2>14 DEF CopyTypes
    <3>2. QED BY <1>1, <1>2, <2>5, <2>13, <2>14, <3>1 DEF CopyTypes
  <2>16. FoldersGrow'
    <3>1. \A f \in Folders : arrived[f] < PartsOf[f] => f # C
      <4>1. C \in Folders => arrived[C] = PartsOf[C] /\ PartsOf[C] \in Int
        BY <1>2, <2>1, FilingAssumption DEF FilesSound
      <4>2. QED BY <4>1
    <3>2. \A f \in Folders : f # C => here'[f] = here[f] BY <2>14 DEF Copies
    <3>3. QED BY <1>1, <1>2, <3>1, <3>2 DEF FoldersGrow
  <2>17. FilesSound'
    <3>1. C \in Folders => arrived[C] = PartsOf[C] BY <1>2, <2>1 DEF FilesSound
    <3>2. C \in Folders => \A i \in here'[C] : \E j \in 1 .. Len(filing.files) : j > k /\ filing.files[j] = i
      <4>1. SUFFICES ASSUME C \in Folders, NEW i \in left
                     PROVE \E j \in 1 .. Len(filing.files) : j > k /\ filing.files[j] = i
        BY <2>14
      <4>2. i \in here[C] /\ i # file BY <2>11
      <4>3. PICK j \in 1 .. Len(filing.files) : j > filing.moved /\ filing.files[j] = i
        BY <1>2, <2>6, <4>1, <4>2 DEF FilesSound
      <4>4. j # k BY <2>12, <4>2, <4>3
      <4>5. j > k BY <2>1, <2>12, <4>3, <4>4
      <4>6. QED BY <4>3, <4>5
    <3>3. QED BY <1>1, <2>1, <2>5, <2>6, <3>1, <3>2 DEF FilesSound
  <2>18. PlacesSound'
    <3>1. C \in Priority /\ ~BrandRouted => Holding("normal")' \subseteq Holding("priority")'
      <4>1. SUFFICES ASSUME C \in Priority, ~BrandRouted
                     PROVE Holding("normal")' \subseteq Holding("priority")'
        OBVIOUS
      <4>2. dir = "priority" BY <2>12, <4>1 DEF DirOf
      <4>3. Holding("normal") \subseteq Holding("priority") BY <1>2, <2>1, <4>1 DEF PlacesSound
      <4>4. lib'["normal"] = lib["normal"] BY <2>13, <4>2 DEF Dirs
      <4>5. ASSUME NEW m \in Numbers, lib["priority"][m] # Free PROVE lib'["priority"][m] # Free
        <5>1. m # num BY <2>4, <4>2, <4>5
        <5>2. QED BY <2>7, <2>13, <4>2, <4>5, <5>1
      <4>6. QED BY <4>3, <4>4, <4>5 DEF Holding
    <3>2. ASSUME NEW j \in 1 .. Len(filing.files), j > k PROVE lib'[dir][Number(j)] = Free
      <4>1. Number(j) = j /\ num = k /\ j # k /\ j \in Numbers
        <5>1. Len(filing.files) \in Nat /\ Len(filing.files) <= MaxParts /\ k \in 1 .. Len(filing.files) BY <2>1
        <5> DEFINE n == Len(filing.files)
        <5> HIDE DEF n
        <5>2. n # 1 /\ j # k /\ j \in 0 .. MaxParts
          <6>1. n \in Nat /\ n <= MaxParts /\ k \in 1 .. n /\ j \in 1 .. n /\ j > k BY <3>2, <5>1 DEF n
          <6>2. QED BY <6>1, FilingAssumption
        <5>3. Number(j) = j /\ Number(k) = k BY <5>2 DEF Number, n
        <5>4. QED BY <2>12, <5>2, <5>3 DEF Numbers
      <4>2. j > filing.moved BY <2>1, <2>12, <3>2
      <4>3. lib[dir][Number(j)] = Free BY <1>2, <2>1, <2>12, <4>2 DEF PlacesSound
      <4>4. QED BY <2>7, <2>13, <4>1, <4>3
    <3>3. DirOf(C)' = dir /\ \A j : Number(j)' = Number(j) BY <2>5, <2>12 DEF DirOf, Number
    <3>4. QED BY <2>5, <3>1, <3>2, <3>3 DEF PlacesSound
  <2>19. NothingLost'
    <3>1. SUFFICES ASSUME NEW x \in Copies, NEW i \in 1 .. arrived[x] PROVE Present(x, i)' BY <1>1 DEF NothingLost
    <3>2. Present(x, i) BY <1>2 DEF NothingLost
    <3>3. CASE i \in here[x] /\ ~(x = C /\ i = file)
      <4>1. i \in here'[x] BY <2>11, <2>14, <3>3
      <4>2. QED BY <4>1 DEF Present
    <3>4. CASE x = C /\ i = file
      <4>1. lib'[dir][num] = <<x, i>> BY <2>7, <2>13, <3>4
      <4>2. QED BY <2>2, <2>3, <4>1 DEF Present
    <3>5. CASE \E d \in Dirs, m \in Numbers : lib[d][m] = <<x, i>>
      <4>1. PICK d \in Dirs, m \in Numbers : lib[d][m] = <<x, i>> BY <3>5
      <4>2. arrived[x] \in Int BY <1>2 DEF CopyTypes
      <4>3. <<x, i>> # Free BY <4>2 DEF Free
      <4>4. ~(d = dir /\ m = num) BY <2>4, <4>1, <4>3
      <4>5. lib'[d][m] = <<x, i>> BY <2>7, <2>13, <4>1, <4>4
      <4>6. QED BY <4>5 DEF Present
    <3>6. QED BY <3>2, <3>3, <3>4, <3>5 DEF Present
  <2>20. QED BY <2>15, <2>16, <2>17, <2>18, <2>19 DEF FilingInv
<1>5. QED BY <1>3, <1>4 DEF MoveOne

(* A folder that is discarded has none of its videos left.                  *)
LEMMA DiscardKeeps ==
    ASSUME FilingInv, Discard
    PROVE  FilingInv'
<1>1. UNCHANGED <<reported, pass, ask, seen, arrived, grew, lib, row>> BY DEF Discard, OutOfJob
<1>2. CopyTypes /\ FilesSound /\ C \in Copies /\ filing \in Filings /\ row \in Rows /\ filing.pc = "move" /\ BeingFiled
  BY DEF FilingInv, CopyTypes, Discard, At, C, BeingFiled
<1>3. C \in Folders => here[C] = {} BY <1>2 DEF Discard, FilesSound, Filings
<1>4. [here EXCEPT ![C] = {}] = here \/ C \notin Folders BY <1>2, <1>3 DEF CopyTypes
<1>5. C \in Groups \/ C \in Folders BY <1>2 DEF Copies
<1>6. here' = here BY <1>4, <1>5 DEF Discard
<1>7. filing' = [filing EXCEPT !.pc = "result", !.outcome = "archived"] BY DEF Discard, Result
<1>8. filing' \in Filings /\ filing'.pc = "result" /\ filing'.copy \in Copies BY <1>2, <1>7 DEF Filings, C
<1>9. QED BY <1>1, <1>2, <1>6, <1>8, FilingOver

(* A promotion by the filer leaves one number less to look at.              *)
LEMMA PromoteKeeps ==
    ASSUME FilingInv, Promote
    PROVE  FilingInv'
<1>1. UNCHANGED <<reported, pass, ask, seen, arrived, grew, here, row>> BY DEF Promote, OutOfJob
<1>2. CopyTypes /\ FoldersGrow /\ FilesSound /\ PlacesSound /\ NothingLost /\ C \in Copies /\ filing \in Filings /\ row \in Rows
      /\ filing.pc = "promote" /\ BeingFiled
  BY DEF FilingInv, CopyTypes, Promote, At, C, BeingFiled
<1>3. CASE Over /\ UNCHANGED lib
  <2>1. filing' \in Filings /\ filing'.pc = "none" BY <1>3, JobTypes DEF Over, NoJob
  <2>2. QED BY <1>1, <1>2, <1>3, <2>1, FilingOver
<1>4. ASSUME NEW n \in filing.left,
             lib["priority"][n] # Free \/ lib["normal"][n] # Free,
             lib' = IF lib["priority"][n] = Free THEN Promoted(n) ELSE lib,
             filing' = [filing EXCEPT !.left = @ \ {n}]
      PROVE  FilingInv'
  <2>1. n \in Numbers /\ filing.left \subseteq Numbers BY <1>2 DEF Filings
  <2>2. /\ filing' \in Filings /\ filing'.pc = "promote" /\ filing'.copy = C /\ C' = C /\ filing'.left = filing.left \ {n}
        /\ filing'.files = filing.files /\ filing'.moved = filing.moved
    BY <1>2, <1>4, <2>1 DEF Filings, C
  <2>3. FilesSound' BY <1>1, <1>2, <2>2 DEF FilesSound, BeingFiled
  <2>4. Holding("normal") \subseteq Holding("priority") \cup filing.left BY <1>2 DEF PlacesSound
  <2>5. CASE lib["priority"][n] # Free
    <3>1. lib' = lib BY <1>4, <2>5
    <3>2. n \in Holding("priority") BY <2>1, <2>5 DEF Holding
    <3>3. Holding("normal")' = Holding("normal") /\ Holding("priority")' = Holding("priority") BY <3>1 DEF Holding
    <3>4. PlacesSound' BY <2>2, <2>4, <3>2, <3>3 DEF PlacesSound
    <3>5. QED BY <1>1, <1>2, <2>2, <2>3, <3>1, <3>4, FilerOnly
  <2>6. CASE lib["priority"][n] = Free
    <3>1. lib' = Promoted(n) /\ lib["normal"][n] # Free BY <1>4, <2>6
    <3>2. lib' \in [Dirs -> [Numbers -> Entries]] BY <1>2, <2>1, <2>6, <3>1, PromotedIs
    <3>3. /\ NothingLost'
          /\ Holding("normal")' = Holding("normal") \ {n} /\ Holding("priority")' = Holding("priority") \cup {n}
      BY <1>1, <1>2, <2>1, <2>6, <3>1, PromotionKeeps
    <3>4. CopyTypes' BY <1>1, <1>2, <2>2, <3>2 DEF CopyTypes
    <3>5. FoldersGrow' BY <1>1, <1>2 DEF FoldersGrow
    <3>6. PlacesSound' BY <2>2, <2>4, <3>3 DEF PlacesSound
    <3>7. QED BY <2>3, <3>3, <3>4, <3>5, <3>6 DEF FilingInv
  <2>7. QED BY <2>5, <2>6
<1>5. QED BY <1>3, <1>4 DEF Promote

(* A promotion by a library check comes before the filer's own are over, or *)
(* is of a title no priority copy is being moved of.                        *)
LEMMA AskPromoteKeeps ==
    ASSUME FilingInv, AskPromote
    PROVE  FilingInv'
<1>1. UNCHANGED <<arrived, here, grew, seen, row, filing>> BY DEF AskPromote, copyVars
<1>2. CopyTypes /\ FoldersGrow /\ FilesSound /\ PlacesSound /\ NothingLost /\ row \in Rows /\ ask \in Asks /\ filing \in Filings
  BY DEF FilingInv, CopyTypes
<1>3. ask' \in Asks
  <2>1. [ask EXCEPT !.pc = "look"] \in Asks /\ [ask EXCEPT !.pc = "answer"] \in Asks BY <1>2 DEF Asks
  <2>2. \A n : [ask EXCEPT !.left = @ \ {n}] \in Asks BY <1>2 DEF Asks
  <2>3. QED BY <2>1, <2>2 DEF AskPromote
<1>4. CASE lib' = lib BY <1>1, <1>2, <1>3, <1>4, FilingStays DEF copyVars
<1>5. ASSUME NEW n \in ask.left, lib["priority"][n] = Free, lib["normal"][n] # Free, lib' = Promoted(n)
      PROVE  FilingInv'
  <2>1. n \in Numbers BY <1>2 DEF Asks
  <2>2. lib' \in [Dirs -> [Numbers -> Entries]] BY <1>2, <1>5, <2>1, PromotedIs
  <2>3. /\ NothingLost'
        /\ Holding("normal")' = Holding("normal") \ {n} /\ Holding("priority")' = Holding("priority") \cup {n}
        /\ \A d \in Dirs, m \in Numbers : lib[d][m] = Free /\ d # "priority" => lib'[d][m] = Free
    BY <1>1, <1>2, <1>5, <2>1, PromotionKeeps
  <2>4. CopyTypes' BY <1>1, <1>2, <1>3, <2>2 DEF CopyTypes
  <2>5. FoldersGrow' BY <1>1, <1>2 DEF FoldersGrow
  <2>6. FilesSound' BY <1>1, <1>2 DEF FilesSound, BeingFiled, C
  <2>7. PlacesSound'
    <3>1. C' = C /\ DirOf(C)' = DirOf(C) /\ \A j : Number(j)' = Number(j) BY <1>1 DEF C, DirOf, Number
    <3>2. ASSUME filing.pc = "move", NEW j \in 1 .. Len(filing.files), j > filing.moved
          PROVE  lib'[DirOf(C)][Number(j)] = Free
      <4>1. lib[DirOf(C)][Number(j)] = Free BY <1>2, <3>2 DEF PlacesSound
      <4>2. Number(j) \in Numbers
        <5>1. Len(filing.files) <= MaxParts /\ filing.files \in Seq(1 .. MaxParts)
          BY <1>2, <3>2 DEF FilesSound, BeingFiled, Filings
        <5>2. QED BY <5>1, <3>2, FilingAssumption DEF Number, Numbers
      <4>3. DirOf(C) # "priority"
        <5>1. SUFFICES ASSUME DirOf(C) = "priority" PROVE FALSE OBVIOUS
        <5>2. C \in Priority /\ ~BrandRouted BY <5>1 DEF DirOf
        <5>3. Holding("normal") \subseteq Holding("priority") BY <1>2, <3>2, <5>2 DEF PlacesSound
        <5>4. n \in Holding("normal") /\ n \notin Holding("priority") BY <1>5, <2>1 DEF Holding
        <5>5. QED BY <5>3, <5>4
      <4>4. DirOf(C) \in Dirs BY DEF DirOf, Dirs
      <4>5. QED BY <2>3, <4>1, <4>2, <4>3, <4>4
    <3>3. QED BY <1>1, <1>2, <2>3, <3>1, <3>2 DEF PlacesSound
  <2>8. QED BY <2>3, <2>4, <2>5, <2>6, <2>7 DEF FilingInv
<1>6. QED BY <1>4, <1>5 DEF AskPromote

(* What the filer reads and decides on between two renames.                 *)
LEMMA InspectKeeps ==
    ASSUME FilingInv, Inspect
    PROVE  FilingInv'
<1>1. UNCHANGED <<reported, pass, ask, seen, arrived, grew, here, lib, row>> BY DEF Inspect, OutOfJob
<1>2. CopyTypes /\ FilesSound /\ PlacesSound /\ C \in Copies /\ filing \in Filings /\ row \in Rows /\ filing.pc = "inspect"
  BY DEF FilingInv, CopyTypes, Inspect, At, C
<1>3. CASE filing' = NoJob
  <2>1. filing' \in Filings /\ filing'.pc = "none" BY <1>3, JobTypes DEF NoJob
  <2>2. QED BY <1>1, <1>2, <2>1, FilingOver
<1>4. CASE filing' = [filing EXCEPT !.pc = "result", !.outcome = "attention"]
  <2>1. filing' \in Filings /\ filing'.pc = "result" /\ filing'.copy \in Copies BY <1>2, <1>4 DEF Filings, C
  <2>2. QED BY <1>1, <1>2, <2>1, FilingOver
<1> DEFINE files == InOrder(here[C])
           pc == IF BrandRouted THEN "targets" ELSE IF C \in Priority THEN "promote" ELSE "held"
           left == IF C \in Priority /\ ~BrandRouted THEN Holding("normal") ELSE {}
<1>5. CASE filing' = [filing EXCEPT !.files = files, !.pc = pc, !.left = left]
  <2>1. here[C] \in SUBSET (1 .. MaxParts) BY <1>2 DEF CopyTypes
  <2>2. files \in Seq(1 .. MaxParts) /\ Len(files) <= MaxParts /\ \A i \in here[C] : \E k \in 1 .. Len(files) : files[k] = i
    BY <2>1, InOrderHasAll
  <2>3. pc \in {"targets", "promote", "held"} /\ left \in SUBSET Numbers BY DEF Holding
  <2>4. /\ pc = "targets" => BrandRouted
        /\ pc = "promote" => left = Holding("normal")
        /\ pc = "held" => C \notin Priority
    OBVIOUS
  <2> HIDE DEF files, pc, left
  <2>5. /\ filing' \in Filings /\ filing'.pc = pc /\ filing'.copy = C /\ C' = C /\ filing'.files = files
        /\ filing'.left = left /\ filing'.moved = 0
    BY <1>2, <1>5, <2>2, <2>3 DEF Filings, C, FilesSound
  <2>6. FilesSound'
    <3>1. C \in Folders => \A i \in here[C] : \E k \in 1 .. Len(files) : k > 0 /\ files[k] = i BY <2>2
    <3>2. 0 <= Len(files) BY <2>2
    <3>3. QED BY <1>1, <1>2, <2>2, <2>3, <2>5, <3>1, <3>2 DEF FilesSound, BeingFiled
  <2>7. PlacesSound'
    <3>1. Holding("normal")' = Holding("normal") /\ Holding("priority")' = Holding("priority") BY <1>1 DEF Holding
    <3>2. QED BY <2>3, <2>4, <2>5, <3>1 DEF PlacesSound
  <2>8. QED BY <1>1, <1>2, <2>5, <2>6, <2>7, FilerOnly
<1>6. QED BY <1>3, <1>4, <1>5 DEF Inspect

LEMMA DecideKeeps ==
    ASSUME FilingInv, PromotedAll \/ HeldByPriority \/ Targets
    PROVE  FilingInv'
<1>1. UNCHANGED <<reported, pass, ask, seen, arrived, grew, here, lib, row>>
  BY DEF PromotedAll, HeldByPriority, Targets, OutOfJob
<1>2. CopyTypes /\ FilesSound /\ PlacesSound /\ C \in Copies /\ filing \in Filings /\ row \in Rows
      /\ filing.pc \in {"promote", "held", "targets"} /\ BeingFiled
  BY DEF FilingInv, CopyTypes, PromotedAll, HeldByPriority, Targets, At, C, BeingFiled
<1>3. CASE filing' = [filing EXCEPT !.pc = "result", !.outcome = "attention"]
  <2>1. filing' \in Filings /\ filing'.pc = "result" /\ filing'.copy \in Copies BY <1>2, <1>3 DEF Filings, C
  <2>2. QED BY <1>1, <1>2, <2>1, FilingOver
<1>4. ASSUME NEW pc \in {"targets", "move"}, filing' = [filing EXCEPT !.pc = pc],
             C \in Priority /\ ~BrandRouted => Holding("normal") \subseteq Holding("priority"),
             pc = "move" => \A k \in 1 .. Len(filing.files) : lib[DirOf(C)][Number(k)] = Free
      PROVE  FilingInv'
  <2>1. /\ filing' \in Filings /\ filing'.pc = pc /\ filing'.copy = C /\ C' = C /\ filing'.files = filing.files
        /\ filing'.moved = filing.moved /\ filing.moved = 0
    BY <1>2, <1>4 DEF Filings, C, FilesSound
  <2>2. FilesSound' BY <1>1, <1>2, <1>4, <2>1 DEF FilesSound, BeingFiled
  <2>3. Holding("normal")' = Holding("normal") /\ Holding("priority")' = Holding("priority") BY <1>1 DEF Holding
  <2>4. DirOf(C)' = DirOf(C) /\ \A k : Number(k)' = Number(k) BY <2>1 DEF DirOf, Number
  <2>5. PlacesSound' BY <1>1, <1>4, <2>1, <2>3, <2>4 DEF PlacesSound
  <2>6. QED BY <1>1, <1>2, <2>1, <2>2, <2>5, FilerOnly
<1>5. CASE PromotedAll
  <2>1. filing.pc = "promote" /\ filing.left = {} /\ filing' = [filing EXCEPT !.pc = "targets"]
    BY <1>5 DEF PromotedAll, At
  <2>2. Holding("normal") \subseteq Holding("priority") BY <1>2, <2>1 DEF PlacesSound
  <2>3. QED BY <1>4, <2>1, <2>2
<1>6. CASE HeldByPriority
  <2>1. C \notin Priority BY <1>2, <1>6 DEF HeldByPriority, At, PlacesSound
  <2>2. \/ filing' = [filing EXCEPT !.pc = "result", !.outcome = "attention"]
        \/ filing' = [filing EXCEPT !.pc = "targets"]
    BY <1>6 DEF HeldByPriority, Result
  <2>3. QED BY <1>3, <1>4, <2>1, <2>2
<1>7. CASE Targets
  <2>1. filing.pc = "targets" BY <1>7 DEF Targets, At
  <2>2. C \in Priority /\ ~BrandRouted => Holding("normal") \subseteq Holding("priority")
    BY <1>2, <2>1 DEF PlacesSound
  <2>3. \/ filing' = [filing EXCEPT !.pc = "result", !.outcome = "attention"]
        \/ /\ filing' = [filing EXCEPT !.pc = "move"]
           /\ \A k \in 1 .. Len(filing.files) : lib[DirOf(C)][Number(k)] = Free
    BY <1>7 DEF Targets, Result
  <2>4. QED BY <1>3, <1>4, <2>2, <2>3
<1>8. QED BY <1>5, <1>6, <1>7

(* The row of a copy that has been dealt with.                              *)
LEMMA RecordKeeps ==
    ASSUME FilingInv, ReadRow \/ Record
    PROVE  FilingInv'
<1>1. UNCHANGED <<copyVars, lib, pass, ask, seen>> BY DEF ReadRow, Record
<1>2. filing \in Filings /\ row \in Rows /\ filing.pc \in {"result", "record"} /\ filing.copy \in Copies
  BY DEF FilingInv, CopyTypes, ReadRow, Record, At
<1>3. CASE Over /\ row' \in Rows
  <2>1. filing' \in Filings /\ filing'.pc = "none" BY <1>3, JobTypes DEF Over, NoJob
  <2>2. QED BY <1>1, <1>3, <2>1, FilingOver DEF copyVars
<1>4. CASE row' \in Rows /\ filing' = [filing EXCEPT !.pc = "record", !.read = row']
  <2>1. filing' \in Filings /\ filing'.pc = "record" /\ filing'.copy \in Copies BY <1>2, <1>4 DEF Filings
  <2>2. QED BY <1>1, <1>4, <2>1, FilingOver DEF copyVars
<1>5. CASE ReadRow
  <2>1. \/ Over /\ UNCHANGED row
        \/ /\ row' = IF row = "none" THEN "discovered" ELSE row
           /\ filing' = [filing EXCEPT !.pc = "record", !.read = row']
    BY <1>5 DEF ReadRow
  <2>2. row' \in Rows BY <1>2, <2>1 DEF Rows
  <2>3. QED BY <1>3, <1>4, <2>1, <2>2
<1>6. CASE Record
  <2>1. filing.outcome \in Rows BY <1>2 DEF Filings, Rows
  <2>2. Over /\ row' \in Rows BY <1>2, <1>6, <2>1 DEF Record
  <2>3. QED BY <1>3, <2>2
<1>7. QED BY <1>5, <1>6

(* A pass ends with the process; what it remembered goes with it.           *)
LEMMA CrashKeeps ==
    ASSUME FilingInv, Crash
    PROVE  FilingInv'
<1>1. UNCHANGED <<arrived, here, grew, lib, row>> /\ filing' = NoJob /\ ask' = NoAsk /\ seen' = [f \in Folders |-> -1]
  BY DEF Crash, copyVars
<1>2. CopyTypes /\ FoldersGrow /\ NothingLost BY DEF FilingInv
<1>3. filing' \in Filings /\ ask' \in Asks /\ filing'.pc = "none" BY <1>1, JobTypes DEF NoJob
<1>4. CopyTypes' BY <1>1, <1>2, <1>3 DEF CopyTypes
<1>5. FoldersGrow'
  <2>1. \A f \in Folders : arrived[f] \in Nat /\ seen'[f] = -1 BY <1>1, <1>2 DEF CopyTypes, Copies
  <2>2. QED BY <1>1, <1>2, <2>1 DEF FoldersGrow
<1>6. FilesSound' BY <1>3 DEF FilesSound, BeingFiled
<1>7. PlacesSound' BY <1>3 DEF PlacesSound
<1>8. NothingLost' BY <1>1, <1>2 DEF NothingLost, Present
<1>9. QED BY <1>4, <1>5, <1>6, <1>7, <1>8 DEF FilingInv

(* The pass between two copies, and what a check does beside its renames.   *)
LEMMA BesidesKeep ==
    ASSUME FilingInv,
           \/ BeginPass \/ Sweep \/ EndPass \/ \E f \in Folders : LeaveToTracker(f)
           \/ RowMoves \/ AskLook \/ AskAnswer
           \/ \E d \in {"priority", "normal"}, source \in {"rss", "manual"} : AskBegin(d, source)
    PROVE  FilingInv'
<1>1. UNCHANGED <<copyVars, seen, lib, filing>>
  BY DEF BeginPass, Sweep, EndPass, LeaveToTracker, RowMoves, AskLook, AskAnswer, AskBegin
<1>2. row \in Rows /\ ask \in Asks /\ NoAsk \in Asks BY JobTypes DEF FilingInv, CopyTypes
<1>3. Holding("priority") \cup Holding("brand") \subseteq Numbers /\ Holding("normal") \subseteq Numbers
  BY DEF Holding
<1>4. CASE BeginPass \/ Sweep \/ EndPass \/ \E f \in Folders : LeaveToTracker(f)
  <2>1. UNCHANGED <<row, ask>> BY <1>4 DEF BeginPass, Sweep, EndPass, LeaveToTracker
  <2>2. QED BY <1>1, <1>2, <2>1, FilingStays
<1>5. CASE RowMoves
  <2>1. row' \in Rows /\ ask' = ask BY <1>5 DEF RowMoves, Rows
  <2>2. QED BY <1>1, <1>2, <2>1, FilingStays
<1>6. CASE AskLook
  <2>1. row' = row BY <1>6 DEF AskLook
  <2>2. ask' \in Asks BY <1>2, <1>3, <1>6 DEF AskLook, Asks
  <2>3. QED BY <1>1, <1>2, <2>1, <2>2, FilingStays
<1>7. CASE AskAnswer
  <2>1. row' \in Rows BY <1>2, <1>7 DEF AskAnswer, Rows
  <2>2. ask' \in Asks BY <1>2, <1>7 DEF AskAnswer
  <2>3. QED BY <1>1, <2>1, <2>2, FilingStays
<1>8. ASSUME NEW d \in {"priority", "normal"}, NEW source \in {"rss", "manual"}, AskBegin(d, source)
      PROVE  FilingInv'
  <2>1. row' \in Rows BY <1>2, <1>8 DEF AskBegin, Rows
  <2>2. ask' \in Asks BY <1>2, <1>3, <1>8 DEF AskBegin, Asks, NoAsk
  <2>3. QED BY <1>1, <2>1, <2>2, FilingStays
<1>9. QED BY <1>4, <1>5, <1>6, <1>7, <1>8

LEMMA GroupKeeps ==
    ASSUME FilingInv, NEW g \in Groups, FileGroup(g)
    PROVE  FilingInv'
<1>1. UNCHANGED <<arrived, here, grew, seen, lib, row, ask>> /\ filing' = [NoJob EXCEPT !.pc = "inspect", !.copy = g]
  BY DEF FileGroup, copyVars
<1>2. g \in Copies /\ g \notin Folders /\ row \in Rows BY FilingAssumption DEF Copies, FilingInv, CopyTypes
<1>3. filing' \in Filings /\ filing'.pc = "inspect" /\ filing'.copy = g /\ filing'.moved = 0
  <2>1. NoJob \in Filings BY JobTypes
  <2>2. QED BY <1>1, <1>2, <2>1 DEF Filings, NoJob
<1>4. FilesSound' BY <1>2, <1>3 DEF FilesSound, BeingFiled, C
<1>5. PlacesSound' BY <1>3 DEF PlacesSound
<1>6. QED BY <1>1, <1>2, <1>3, <1>4, <1>5, FilerOnly

LEMMA FilingBegins == FilingInit => FilingInv
<1>1. SUFFICES ASSUME FilingInit PROVE FilingInv OBVIOUS
<1>2. NoJob \in Filings /\ NoAsk \in Asks /\ NoJob.pc = "none" BY JobTypes DEF NoJob
<1>3. filing = NoJob /\ ask = NoAsk /\ filing.pc = "none" BY <1>1, <1>2 DEF FilingInit
<1>4. CopyTypes
  <2>1. lib \in [Dirs -> [Numbers -> Entries]] BY <1>1 DEF FilingInit, Entries
  <2>2. \A c \in Copies : arrived[c] = 0 /\ here[c] = {} /\ PartsOf[c] \in Nat
    BY <1>1, FilingAssumption DEF FilingInit
  <2>3. arrived \in [Copies -> 0 .. MaxParts] /\ here \in [Copies -> SUBSET (1 .. MaxParts)] /\ grew \in [Copies -> BOOLEAN]
    BY <1>1, FilingAssumption DEF FilingInit
  <2>4. seen \in [Folders -> Int] /\ row \in Rows BY <1>1 DEF FilingInit, Rows
  <2>5. QED BY <1>2, <1>3, <2>1, <2>2, <2>3, <2>4 DEF CopyTypes
<1>5. FoldersGrow
  <2>1. \A f \in Folders : arrived[f] = 0 /\ here[f] = {} /\ seen[f] = -1 BY <1>1 DEF FilingInit, Copies
  <2>2. 1 .. 0 = {} OBVIOUS
  <2>3. ASSUME NEW f \in Folders PROVE here[f] = 1 .. arrived[f] /\ seen[f] < arrived[f] /\ seen[f] <= arrived[f]
    <3>1. arrived[f] = 0 /\ here[f] = {} /\ seen[f] = -1 BY <2>1
    <3>2. 1 .. arrived[f] = {} BY <2>2, <3>1
    <3>3. QED BY <3>1, <3>2
  <2>4. QED BY <2>3 DEF FoldersGrow
<1>6. FilesSound BY <1>3 DEF FilesSound, BeingFiled
<1>7. PlacesSound BY <1>3 DEF PlacesSound
<1>8. NothingLost BY <1>1 DEF FilingInit, NothingLost
<1>9. QED BY <1>4, <1>5, <1>6, <1>7, <1>8 DEF FilingInv

(* Each step of the filer, of a check or of what turns up keeps it.         *)
LEMMA FilingNextKeeps == FilingInv /\ [FilingNext]_filingVars => FilingInv'
<1>1. SUFFICES ASSUME FilingInv, [FilingNext]_filingVars PROVE FilingInv' OBVIOUS
<1>2. CASE UNCHANGED filingVars
  <2>1. UNCHANGED <<copyVars, seen, lib, filing, row, ask>> BY <1>2 DEF filingVars, copyVars
  <2>2. row' \in Rows /\ ask' \in Asks BY <1>1, <2>1 DEF FilingInv, CopyTypes
  <2>3. QED BY <1>1, <2>1, <2>2, FilingStays
<1>3. CASE \E c \in Copies : Arrive(c) BY <1>1, <1>3, ArriveKeeps
<1>4. CASE \E f \in Folders : Look(f) BY <1>1, <1>4, LookKeeps
<1>5. CASE \E g \in Groups : FileGroup(g) BY <1>1, <1>5, GroupKeeps
<1>6. CASE \/ BeginPass \/ Sweep \/ EndPass \/ \E f \in Folders : LeaveToTracker(f)
           \/ RowMoves \/ AskLook \/ AskAnswer
           \/ \E d \in {"priority", "normal"}, source \in {"rss", "manual"} : AskBegin(d, source)
  BY <1>1, <1>6, BesidesKeep
<1>7. CASE Inspect BY <1>1, <1>7, InspectKeeps
<1>8. CASE Promote BY <1>1, <1>8, PromoteKeeps
<1>9. CASE PromotedAll \/ HeldByPriority \/ Targets BY <1>1, <1>9, DecideKeeps
<1>10. CASE MoveOne BY <1>1, <1>10, MoveKeeps
<1>11. CASE Discard BY <1>1, <1>11, DiscardKeeps
<1>12. CASE ReadRow \/ Record BY <1>1, <1>12, RecordKeeps
<1>13. CASE Crash BY <1>1, <1>13, CrashKeeps
<1>14. CASE AskPromote BY <1>1, <1>14, AskPromoteKeeps
<1>15. QED
  BY <1>1, <1>2, <1>3, <1>4, <1>5, <1>6, <1>7, <1>8, <1>9, <1>10, <1>11, <1>12, <1>13, <1>14 DEF FilingNext, PassNext

LEMMA FilingSafety == FilingSpec => []FilingInv
<1>1. QED BY FilingBegins, FilingNextKeeps, PTL DEF FilingSpec

(* However many folders and staged groups come for a title, and whatever    *)
(* fails, ends the process or moves files beside the filer, no video that   *)
(* came is lost between its folder and the library, and a priority copy is  *)
(* moved in only where what a normal route holds has a priority file of its *)
(* own (_is_settled, _promote_from_normal, _move_planned, _discard).        *)
THEOREM CopiesStayAccounted == FilingSpec => []CopiesAccounted
<1>1. FilingInv => CopiesAccounted
  <2>1. SUFFICES ASSUME FilingInv PROVE CopiesAccounted OBVIOUS
  <2>2. PriorityWins BY <2>1 DEF FilingInv, PlacesSound, PriorityWins, At
  <2>3. QED BY <2>1, <2>2 DEF FilingInv, CopiesAccounted
<1>2. QED BY <1>1, FilingSafety, PTL

-----------------------------------------------------------------------------
(* Feeds: what a run of the poller relies on.                               *)

\* The ids a talent goes by are its own: the catalog gives no two of the
\* subscribed talents the same one.
Own(of) ==
    /\ \A s \in Talents : of[FeedOf[s]] = s
    /\ \A f \in Feeds : Successor[f] # Nobody => of[Successor[f]] = of[f]
OnesOwn == \E of \in [Feeds -> Subs] : Own(of)
TalentOf == CHOOSE of \in [Feeds -> Subs] : Own(of)

Labels == CatSet \cup {CatOf[s] : s \in Subs}
SubRows == [there : BOOLEAN, enabled : BOOLEAN, cat : Labels, feed : Feeds,
            cursor : SUBSET Items, seed : BOOLEAN, seeded : SUBSET Items]
Sources == CatSet \cup {Queue, Nobody}
TitleRows == [state : {"none", "discovered", "queued", "waiting", "due", "active", "archived"}, source : Sources]
Sighting == {"filing", "discover", "dir", "resolve", "submit"}
Polls == [pc : {"idle", "next", "fetch", "relink", "record"} \cup Sighting, todo : SUBSET Subs,
          snap : [Subs -> SubRows \cup {Nobody}], talents : [Feeds -> Labels \cup {Nobody}],
          s : Subs \cup {Head(SubOrder)}, items : SUBSET Items, left : SUBSET Titles, wanted : SUBSET Titles,
          dirs : [Titles -> Sources], a : Titles \cup {Nobody}, filing : Sources, claim : SUBSET CatSet]

FeedTypes ==
    /\ sub \in [Subs -> SubRows] /\ title \in [Titles -> TitleRows]
    /\ listed \in [Feeds -> SUBSET Items] /\ sent \in [Titles -> Sources]
    /\ claims \in [Titles -> SUBSET CatSet] /\ poll \in Polls

(* The run polls rows that were there and enabled when it read them.        *)
RunSound ==
    /\ poll.pc # "idle" => /\ poll.snap \in [Subs -> SubRows]
                           /\ \A s \in poll.todo : poll.snap[s].there /\ poll.snap[s].enabled
    /\ poll.pc \notin {"idle", "next"} => poll.s \in Subs /\ Snap.there /\ Snap.enabled /\ Category \in CatSet

Offered(i) == title[TitleOf[i]].state # "none"

(* What is remembered as read, now or when the run began, was offered.      *)
CursorSound ==
    /\ CursorMeansOffered
    /\ poll.pc # "idle" => \A s \in Subs : poll.snap[s].there =>
          \A i \in poll.snap[s].cursor \ sub[s].seeded : Offered(i)

(* What a subscription to be seeded lists is not filed; the rest is, or was *)
(* offered before.                                                          *)
ReadSound ==
    /\ poll.pc = "record" => Snap.seed
    /\ poll.pc \in Sighting =>
          /\ ~Snap.seed
          /\ \A i \in poll.items : \/ Offered(i)
                                   \/ TitleOf[i] \in poll.left
                                   \/ poll.pc = "discover" /\ TitleOf[i] = poll.a
    /\ poll.pc \in {"resolve", "submit"} => poll.left = {}

(* A title's owner comes first among those with a claim to it.              *)
TitlesOwned ==
    \A a \in Titles :
        /\ title[a].state = "none" => claims[a] = {} /\ title[a].source = Nobody
        /\ title[a].state # "none" => title[a].source # Nobody
        /\ title[a].source \in CatSet => \A c \in claims[a] : Rank(title[a].source) <= Rank(c)

(* A sighting files before all it claims for; a directory is the owner's.   *)
SightingSound ==
    /\ poll.pc \in {"discover", "dir"} =>
          poll.a \in Titles /\ poll.a \notin poll.left \cup poll.wanted /\ poll.filing \in CatSet
    /\ poll.pc = "discover" => \A c \in poll.claim : Rank(poll.filing) <= Rank(c)
    /\ poll.pc \in {"next", "fetch", "relink"} => poll.wanted = {}
    /\ poll.pc = "dir" => \/ title[poll.a].source = Queue
                          \/ /\ title[poll.a].source \in CatSet
                             /\ Ahead(poll.filing) = {} => title[poll.a].source = poll.filing
    /\ poll.pc \in Sighting => \A a \in poll.wanted : a \notin poll.left /\ title[a].source \in {poll.dirs[a], Queue}

(* The run knows the category of every talent it follows.                   *)
FollowsSound ==
    /\ \A s \in Talents : TalentOf[sub[s].feed] = s
    /\ poll.pc # "idle" => \A s \in Talents : Follows(s) =>
          sub[s].feed = poll.snap[s].feed /\ poll.talents[sub[s].feed] = poll.snap[s].cat
    /\ poll.pc # "idle" => \A f \in Feeds : poll.talents[f] # Nobody =>
          TalentOf[f] \in Talents /\ poll.snap[TalentOf[f]].feed = f

FeedInv == FeedTypes /\ RunSound /\ CursorSound /\ ReadSound /\ TitlesOwned /\ SightingSound /\ FollowsSound

(* The rank of a configured category.                                       *)
LEMMA RanksAre == \A c \in CatSet : Rank(c) \in Nat
<1>1. SUFFICES ASSUME NEW c \in CatSet PROVE Rank(c) \in Nat OBVIOUS
<1>2. Cats \in Seq(CatSet) BY FeedAssumption
<1>3. \E n \in DOMAIN Cats : Cats[n] = c BY DEF CatSet, Range
<1>4. Rank(c) \in DOMAIN Cats BY <1>3, Zenon DEF Rank
<1>5. QED BY <1>2, <1>4

(* The directories of a category, and the talent of a feed.                 *)
LEMMA TalentOfIs == OnesOwn => TalentOf \in [Feeds -> Subs] /\ Own(TalentOf)
BY Zenon DEF OnesOwn, TalentOf

(* The row of a talent that moved.                                          *)
LEMMA RowEdits ==
    ASSUME NEW r \in SubRows, NEW f \in Feeds
    PROVE  [r EXCEPT !.feed = f] = [there |-> r.there, enabled |-> r.enabled, cat |-> r.cat, feed |-> f,
                                    cursor |-> r.cursor, seed |-> r.seed, seeded |-> r.seeded]
BY DEF SubRows

(* A run that is over, or goes on with the next row, as it is typed.        *)
LEMMA QuietIs ==
    /\ Quiet \in Polls /\ Quiet.pc = "idle" /\ Quiet.wanted = {}
    /\ \A p \in Polls : /\ Next1(p) \in Polls /\ Next1(p).pc = "next" /\ Next1(p).todo = p.todo
                        /\ Next1(p).snap = p.snap /\ Next1(p).talents = p.talents /\ Next1(p).wanted = {}
<1>1. NoSnap \in [Subs -> SubRows \cup {Nobody}] BY DEF NoSnap
<1>2. [f \in Feeds |-> Nobody] \in [Feeds -> Labels \cup {Nobody}] /\ [a \in Titles |-> Nobody] \in [Titles -> Sources]
  BY DEF Sources
<1>3. Quiet \in Polls /\ Quiet.pc = "idle" /\ Quiet.wanted = {} BY <1>1, <1>2 DEF Quiet, Polls, Sources
<1>4. ASSUME NEW p \in Polls
      PROVE  /\ Next1(p) \in Polls /\ Next1(p).pc = "next" /\ Next1(p).todo = p.todo
             /\ Next1(p).snap = p.snap /\ Next1(p).talents = p.talents /\ Next1(p).wanted = {}
  BY <1>3 DEF Next1, Polls
<1>5. QED BY <1>3, <1>4

(* The run goes on to the next subscription, or is over.                    *)
LEMMA QuietKeeps ==
    ASSUME FeedInv, UNCHANGED <<sub, title, listed, sent, claims>>,
           (poll' = Next1(poll) /\ poll.pc # "idle") \/ poll' = Quiet
    PROVE  FeedInv'
<1>1. FeedTypes' BY QuietIs DEF FeedInv, FeedTypes
<1>2. CASE poll' = Quiet
  <2>1. poll'.pc = "idle" BY <1>2, QuietIs
  <2>2. QED BY <1>1, <2>1
    DEF FeedInv, RunSound, CursorSound, ReadSound, TitlesOwned, SightingSound, FollowsSound, CursorMeansOffered,
        Offered, Sighting
<1>3. CASE poll' = Next1(poll) /\ poll.pc # "idle"
  <2>1. poll'.pc = "next" /\ poll'.wanted = {} /\ UNCHANGED <<poll.todo, poll.snap, poll.talents>>
    BY <1>3, QuietIs DEF FeedInv, FeedTypes
  <2>2. RunSound' BY <1>3, <2>1 DEF FeedInv, RunSound
  <2>3. CursorSound' BY <1>3, <2>1 DEF FeedInv, CursorSound, CursorMeansOffered, Offered
  <2>4. FollowsSound' BY <1>3, <2>1 DEF FeedInv, FollowsSound, Follows
  <2>5. SightingSound' /\ ReadSound' BY <2>1 DEF SightingSound, ReadSound, Sighting
  <2>6. QED BY <1>1, <2>2, <2>3, <2>4, <2>5 DEF FeedInv, TitlesOwned
<1>4. QED BY <1>2, <1>3

(* A step of the run that keeps the rows it read.                           *)
LEMMA RunMoves ==
    ASSUME FeedInv, UNCHANGED <<sub, listed, poll.snap, poll.talents, poll.s, poll.todo>>, poll' \in Polls,
           poll.pc \notin {"idle", "next"}, poll'.pc \notin {"idle", "next"},
           title' \in [Titles -> TitleRows], sent' \in [Titles -> Sources], claims' \in [Titles -> SUBSET CatSet],
           \A a \in Titles : title[a].state # "none" => title'[a].state # "none",
           TitlesOwned', ReadSound', SightingSound'
    PROVE  FeedInv'
<1>1. FeedTypes' BY DEF FeedInv, FeedTypes
<1>2. RunSound' BY DEF FeedInv, RunSound, Snap, Category
<1>3. \A i \in Items : Offered(i) => Offered(i)' BY DEF Offered, Titles
<1>4. CursorSound'
  <2>1. \A s \in Subs : sub[s].cursor \subseteq Items /\ poll.snap[s] \in SubRows /\ poll.snap[s].cursor \subseteq Items
    BY DEF FeedInv, FeedTypes, RunSound, SubRows
  <2>2. CursorMeansOffered' BY <1>3, <2>1 DEF FeedInv, CursorSound, CursorMeansOffered, Offered
  <2>3. QED BY <1>3, <2>1, <2>2 DEF FeedInv, CursorSound
<1>5. FollowsSound' BY DEF FeedInv, FollowsSound, Follows
<1>6. QED BY <1>1, <1>2, <1>4, <1>5 DEF FeedInv

(* A title may move on, or be queued by another source.                     *)
TitlesMove ==
    /\ title' \in [Titles -> TitleRows] /\ claims' \in [Titles -> SUBSET CatSet]
    /\ \A a \in Titles : title'[a].state = "none" => title[a].state = "none"
    /\ \A a \in Titles :
          \/ /\ title'[a].source = title[a].source /\ claims'[a] = claims[a]
             /\ title[a].state = "none" => title'[a].state = "none"
          \/ title'[a].source = Queue /\ claims'[a] = {} /\ title'[a].state # "none"

LEMMA OwnersStay ==
    ASSUME FeedInv, TitlesMove
    PROVE  /\ TitlesOwned'
           /\ \A a \in Titles : title'[a].source \in {title[a].source, Queue}
           /\ \A a \in Titles : title[a].state # "none" => title'[a].state # "none"
<1>1. Queue \notin CatSet /\ Queue # Nobody BY FeedAssumption
<1>2. QED BY <1>1 DEF FeedInv, TitlesOwned, TitlesMove

LEMMA OthersMove ==
    ASSUME FeedInv, UNCHANGED <<sub, listed, poll>>, TitlesMove, sent' \in [Titles -> Sources]
    PROVE  FeedInv'
<1>1. TitlesOwned' BY OwnersStay
<1>2. \A a \in Titles : title'[a].source \in {title[a].source, Queue} /\ (title[a].state # "none" => title'[a].state # "none")
  BY OwnersStay
<1>3. \A i \in Items : Offered(i) => Offered(i)' BY <1>2 DEF Offered, Titles
<1>4. FeedTypes' BY DEF FeedInv, FeedTypes, TitlesMove
<1>5. RunSound' BY DEF FeedInv, RunSound, Snap, Category
<1>6. CursorSound'
  <2>1. \A s \in Subs : sub[s].cursor \subseteq Items BY DEF FeedInv, FeedTypes, SubRows
  <2>2. poll.pc # "idle" => \A s \in Subs : poll.snap[s].cursor \subseteq Items BY DEF FeedInv, RunSound, SubRows
  <2>3. CursorMeansOffered' BY <1>3, <2>1 DEF FeedInv, CursorSound, CursorMeansOffered, Offered
  <2>4. QED BY <1>3, <2>2, <2>3 DEF FeedInv, CursorSound
<1>7. ReadSound'
  <2>1. poll.items \subseteq Items BY DEF FeedInv, FeedTypes, Polls
  <2>2. QED BY <1>3, <2>1 DEF FeedInv, ReadSound, Snap
<1>8. SightingSound'
  <2>1. poll.wanted \subseteq Titles BY DEF FeedInv, FeedTypes, Polls
  <2>2. QED BY <1>2, <2>1, FeedAssumption DEF FeedInv, SightingSound
<1>9. FollowsSound' BY DEF FeedInv, FollowsSound, Follows
<1>10. QED BY <1>1, <1>4, <1>5, <1>6, <1>7, <1>8, <1>9 DEF FeedInv

(* A row of the registry that is changed, by the run or by the dashboard.   *)
LEMMA SubMoves ==
    ASSUME FeedInv, UNCHANGED <<title, listed, sent, claims>>,
           poll' = poll \/ (poll' = Next1(poll) /\ poll.pc # "idle"),
           NEW s \in Subs, NEW r \in SubRows, sub' = [sub EXCEPT ![s] = r],
           \A i \in r.cursor \ r.seeded : Offered(i),
           s \in Talents => TalentOf[r.feed] = s,
           poll.pc # "idle" /\ poll.snap[s].there =>
              sub[s].seeded \subseteq r.seeded /\ (s \in Talents /\ r.there => sub[s].there /\ r.feed = sub[s].feed)
    PROVE  FeedInv'
<1>1. /\ sub'[s] = r /\ \A t \in Subs : t # s => sub'[t] = sub[t]
      /\ sub' \in [Subs -> SubRows]
  BY DEF FeedInv, FeedTypes
<1>2. /\ poll' \in Polls /\ UNCHANGED <<poll.snap, poll.talents, poll.todo>>
      /\ poll' # poll => poll'.pc = "next" /\ poll'.wanted = {} /\ poll.pc # "idle"
  BY QuietIs DEF FeedInv, FeedTypes
<1>3. FeedTypes' BY <1>1, <1>2 DEF FeedInv, FeedTypes
<1>4. RunSound' BY <1>2 DEF FeedInv, RunSound, Snap, Category
<1>5. CursorSound'
  <2>1. CursorMeansOffered' BY <1>1 DEF FeedInv, CursorSound, CursorMeansOffered, Offered
  <2>2. ASSUME poll.pc # "idle", NEW t \in Subs, poll.snap[t].there, NEW i \in poll.snap[t].cursor \ sub'[t].seeded
        PROVE  Offered(i)
    <3>1. i \notin sub[t].seeded BY <1>1, <2>2
    <3>2. QED BY <2>2, <3>1 DEF FeedInv, CursorSound
  <2>3. QED BY <1>2, <2>1, <2>2 DEF CursorSound, Offered
<1>6. ReadSound' BY <1>2 DEF FeedInv, ReadSound, Snap, Offered, Sighting
<1>7. SightingSound' BY <1>2 DEF FeedInv, SightingSound, Sighting
<1>8. FollowsSound'
  <2>1. Talents \subseteq Subs BY FeedAssumption
  <2>2. \A t \in Talents : TalentOf[sub'[t].feed] = t BY <1>1, <2>1 DEF FeedInv, FollowsSound
  <2>3. ASSUME poll.pc # "idle", NEW t \in Talents, Follows(t)'
        PROVE  sub'[t].feed = poll.snap[t].feed /\ poll.talents[sub'[t].feed] = poll.snap[t].cat
    <3>1. Follows(t) /\ sub'[t].feed = sub[t].feed
      <4>1. poll.snap[t].there /\ poll.snap[t].enabled /\ sub'[t].there BY <1>2, <2>3 DEF Follows
      <4>2. CASE t = s BY <1>1, <2>3, <4>1, <4>2 DEF Follows
      <4>3. CASE t # s BY <1>1, <2>1, <4>1, <4>3 DEF Follows
      <4>4. QED BY <4>2, <4>3
    <3>2. QED BY <2>3, <3>1 DEF FeedInv, FollowsSound
  <2>4. QED BY <1>2, <2>2, <2>3 DEF FeedInv, FollowsSound
<1>9. TitlesOwned' BY DEF FeedInv, TitlesOwned
<1>10. QED BY <1>3, <1>4, <1>5, <1>6, <1>7, <1>8, <1>9 DEF FeedInv

(* A run begins with the registry as it is.                                 *)
LEMMA RunFeedsKeeps ==
    ASSUME FeedInv, RunFeeds
    PROVE  FeedInv'
<1>1. UNCHANGED <<sub, title, listed, sent, claims>> BY DEF RunFeeds, envVars, titleVars
<1>2. sub \in [Subs -> SubRows] /\ Talents \subseteq Subs /\ \A s \in Talents : TalentOf[sub[s].feed] = s
  BY FeedAssumption DEF FeedInv, FeedTypes, FollowsSound
<1> DEFINE of(f) == {s \in Talents : Enabled(s) /\ sub[s].feed = f}
           first(f) == CHOOSE s \in of(f) : TRUE
<1>3. \A f \in Feeds : TalentCategories[f] = IF of(f) = {} THEN Nobody ELSE sub[first(f)].cat BY DEF TalentCategories
<1>4. ASSUME NEW f \in Feeds, of(f) # {} PROVE first(f) = TalentOf[f] /\ first(f) \in of(f)
  <2>1. first(f) \in of(f) BY <1>4, Zenon
  <2>2. \A s \in of(f) : TalentOf[f] = s BY <1>2
  <2> HIDE DEF of, first
  <2>3. QED BY <2>1, <2>2
<1>5. \A f \in Feeds : of(f) \subseteq Subs BY <1>2
<1> HIDE DEF of, first
<1>6. TalentCategories \in [Feeds -> Labels \cup {Nobody}]
  <2>1. \A f \in Feeds : of(f) # {} => sub[first(f)].cat \in Labels BY <1>2, <1>4, <1>5 DEF SubRows
  <2>2. \A f \in Feeds : TalentCategories[f] \in Labels \cup {Nobody} BY <1>3, <2>1
  <2> DEFINE cat(f) == LET of1 == {s \in Talents : Enabled(s) /\ sub[s].feed = f}
                      IN  IF of1 = {} THEN Nobody ELSE sub[CHOOSE s \in of1 : TRUE].cat
  <2>3. TalentCategories = [f \in Feeds |-> cat(f)] BY DEF TalentCategories
  <2> HIDE DEF cat
  <2>4. QED BY <2>2, <2>3
<1>7. poll' = [Quiet EXCEPT !.pc = "next", !.todo = {s \in Subs : Enabled(s)}, !.snap = sub,
                            !.talents = TalentCategories]
  BY DEF RunFeeds
<1> DEFINE all == {s \in Subs : Enabled(s)}
<1>8. all \in SUBSET Subs /\ \A s \in all : sub[s].there /\ sub[s].enabled BY DEF Enabled
<1> HIDE DEF all
<1>9. /\ poll' \in Polls /\ poll'.pc = "next" /\ poll'.wanted = {}
      /\ poll'.todo = all /\ poll'.snap = sub /\ poll'.talents = TalentCategories
  <2>1. Quiet \in Polls /\ Quiet.wanted = {} BY QuietIs
  <2>2. sub \in [Subs -> SubRows \cup {Nobody}] BY <1>2
  <2>3. poll' = [Quiet EXCEPT !.pc = "next", !.todo = all, !.snap = sub, !.talents = TalentCategories] BY <1>7 DEF all
  <2> HIDE DEF TalentCategories, Quiet
  <2>4. QED BY <1>6, <1>8, <2>1, <2>2, <2>3 DEF Polls
<1>10. FeedTypes' BY <1>1, <1>9 DEF FeedInv, FeedTypes
<1>11. RunSound' BY <1>2, <1>8, <1>9 DEF RunSound
<1>12. CursorSound' BY <1>1, <1>9 DEF FeedInv, CursorSound, CursorMeansOffered, Offered
<1>13. ReadSound' /\ SightingSound' BY <1>9 DEF ReadSound, SightingSound, Sighting
<1>14. FollowsSound'
  <2>1. ASSUME NEW s \in Talents, Follows(s)' PROVE TalentCategories[sub[s].feed] = sub[s].cat
    <3>1. Enabled(s) BY <1>1, <1>9, <2>1 DEF Follows, Enabled
    <3>2. sub[s].feed \in Feeds BY <1>2 DEF SubRows
    <3>3. s \in of(sub[s].feed) BY <2>1, <3>1 DEF of
    <3>4. first(sub[s].feed) = TalentOf[sub[s].feed] BY <1>4, <3>2, <3>3
    <3>5. first(sub[s].feed) = s BY <1>2, <3>4
    <3>6. QED BY <1>3, <3>2, <3>3, <3>5
  <2>2. ASSUME NEW f \in Feeds, TalentCategories[f] # Nobody
        PROVE TalentOf[f] \in Talents /\ sub[TalentOf[f]].feed = f
    <3>1. of(f) # {} BY <1>3, <2>2
    <3>2. TalentOf[f] \in of(f) BY <1>4, <3>1
    <3>3. QED BY <3>2 DEF of
  <2>3. QED BY <1>1, <1>2, <1>9, <2>1, <2>2 DEF FollowsSound
<1>15. TitlesOwned' BY <1>1 DEF FeedInv, TitlesOwned
<1>16. QED BY <1>10, <1>11, <1>12, <1>13, <1>14, <1>15 DEF FeedInv

(* It takes one row after the other.                                        *)
LEMMA NextSubKeeps ==
    ASSUME FeedInv, NextSub
    PROVE  FeedInv'
<1>1. UNCHANGED <<sub, title, listed, sent, claims>> BY DEF NextSub, envVars, titleVars
<1>2. CASE poll' = Quiet BY <1>1, <1>2, QuietKeeps
<1>3. ASSUME NEW s \in poll.todo,
             \/ poll' = [poll EXCEPT !.pc = "fetch", !.s = s, !.todo = @ \ {s}] /\ IsConfigured(poll.snap[s].cat)
             \/ poll' = [poll EXCEPT !.todo = @ \ {s}]
      PROVE  FeedInv'
  <2>1. poll.pc = "next" /\ poll \in Polls /\ s \in Subs BY <1>3 DEF NextSub, FeedInv, FeedTypes, Polls
  <2>2. poll' \in Polls /\ UNCHANGED <<poll.snap, poll.talents, poll.wanted>> /\ poll'.todo = poll.todo \ {s}
        /\ (poll'.pc = "next" \/ (poll'.pc = "fetch" /\ poll'.s = s /\ IsConfigured(poll.snap[s].cat)))
    <3>1. CASE poll' = [poll EXCEPT !.pc = "fetch", !.s = s, !.todo = @ \ {s}] /\ IsConfigured(poll.snap[s].cat)
      BY <2>1, <3>1 DEF Polls
    <3>2. CASE poll' = [poll EXCEPT !.todo = @ \ {s}] BY <2>1, <3>2 DEF Polls
    <3>3. QED BY <1>3, <3>1, <3>2
  <2>3. FeedTypes' BY <1>1, <2>2 DEF FeedInv, FeedTypes
  <2>4. RunSound' BY <1>3, <2>1, <2>2 DEF FeedInv, RunSound, Snap, Category, IsConfigured
  <2>5. CursorSound'
    <3>1. poll.pc # "idle" /\ poll'.pc # "idle" BY <2>1, <2>2
    <3>2. CursorMeansOffered' BY <1>1 DEF FeedInv, CursorSound, CursorMeansOffered
    <3>3. QED BY <1>1, <2>2, <3>1, <3>2 DEF FeedInv, CursorSound, Offered
  <2>6. ReadSound' /\ SightingSound' BY <2>1, <2>2 DEF FeedInv, ReadSound, SightingSound, Sighting
  <2>7. FollowsSound' BY <1>1, <2>1, <2>2 DEF FeedInv, FollowsSound, Follows
  <2>8. QED BY <1>1, <2>3, <2>4, <2>5, <2>6, <2>7 DEF FeedInv, TitlesOwned
<1>4. QED BY <1>2, <1>3 DEF NextSub

(* A feed is read as it is; one that is to be seeded is only remembered.    *)
LEMMA FetchKeeps ==
    ASSUME FeedInv, Fetch
    PROVE  FeedInv'
<1>1. UNCHANGED <<sub, title, listed, sent, claims>> BY DEF Fetch, envVars, titleVars
<1>2. poll.pc = "fetch" /\ poll \in Polls /\ Snap \in SubRows /\ TitlesOwned
  BY DEF Fetch, FeedInv, FeedTypes, RunSound, Snap
<1>3. listed[Snap.feed] \subseteq Items BY <1>2 DEF FeedInv, FeedTypes, SubRows
<1> DEFINE fresh == listed[Snap.feed] \ Snap.cursor
           titles == {TitleOf[i] : i \in fresh}
<1>4. fresh \in SUBSET Items /\ \A i \in fresh : TitleOf[i] \in titles BY <1>3
<1>5. titles \in SUBSET Titles BY <1>4 DEF Titles
<1>6. \/ poll' = [poll EXCEPT !.pc = "relink"]
      \/ poll' = [poll EXCEPT !.pc = "record", !.items = listed[Snap.feed]] /\ Snap.seed
      \/ poll' = [poll EXCEPT !.pc = "filing", !.items = fresh, !.left = titles] /\ ~Snap.seed
  BY Zenon DEF Fetch
<1> HIDE DEF fresh, titles
<1>7. /\ poll' \in Polls /\ UNCHANGED <<poll.snap, poll.talents, poll.s, poll.todo, poll.wanted>>
      /\ poll'.pc \in {"relink", "record", "filing"}
      /\ poll'.pc = "record" => Snap.seed
      /\ poll'.pc = "filing" => ~Snap.seed /\ poll'.items = fresh /\ poll'.left = titles
  <2>1. CASE poll' = [poll EXCEPT !.pc = "relink"] BY <1>2, <2>1 DEF Polls
  <2>2. CASE poll' = [poll EXCEPT !.pc = "record", !.items = listed[Snap.feed]] /\ Snap.seed
    BY <1>2, <1>3, <2>2 DEF Polls
  <2>3. CASE poll' = [poll EXCEPT !.pc = "filing", !.items = fresh, !.left = titles] /\ ~Snap.seed
    BY <1>2, <1>4, <1>5, <2>3 DEF Polls, Sighting
  <2>4. QED BY <1>6, <2>1, <2>2, <2>3
<1>8. ReadSound'
  <2>1. Snap' = Snap BY <1>7 DEF Snap
  <2>2. QED BY <1>4, <1>7, <2>1 DEF ReadSound, Sighting
<1>9. poll.wanted = {} BY <1>2 DEF FeedInv, SightingSound
<1>10. SightingSound' BY <1>7, <1>9 DEF SightingSound, Sighting
<1>11. TitlesOwned' BY <1>1, <1>2 DEF TitlesOwned
<1>12. QED BY <1>1, <1>2, <1>7, <1>8, <1>10, <1>11, RunMoves DEF FeedInv, FeedTypes

(* A talent that moved keeps its category; no other has its new id.         *)
LEMMA RelinkKeeps ==
    ASSUME FeedInv, Own(TalentOf), Relink
    PROVE  FeedInv'
<1>1. UNCHANGED <<title, listed, sent, claims>> /\ poll.pc = "relink" BY DEF Relink, envVars, titleVars
<1>2. poll \in Polls /\ poll.s \in Subs /\ Snap \in SubRows /\ Snap.there /\ Snap.enabled /\ Category \in CatSet
      /\ poll.snap \in [Subs -> SubRows] /\ sub \in [Subs -> SubRows] /\ poll.talents \in [Feeds -> Labels \cup {Nobody}]
  BY <1>1 DEF FeedInv, FeedTypes, RunSound, Snap, Polls
<1>3. CASE poll' = Next1(poll) /\ UNCHANGED sub BY <1>1, <1>3, QuietKeeps
<1> DEFINE f == Successor[Snap.feed]
           s == poll.s
           entry == [sub[s] EXCEPT !.feed = f]
           was == [Snap EXCEPT !.feed = f]
<1>4. CASE /\ Moved(s, f) /\ ~Followed(f) /\ sub[s].there
           /\ sub' = [sub EXCEPT ![s].feed = f]
           /\ poll' = [poll EXCEPT !.pc = "fetch", !.snap[poll.s].feed = f, !.talents = Taking(f)]
  <2>1. s \in Talents /\ f # Nobody /\ f \in Feeds /\ Snap.feed \in Feeds
    BY <1>2, <1>4, FeedAssumption DEF Moved, SubRows
  <2>2. Talents \subseteq Subs BY FeedAssumption
  <2>3. sub[s].feed = Snap.feed /\ poll.talents[Snap.feed] = Category /\ TalentOf[Snap.feed] = s
    <3>1. Follows(s) BY <1>2, <1>4 DEF Follows, Snap
    <3>2. QED BY <1>1, <2>1, <3>1 DEF FeedInv, FollowsSound, Snap, Category
  <2>4. f # Snap.feed
    <3>1. \E x \in Subs : sub[x].there /\ sub[x].feed = Snap.feed BY <1>2, <1>4, <2>3
    <3>2. QED BY <1>4, <3>1 DEF Followed
  <2>5. TalentOf[f] = s BY <2>1, <2>3 DEF Own
  <2>6. poll.talents[f] = Nobody BY <1>1, <2>1, <2>4, <2>5 DEF FeedInv, FollowsSound, Snap
  <2>7. entry \in SubRows /\ entry.feed = f /\ entry.there /\ entry.seeded = sub[s].seeded /\ entry.cursor = sub[s].cursor
    <3>1. sub[s] \in SubRows BY <1>2
    <3>2. entry = [there |-> sub[s].there, enabled |-> sub[s].enabled, cat |-> sub[s].cat, feed |-> f,
                 cursor |-> sub[s].cursor, seed |-> sub[s].seed, seeded |-> sub[s].seeded]
      BY <2>1, <3>1, RowEdits
    <3> HIDE DEF entry
    <3>3. entry \in SubRows BY <2>1, <3>1, <3>2 DEF SubRows
    <3>4. QED BY <1>4, <3>2, <3>3
  <2>8. was \in SubRows /\ was.feed = f /\ was.there /\ was.enabled /\ was.cat = Category /\ was.cursor = Snap.cursor
    <3>1. was = [there |-> Snap.there, enabled |-> Snap.enabled, cat |-> Snap.cat, feed |-> f,
                 cursor |-> Snap.cursor, seed |-> Snap.seed, seeded |-> Snap.seeded]
      BY <1>2, <2>1, RowEdits
    <3> HIDE DEF was
    <3>2. was \in SubRows BY <1>2, <2>1, <3>1 DEF SubRows
    <3>3. QED BY <1>2, <3>1, <3>2 DEF Category
  <2> DEFINE snap == [poll.snap EXCEPT ![s] = was]
             talents == Taking(f)
  <2>9. sub' = [sub EXCEPT ![s] = entry] BY <1>4
  <2>10. poll' = [poll EXCEPT !.pc = "fetch", !.snap = snap, !.talents = talents] BY <1>2, <1>4 DEF Snap, Polls
  <2>11. f = Successor[Snap.feed] /\ s = poll.s OBVIOUS
  <2>12. talents[f] = Category /\ talents[Snap.feed] = Nobody /\ talents \in [Feeds -> Labels \cup {Nobody}]
         /\ \A g \in Feeds : g # f /\ g # Snap.feed => talents[g] = poll.talents[g]
    BY <1>2, <2>1, <2>3, <2>4, <2>6 DEF Taking
  <2> HIDE DEF entry, was, talents, f, s
  <2>13. sub'[s] = entry /\ (\A x \in Subs : x # s => sub'[x] = sub[x]) /\ sub' \in [Subs -> SubRows]
    BY <1>2, <2>2, <2>1, <2>7, <2>9
  <2>14. snap[s] = was /\ (\A x \in Subs : x # s => snap[x] = poll.snap[x]) /\ snap \in [Subs -> SubRows]
    BY <1>2, <2>1, <2>2, <2>8
  <2> HIDE DEF snap
  <2>15. poll' \in Polls /\ poll'.pc = "fetch" /\ poll'.snap = snap /\ poll'.talents = talents
         /\ UNCHANGED <<poll.s, poll.todo, poll.wanted>>
    <3>1. snap \in [Subs -> SubRows \cup {Nobody}] BY <2>14
    <3>2. QED BY <1>2, <2>10, <2>12, <3>1 DEF Polls
  <2>16. FeedTypes' BY <1>1, <2>13, <2>15 DEF FeedInv, FeedTypes
  <2>17. RunSound'
    <3>1. \A x \in poll.todo : x \in Subs /\ snap[x].there /\ snap[x].enabled
      <4>1. \A x \in poll.todo : x \in Subs /\ poll.snap[x].there /\ poll.snap[x].enabled
        BY <1>1, <1>2 DEF FeedInv, RunSound, Polls
      <4>2. QED BY <2>8, <2>14, <4>1
    <3>2. QED BY <1>2, <2>8, <2>11, <2>14, <2>15, <3>1 DEF RunSound, Snap, Category
  <2>18. CursorSound'
    <3>1. CursorMeansOffered'
      <4>1. \A x \in Subs : sub'[x].cursor = sub[x].cursor /\ sub'[x].seeded = sub[x].seeded BY <2>7, <2>13
      <4>2. QED BY <1>1, <4>1 DEF FeedInv, CursorSound, CursorMeansOffered
    <3>2. ASSUME NEW x \in Subs, snap[x].there, NEW i \in snap[x].cursor \ sub'[x].seeded PROVE Offered(i)
      <4>1. poll.snap[x].there /\ i \in poll.snap[x].cursor \ sub[x].seeded
        BY <1>2, <2>7, <2>8, <2>11, <2>13, <2>14, <3>2 DEF Snap
      <4>2. QED BY <1>1, <4>1 DEF FeedInv, CursorSound
    <3>3. QED BY <1>1, <2>15, <3>1, <3>2 DEF CursorSound, Offered
  <2>19. ReadSound' BY <2>15 DEF ReadSound, Sighting
  <2>20. SightingSound' BY <1>1, <2>15 DEF FeedInv, SightingSound, Sighting
  <2>21. FollowsSound'
    <3>1. \A x \in Talents : TalentOf[sub'[x].feed] = x BY <2>2, <2>5, <2>7, <2>13 DEF FeedInv, FollowsSound
    <3>2. ASSUME NEW x \in Talents, Follows(x)'
          PROVE  sub'[x].feed = snap[x].feed /\ talents[sub'[x].feed] = snap[x].cat
      <4>1. CASE x = s BY <2>7, <2>8, <2>12, <2>13, <2>14, <4>1
      <4>2. CASE x # s
        <5>1. sub'[x] = sub[x] /\ snap[x] = poll.snap[x] /\ sub[x].feed \in Feeds
          BY <1>2, <2>2, <2>13, <2>14, <4>2 DEF SubRows
        <5>2. Follows(x) BY <2>15, <3>2, <5>1 DEF Follows
        <5>3. sub[x].feed # f /\ sub[x].feed # Snap.feed BY <2>3, <2>5, <3>1, <4>2, <5>1
        <5>4. QED BY <1>1, <2>12, <5>1, <5>2, <5>3 DEF FeedInv, FollowsSound
      <4>3. QED BY <4>1, <4>2
    <3>3. ASSUME NEW g \in Feeds, talents[g] # Nobody PROVE TalentOf[g] \in Talents /\ snap[TalentOf[g]].feed = g
      <4>1. CASE g = f BY <2>1, <2>5, <2>8, <2>14, <4>1
      <4>2. CASE g # f
        <5>1. poll.talents[g] # Nobody /\ g # Snap.feed BY <2>12, <3>3, <4>2
        <5>2. TalentOf[g] \in Talents /\ poll.snap[TalentOf[g]].feed = g BY <1>1, <5>1 DEF FeedInv, FollowsSound
        <5>3. TalentOf[g] # s BY <2>11, <5>1, <5>2 DEF Snap
        <5>4. QED BY <2>2, <2>14, <5>2, <5>3
      <4>3. QED BY <4>1, <4>2
    <3>4. QED BY <2>15, <3>1, <3>2, <3>3 DEF FollowsSound
  <2>22. TitlesOwned' BY <1>1 DEF FeedInv, TitlesOwned
  <2>23. QED BY <2>16, <2>17, <2>18, <2>19, <2>20, <2>21, <2>22 DEF FeedInv
<1>5. QED BY <1>3, <1>4, Zenon DEF Relink

(* The category a sighting files under comes first among those it claims    *)
(* for: the talents the run follows have their categories in its map.       *)
LEMMA FilingLeads ==
    ASSUME FeedInv, poll.pc = "filing", NEW a \in Titles
   
    PROVE  /\ Filing(a) \in CatSet /\ Claimants(a) \in SUBSET CatSet
           /\ \A c \in Claimants(a) : Rank(Filing(a)) <= Rank(c)
<1>1. Category \in CatSet BY DEF FeedInv, RunSound
<1>2. CASE ~Asked(a)
  <2>1. Filing(a) = Category /\ Claimants(a) = {Category} BY <1>2 DEF Filing, Claimants
  <2>2. QED BY <1>1, <2>1, RanksAre
<1>3. CASE Asked(a)
  <2> DEFINE followed == {t \in Talents : Follows(t) /\ sub[t].feed \in Cast[a]}
             credited == CatSet \cap {poll.snap[s].cat : s \in followed}
  <2>1. Claimants(a) = {Category} \cup credited BY <1>3 DEF Claimants
  <2>2. \A c \in credited : c \in {poll.talents[f] : f \in Cast[a]} BY DEF FeedInv, FollowsSound
  <2>3. Owners(a) \subseteq CatSet /\ \A c \in Owners(a) : Rank(c) < Rank(Category) BY DEF Owners, Ahead
  <2>4. \A c \in credited : c \in Owners(a) \/ ~(Rank(c) < Rank(Category)) BY <2>2 DEF Owners, Ahead
  <2>5. credited \subseteq CatSet OBVIOUS
  <2> HIDE DEF credited
  <2>6. CASE Owners(a) = {}
    <3>1. Filing(a) = Category BY <2>6 DEF Filing
    <3>2. QED BY <1>1, <2>1, <2>4, <2>5, <2>6, <3>1, RanksAre
  <2>7. CASE Owners(a) # {}
    <3> DEFINE ranks == {Rank(c) : c \in Owners(a)}
    <3>1. ranks \subseteq Nat /\ ranks # {} BY <2>3, <2>7, RanksAre
    <3>2. Min(ranks) \in ranks /\ \A x \in ranks : Min(ranks) <= x BY <3>1, MinIsIn
    <3>3. PICK least \in Owners(a) : Min(ranks) = Rank(least) BY <3>2
    <3>4. \E d \in Owners(a) : \A e \in Owners(a) : Rank(d) <= Rank(e) BY <3>2, <3>3
    <3>5. Filing(a) = CHOOSE c \in Owners(a) : \A d \in Owners(a) : Rank(c) <= Rank(d) BY <1>3, <2>7, Zenon DEF Filing
    <3>6. Filing(a) \in Owners(a) /\ \A d \in Owners(a) : Rank(Filing(a)) <= Rank(d) BY <3>4, <3>5, Zenon
    <3>7. QED BY <1>1, <2>1, <2>3, <2>4, <2>5, <3>6, RanksAre
  <2>8. QED BY <2>6, <2>7
<1>4. QED BY <1>2, <1>3

(* The steps of a sighting.                                                 *)
LEMMA FileKeeps ==
    ASSUME FeedInv, NEW a \in Titles, File(a)
    PROVE  FeedInv'
<1>1. UNCHANGED <<sub, title, listed, sent, claims>> /\ poll.pc = "filing" /\ a \in poll.left /\ poll \in Polls
  BY DEF File, envVars, titleVars, FeedInv, FeedTypes
<1>2. Filing(a) \in CatSet /\ Claimants(a) \in SUBSET CatSet /\ \A c \in Claimants(a) : Rank(Filing(a)) <= Rank(c)
  BY <1>1, FilingLeads
<1>3. poll' = [poll EXCEPT !.pc = "discover", !.a = a, !.filing = Filing(a), !.claim = Claimants(a),
                           !.left = poll.left \ {a}]
  BY DEF File
<1>4. /\ poll' \in Polls /\ UNCHANGED <<poll.snap, poll.talents, poll.s, poll.todo, poll.items, poll.wanted, poll.dirs>>
      /\ poll'.pc = "discover" /\ poll'.a = a /\ poll'.filing = Filing(a) /\ poll'.claim = Claimants(a)
      /\ poll'.left = poll.left \ {a}
  <2> HIDE DEF Filing, Claimants
  <2>1. QED BY <1>1, <1>2, <1>3 DEF Polls, Sources, Sighting
<1>5. ReadSound' BY <1>1, <1>4 DEF FeedInv, ReadSound, Sighting, Snap, Offered
<1>6. a \notin poll.wanted BY <1>1 DEF FeedInv, SightingSound, Sighting
<1>7. SightingSound' BY <1>1, <1>2, <1>4, <1>6 DEF FeedInv, SightingSound, Sighting
<1>8. TitlesOwned' BY <1>1 DEF FeedInv, TitlesOwned
<1>9. QED BY <1>1, <1>4, <1>5, <1>7, <1>8, RunMoves DEF FeedInv, FeedTypes

(* The row: a new one, or one that another category may have had.           *)
LEMMA DiscoverTitleKeeps ==
    ASSUME FeedInv, DiscoverTitle
    PROVE  FeedInv'
<1> DEFINE a == poll.a
<1>1. UNCHANGED <<sub, listed, sent>> /\ poll.pc = "discover" /\ poll \in Polls
  BY DEF DiscoverTitle, envVars, FeedInv, FeedTypes
<1>2. /\ a \in Titles /\ a \notin poll.left \cup poll.wanted /\ poll.filing \in CatSet
      /\ \A c \in poll.claim : Rank(poll.filing) <= Rank(c)
  BY <1>1 DEF FeedInv, SightingSound
<1>3. title \in [Titles -> TitleRows] /\ claims \in [Titles -> SUBSET CatSet] /\ poll.claim \in SUBSET CatSet
  BY <1>1 DEF FeedInv, FeedTypes, Polls
<1>4. poll.filing # Queue /\ poll.filing # Nobody BY <1>2, FeedAssumption
<1>5. CASE ~Accepts(a) /\ poll' = [poll EXCEPT !.pc = "filing"] /\ UNCHANGED <<title, claims>>
  <2>1. /\ poll' \in Polls /\ poll'.pc = "filing"
        /\ UNCHANGED <<poll.snap, poll.talents, poll.s, poll.todo, poll.items, poll.left, poll.wanted, poll.dirs>>
    BY <1>1, <1>5 DEF Polls, Sighting
  <2>2. Accepts(a) \/ title[a].state # "none" BY DEF Accepts
  <2>3. ReadSound' BY <1>1, <1>5, <2>1, <2>2 DEF FeedInv, ReadSound, Sighting, Snap, Offered
  <2>4. SightingSound' BY <1>1, <1>5, <2>1 DEF FeedInv, SightingSound, Sighting
  <2>5. TitlesOwned' BY <1>5 DEF FeedInv, TitlesOwned
  <2>6. QED BY <1>1, <1>3, <1>5, <2>1, <2>3, <2>4, <2>5, RunMoves DEF FeedInv, FeedTypes
<1>6. CASE /\ title' = IF title[a].state = "none"
                      THEN [title EXCEPT ![a] = [state |-> "discovered", source |-> poll.filing]]
                      ELSE IF OwnedAhead(a) THEN title ELSE [title EXCEPT ![a].source = poll.filing]
           /\ claims' = [claims EXCEPT ![a] = IF title[a].source = Queue THEN poll.claim ELSE @ \cup poll.claim]
           /\ poll' = [poll EXCEPT !.pc = "dir"]
  <2>1. /\ poll' \in Polls /\ poll'.pc = "dir" /\ UNCHANGED <<poll.a, poll.filing>>
        /\ UNCHANGED <<poll.snap, poll.talents, poll.s, poll.todo, poll.items, poll.left, poll.wanted, poll.dirs>>
    BY <1>1, <1>6 DEF Polls, Sighting
  <2>2. /\ claims' \in [Titles -> SUBSET CatSet] /\ \A b \in Titles : b # a => claims'[b] = claims[b]
        /\ claims'[a] = IF title[a].source = Queue THEN poll.claim ELSE claims[a] \cup poll.claim
    BY <1>2, <1>3, <1>6
  <2>3. /\ title' \in [Titles -> TitleRows] /\ \A b \in Titles : b # a => title'[b] = title[b]
        /\ title'[a].state # "none"
        /\ \/ OwnedAhead(a) /\ title'[a] = title[a] /\ title[a].state # "none"
           \/ ~OwnedAhead(a) /\ title'[a].source = poll.filing
           \/ title[a].state = "none" /\ title'[a].source = poll.filing
    <3>1. CASE title[a].state = "none"
      <4>1. title' = [title EXCEPT ![a] = [state |-> "discovered", source |-> poll.filing]] BY <1>6, <3>1
      <4>2. QED BY <1>2, <1>3, <3>1, <4>1 DEF TitleRows, Sources
    <3>2. CASE title[a].state # "none" /\ OwnedAhead(a)
      <4>1. title' = title BY <1>6, <3>2
      <4>2. QED BY <1>3, <3>2, <4>1
    <3>3. CASE title[a].state # "none" /\ ~OwnedAhead(a)
      <4>1. title' = [title EXCEPT ![a].source = poll.filing] BY <1>6, <3>3
      <4>2. QED BY <1>2, <1>3, <3>3, <4>1 DEF TitleRows, Sources
    <3>4. QED BY <3>1, <3>2, <3>3
  <2> HIDE DEF a
  <2>4. TitlesOwned'
    <3>1. TitlesOwned /\ Queue \notin CatSet /\ Nobody \notin CatSet BY FeedAssumption DEF FeedInv
    <3>2. title'[a].source # Nobody BY <1>2, <1>4, <2>3, <3>1 DEF TitlesOwned
    <3>3. ASSUME title'[a].source \in CatSet, NEW c \in claims'[a] PROVE Rank(title'[a].source) <= Rank(c)
      <4>1. c \in CatSet /\ Rank(c) \in Nat /\ Rank(poll.filing) \in Nat BY <1>2, <2>2, <3>3, RanksAre
      <4>2. c \in poll.claim => Rank(poll.filing) <= Rank(c) BY <1>2
      <4>3. CASE OwnedAhead(a) /\ title'[a] = title[a]
        <5>1. title[a].source \in CatSet /\ Rank(title[a].source) < Rank(poll.filing) BY <4>3 DEF OwnedAhead, Ahead
        <5>2. Rank(title[a].source) \in Nat /\ title[a].source # Queue BY <3>1, <5>1, RanksAre
        <5>3. c \in claims[a] \/ c \in poll.claim BY <2>2, <3>3
        <5>4. c \in claims[a] => Rank(title[a].source) <= Rank(c) BY <1>2, <3>1, <5>1 DEF TitlesOwned
        <5>5. QED BY <4>1, <4>2, <4>3, <5>1, <5>2, <5>3, <5>4
      <4>4. CASE title'[a].source = poll.filing /\ (~OwnedAhead(a) \/ title[a].state = "none")
        <5>1. CASE c \in poll.claim BY <4>2, <4>4, <5>1
        <5>2. CASE c \in claims[a] /\ title[a].source # Queue
          <6>1. title[a].state # "none" /\ ~OwnedAhead(a) BY <1>2, <3>1, <4>4, <5>2 DEF TitlesOwned
          <6>2. title[a].source \in CatSet BY <1>2, <1>3, <3>1, <5>2, <6>1 DEF TitlesOwned, TitleRows, Sources
          <6>3. ~(Rank(title[a].source) < Rank(poll.filing)) BY <6>1, <6>2 DEF OwnedAhead, Ahead
          <6>4. Rank(title[a].source) <= Rank(c) BY <1>2, <3>1, <5>2, <6>2 DEF TitlesOwned
          <6>5. Rank(title[a].source) \in Nat BY <6>2, RanksAre
          <6>6. QED BY <4>1, <4>4, <6>3, <6>4, <6>5
        <5>3. QED BY <2>2, <3>3, <5>1, <5>2
      <4>5. QED BY <2>3, <4>3, <4>4
    <3>4. QED BY <1>2, <2>2, <2>3, <3>1, <3>2, <3>3 DEF TitlesOwned
  <2>5. ReadSound'
    <3>1. poll.items \subseteq Items BY <1>1 DEF Polls
    <3>2. \A b \in Titles : title[b].state # "none" => title'[b].state # "none" BY <2>3
    <3>3. \A i \in Items : TitleOf[i] \in Titles BY DEF Titles
    <3>4. a = poll.a BY DEF a
    <3>5. QED BY <1>1, <2>1, <2>3, <3>1, <3>2, <3>3, <3>4 DEF FeedInv, ReadSound, Sighting, Snap, Offered
  <2>6. SightingSound'
    <3>1. a = poll.a BY DEF a
    <3>2. title'[a].source \in CatSet /\ (Ahead(poll.filing) = {} => title'[a].source = poll.filing)
      BY <1>2, <2>3 DEF OwnedAhead, Ahead
    <3>3. \A b \in poll.wanted : title'[b] = title[b] BY <1>1, <1>2, <2>3 DEF Polls
    <3>4. Ahead(poll.filing)' = Ahead(poll.filing) BY <2>1 DEF Ahead, Rank
    <3>5. poll'.a \in Titles /\ poll'.a \notin poll'.left \cup poll'.wanted /\ poll'.filing \in CatSet
      BY <1>2, <2>1, <3>1
    <3>6. \A b \in poll'.wanted : b \notin poll'.left /\ title'[b].source \in {poll'.dirs[b], Queue}
      BY <1>1, <2>1, <3>3 DEF FeedInv, SightingSound, Sighting
    <3>7. QED BY <2>1, <3>1, <3>2, <3>4, <3>5, <3>6 DEF SightingSound, Sighting
  <2>7. \A b \in Titles : title[b].state # "none" => title'[b].state # "none" BY <2>3
  <2>8. QED BY <1>1, <2>1, <2>2, <2>3, <2>4, <2>5, <2>6, <2>7, RunMoves DEF FeedInv, FeedTypes
<1>7. QED BY <1>5, <1>6, Zenon DEF DiscoverTitle

(* The directory of a title is the one of its row, or of the first category. *)
LEMMA FilingDirKeeps ==
    ASSUME FeedInv, FilingDir
    PROVE  FeedInv'
<1> DEFINE a == poll.a
           dir == IF Ahead(poll.filing) = {} THEN poll.filing ELSE title[a].source
<1>1. UNCHANGED <<sub, title, listed, sent, claims>> /\ poll.pc = "dir" /\ poll \in Polls /\ title \in [Titles -> TitleRows]
  BY DEF FilingDir, envVars, titleVars, FeedInv, FeedTypes
<1>2. /\ a \in Titles /\ a \notin poll.left \cup poll.wanted /\ poll.filing \in CatSet
      /\ title[a].source = Queue \/ (title[a].source \in CatSet /\ (Ahead(poll.filing) = {} => title[a].source = poll.filing))
  BY <1>1 DEF FeedInv, SightingSound
<1>3. dir \in Sources /\ title[a].source \in {dir, Queue} BY <1>1, <1>2 DEF Sources
<1>4. poll' = [poll EXCEPT !.pc = "filing", !.dirs[a] = dir, !.wanted = @ \cup {a}] BY Zenon DEF FilingDir
<1> DEFINE dirs == [poll.dirs EXCEPT ![a] = dir]
<1>5. dirs \in [Titles -> Sources] /\ dirs[a] = dir /\ \A b \in Titles : b # a => dirs[b] = poll.dirs[b]
  BY <1>1, <1>2, <1>3 DEF Polls
<1>6. poll' = [poll EXCEPT !.pc = "filing", !.dirs = dirs, !.wanted = poll.wanted \cup {a}] BY <1>1, <1>4 DEF Polls
<1> HIDE DEF dirs, dir
<1>7. /\ poll' \in Polls /\ UNCHANGED <<poll.snap, poll.talents, poll.s, poll.todo, poll.items, poll.left>>
      /\ poll'.pc = "filing" /\ poll'.dirs = dirs /\ poll'.wanted = poll.wanted \cup {a}
  <2> HIDE DEF a
  <2>1. QED BY <1>1, <1>2, <1>5, <1>6 DEF Polls, Sighting
<1>8. ReadSound' BY <1>1, <1>7 DEF FeedInv, ReadSound, Sighting, Snap, Offered
<1>9. SightingSound'
  <2>1. \A b \in poll.wanted : b # a /\ b \in Titles BY <1>1, <1>2 DEF Polls
  <2>2. QED BY <1>1, <1>2, <1>3, <1>5, <1>7, <2>1 DEF FeedInv, SightingSound, Sighting
<1>10. TitlesOwned' BY <1>1 DEF FeedInv, TitlesOwned
<1>11. QED BY <1>1, <1>7, <1>8, <1>9, <1>10, RunMoves DEF FeedInv, FeedTypes

(* The titles that are wanted are settled, parked or submitted.             *)
LEMMA WantedMove ==
    ASSUME FeedInv, UNCHANGED <<sub, listed, claims>>, TitlesMove, sent' \in [Titles -> Sources],
           \A a \in Titles : title'[a].source = title[a].source,
           poll.pc \in {"filing", "resolve", "submit"}, poll.left = {},
           NEW pc \in {"resolve", "submit"}, NEW wanted \in SUBSET poll.wanted,
           poll' = [poll EXCEPT !.pc = pc, !.wanted = wanted]
    PROVE  FeedInv'
<1>1. poll \in Polls BY DEF FeedInv, FeedTypes
<1>2. /\ poll' \in Polls /\ UNCHANGED <<poll.snap, poll.talents, poll.s, poll.todo, poll.items, poll.left, poll.dirs>>
      /\ poll'.pc = pc /\ poll'.wanted = wanted
  BY <1>1 DEF Polls, Sighting
<1>3. TitlesOwned' /\ \A a \in Titles : title[a].state # "none" => title'[a].state # "none" BY OwnersStay
<1>4. ReadSound'
  <2>1. poll.items \subseteq Items BY <1>1 DEF Polls
  <2>2. \A i \in Items : TitleOf[i] \in Titles BY DEF Titles
  <2>3. QED BY <1>2, <1>3, <2>1, <2>2 DEF FeedInv, ReadSound, Sighting, Snap, Offered
<1>5. SightingSound'
  <2>1. poll.wanted \subseteq Titles BY <1>1 DEF Polls
  <2>2. QED BY <1>2, <2>1 DEF FeedInv, SightingSound, Sighting
<1>6. claims' \in [Titles -> SUBSET CatSet] /\ title' \in [Titles -> TitleRows] BY DEF TitlesMove
<1>7. QED BY <1>1, <1>2, <1>3, <1>4, <1>5, <1>6, RunMoves DEF FeedInv, FeedTypes

(* A state that is set where a row is there.                                *)
LEMMA StatesSet ==
    ASSUME FeedInv, NEW at, NEW to \in {"waiting", "archived"}, claims' = claims,
           title' = [a \in Titles |-> IF a \in at /\ title[a].state \in Recheckable
                                    THEN [title[a] EXCEPT !.state = to] ELSE title[a]]
    PROVE  TitlesMove /\ \A a \in Titles : title'[a].source = title[a].source
<1>1. title \in [Titles -> TitleRows] /\ claims \in [Titles -> SUBSET CatSet] BY DEF FeedInv, FeedTypes
<1>2. ASSUME NEW a \in Titles
      PROVE  /\ title'[a] \in TitleRows /\ title'[a].source = title[a].source
             /\ title'[a].state = "none" <=> title[a].state = "none"
  <2>1. CASE a \in at /\ title[a].state \in Recheckable
    <3>1. title'[a] = [title[a] EXCEPT !.state = to] BY <2>1
    <3>2. QED BY <1>1, <2>1, <3>1 DEF TitleRows, Recheckable
  <2>2. CASE ~(a \in at /\ title[a].state \in Recheckable)
    <3>1. title'[a] = title[a] BY <2>2
    <3>2. QED BY <1>1, <3>1
  <2>3. QED BY <2>1, <2>2
<1> DEFINE entry(a) == IF a \in at /\ title[a].state \in Recheckable THEN [title[a] EXCEPT !.state = to] ELSE title[a]
<1>3. title' = [a \in Titles |-> entry(a)] OBVIOUS
<1> HIDE DEF entry
<1>4. title' \in [Titles -> TitleRows] BY <1>2, <1>3
<1>5. QED BY <1>1, <1>2, <1>4 DEF TitlesMove

LEMMA CheckHeldKeeps ==
    ASSUME FeedInv, CheckHeld
    PROVE  FeedInv'
<1>1. PICK known \in {held \cap poll.wanted, {}} :
         /\ title' = [a \in Titles |-> IF a \in known /\ title[a].state \in Recheckable
                                     THEN [title[a] EXCEPT !.state = "archived"] ELSE title[a]]
         /\ poll' = [poll EXCEPT !.pc = "resolve", !.wanted = @ \ known]
  BY Zenon DEF CheckHeld
<1>2. UNCHANGED <<sub, listed, sent, claims>> /\ poll.pc = "filing" /\ poll.left = {} BY DEF CheckHeld, envVars
<1>3. TitlesMove /\ \A a \in Titles : title'[a].source = title[a].source BY <1>1, <1>2, StatesSet
<1>4. poll' = [poll EXCEPT !.pc = "resolve", !.wanted = poll.wanted \ known] BY <1>1
<1>5. QED BY <1>2, <1>3, <1>4, WantedMove DEF FeedInv, FeedTypes

LEMMA ResolveAllKeeps ==
    ASSUME FeedInv, ResolveAll
    PROVE  FeedInv'
<1>1. PICK found \in SUBSET poll.wanted :
         /\ title' = [a \in Titles |-> IF a \in poll.wanted \ found /\ title[a].state \in Recheckable
                                     THEN [title[a] EXCEPT !.state = "waiting"] ELSE title[a]]
         /\ poll' = [poll EXCEPT !.pc = "submit", !.wanted = found]
  BY Zenon DEF ResolveAll
<1>2. UNCHANGED <<sub, listed, sent, claims>> /\ poll.pc = "resolve" /\ poll.left = {}
  BY DEF ResolveAll, envVars, FeedInv, ReadSound
<1>3. TitlesMove /\ \A a \in Titles : title'[a].source = title[a].source BY <1>1, <1>2, StatesSet
<1>4. QED BY <1>1, <1>2, <1>3, WantedMove DEF FeedInv, FeedTypes

(* One row is set to another state.                                         *)
LEMMA StateSet ==
    ASSUME FeedInv, NEW a \in Titles, NEW to \in {"waiting", "due", "active", "archived"},
           title[a].state # "none", claims' = claims,
           title' = [title EXCEPT ![a].state = to] \/ title' = title
    PROVE  TitlesMove /\ \A b \in Titles : title'[b].source = title[b].source
BY DEF FeedInv, FeedTypes, TitlesMove, TitleRows

LEMMA SubmitTitleKeeps ==
    ASSUME FeedInv, NEW a \in Titles, SubmitTitle(a)
    PROVE  FeedInv'
<1>1. UNCHANGED <<sub, listed, claims>> /\ poll.pc = "submit" /\ a \in poll.wanted /\ poll.left = {} /\ poll \in Polls
  BY DEF SubmitTitle, envVars, FeedInv, FeedTypes, ReadSound
<1>2. \/ title' = [title EXCEPT ![a].state = IF title[a].state \in Recheckable THEN "active" ELSE title[a].state]
         /\ sent' = [sent EXCEPT ![a] = poll.dirs[a]]
      \/ title' = title /\ sent' = sent
  BY Zenon DEF SubmitTitle
<1>3. sent' \in [Titles -> Sources] BY <1>1, <1>2 DEF FeedInv, FeedTypes, Polls
<1>4. title' = title \/ (title[a].state \in Recheckable /\ title' = [title EXCEPT ![a].state = "active"])
  BY <1>2 DEF FeedInv, FeedTypes, TitleRows
<1>5. TitlesMove /\ \A b \in Titles : title'[b].source = title[b].source
  <2>1. CASE title' = title BY <1>1, <2>1 DEF FeedInv, FeedTypes, TitlesMove
  <2>2. CASE title[a].state \in Recheckable /\ title' = [title EXCEPT ![a].state = "active"]
    BY <1>1, <2>2, StateSet DEF Recheckable
  <2>3. QED BY <1>4, <2>1, <2>2
<1>6. poll' = [poll EXCEPT !.pc = "submit", !.wanted = poll.wanted \ {a}] BY <1>1 DEF SubmitTitle, Polls
<1>7. QED BY <1>1, <1>3, <1>5, <1>6, WantedMove

(* The cursor takes what was read; a seed is settled with it.               *)
LEMMA RecordPollKeeps ==
    ASSUME FeedInv, RecordPoll
    PROVE  FeedInv'
<1> DEFINE s == poll.s
           cursor == IF Snap.seed THEN poll.items ELSE Snap.cursor \cup poll.items
           seeded == sub[s].seeded \cup (IF Snap.seed THEN poll.items ELSE {})
           entry == [there |-> sub[s].there, enabled |-> sub[s].enabled, cat |-> sub[s].cat, feed |-> sub[s].feed,
                   cursor |-> cursor, seed |-> FALSE, seeded |-> seeded]
<1>1. /\ UNCHANGED <<title, listed, sent, claims>> /\ poll \in Polls /\ poll' = Next1(poll)
      /\ poll.pc \notin {"idle", "next"} /\ (poll.pc = "record" \/ poll.pc = "submit")
  BY DEF RecordPoll, envVars, titleVars, FeedInv, FeedTypes
<1>2. s \in Subs /\ Snap \in SubRows /\ Snap.there /\ sub \in [Subs -> SubRows] /\ sub[s] \in SubRows /\ poll.items \subseteq Items
  BY <1>1 DEF FeedInv, FeedTypes, RunSound, Snap, Polls
<1>3. CASE sub' = sub BY <1>1, <1>3, QuietKeeps
<1>4. CASE sub' = [sub EXCEPT ![s].cursor = cursor, ![s].seed = FALSE, ![s].seeded = seeded]
  <2>1. cursor \in SUBSET Items /\ seeded \in SUBSET Items /\ sub[s].seeded \subseteq seeded BY <1>2 DEF SubRows
  <2>2. \A i \in cursor \ seeded : Offered(i)
    <3>1. CASE Snap.seed BY <3>1
    <3>2. CASE ~Snap.seed
      <4>1. poll.pc = "submit" /\ poll.left = {} BY <1>1, <3>2 DEF FeedInv, ReadSound
      <4>2. \A i \in poll.items : Offered(i) BY <4>1 DEF FeedInv, ReadSound, Sighting
      <4>3. \A i \in Snap.cursor \ sub[s].seeded : Offered(i) BY <1>1, <1>2 DEF FeedInv, CursorSound, Snap
      <4>4. QED BY <3>2, <4>2, <4>3
    <3>3. QED BY <3>1, <3>2
  <2> HIDE DEF cursor, seeded
  <2>3. sub' = [sub EXCEPT ![s] = entry]
    <3>1. DOMAIN sub' = Subs /\ \A t \in Subs : t # s => sub'[t] = sub[t] BY <1>2, <1>4
    <3>2. sub'[s] = entry BY <1>2, <1>4 DEF SubRows
    <3> HIDE DEF entry
    <3>3. \A t \in Subs : sub'[t] = [sub EXCEPT ![s] = entry][t] BY <1>2, <3>1, <3>2
    <3>4. sub' = [t \in Subs |-> sub'[t]] BY <1>4, <3>1
    <3>5. QED BY <1>2, <3>3, <3>4
  <2>4. entry \in SubRows BY <1>2, <2>1 DEF SubRows
  <2>5. entry.feed = sub[s].feed /\ entry.there = sub[s].there /\ entry.cursor = cursor /\ entry.seeded = seeded OBVIOUS
  <2>6. s \in Talents => TalentOf[entry.feed] = s BY <2>5 DEF FeedInv, FollowsSound
  <2> HIDE DEF entry, s
  <2>7. QED BY <1>1, <1>2, <2>1, <2>2, <2>3, <2>4, <2>5, <2>6, SubMoves
<1>5. QED BY <1>3, <1>4, Zenon DEF RecordPoll

(* The registry's routes.                                                   *)
LEMMA SubscribeKeeps ==
    ASSUME FeedInv, Own(TalentOf), NEW s \in Subs, Subscribe(s)
    PROVE  FeedInv'
<1>1. UNCHANGED <<title, listed, sent, claims, poll>> /\ (poll.pc = "idle" \/ ~poll.snap[s].there)
  BY DEF Subscribe, envVars, titleVars
<1>2. PICK b \in BOOLEAN : sub' = [sub EXCEPT ![s] = NewSub(s, b)] BY DEF Subscribe
<1>3. NewSub(s, b) \in SubRows BY FeedAssumption DEF NewSub, SubRows, Labels
<1>4. NewSub(s, b).cursor = {} /\ NewSub(s, b).feed = FeedOf[s] BY DEF NewSub
<1>5. s \in Talents => TalentOf[NewSub(s, b).feed] = s BY <1>4 DEF Own
<1>6. QED BY <1>1, <1>2, <1>3, <1>4, <1>5, SubMoves

LEMMA UnsubscribeKeeps ==
    ASSUME FeedInv, NEW s \in Subs, Unsubscribe(s)
    PROVE  FeedInv'
<1>1. UNCHANGED <<title, listed, sent, claims, poll>> /\ sub \in [Subs -> SubRows] /\ sub[s] \in SubRows
  BY DEF Unsubscribe, envVars, titleVars, FeedInv, FeedTypes
<1> DEFINE entry == [sub[s] EXCEPT !.there = FALSE]
<1>2. sub' = [sub EXCEPT ![s] = entry] BY <1>1 DEF Unsubscribe
<1>3. entry \in SubRows /\ entry.feed = sub[s].feed /\ entry.cursor = sub[s].cursor /\ entry.seeded = sub[s].seeded /\ ~entry.there
  BY <1>1 DEF SubRows
<1> HIDE DEF entry
<1>4. s \in Talents => TalentOf[entry.feed] = s BY <1>3 DEF FeedInv, FollowsSound
<1>5. \A i \in entry.cursor \ entry.seeded : Offered(i) BY <1>3 DEF FeedInv, CursorSound, CursorMeansOffered, Offered
<1>6. QED BY <1>1, <1>2, <1>3, <1>4, <1>5, SubMoves

LEMMA UpdateSubKeeps ==
    ASSUME FeedInv, NEW s \in Subs, UpdateSub(s)
    PROVE  FeedInv'
<1>1. UNCHANGED <<title, listed, sent, claims, poll>> /\ sub \in [Subs -> SubRows] /\ sub[s] \in SubRows /\ sub[s].there
  BY DEF UpdateSub, envVars, titleVars, FeedInv, FeedTypes
<1>2. ASSUME NEW entry \in SubRows, sub' = [sub EXCEPT ![s] = entry], entry.cursor = sub[s].cursor, entry.seeded = sub[s].seeded,
             entry.feed = sub[s].feed \/ s \notin Talents
      PROVE  FeedInv'
  <2>1. s \in Talents => TalentOf[entry.feed] = s BY <1>2 DEF FeedInv, FollowsSound
  <2>2. \A i \in entry.cursor \ entry.seeded : Offered(i)
    BY <1>2 DEF FeedInv, CursorSound, CursorMeansOffered, Offered
  <2>3. QED BY <1>1, <1>2, <2>1, <2>2, SubMoves
<1>3. CASE sub' = [sub EXCEPT ![s].enabled = ~@]
  <2> DEFINE entry == [sub[s] EXCEPT !.enabled = ~@]
  <2>1. sub' = [sub EXCEPT ![s] = entry] BY <1>1, <1>3
  <2>2. entry \in SubRows /\ entry.cursor = sub[s].cursor /\ entry.seeded = sub[s].seeded /\ entry.feed = sub[s].feed
    BY <1>1 DEF SubRows
  <2>3. QED BY <1>2, <2>1, <2>2
<1>4. ASSUME NEW c \in CatSet, sub' = [sub EXCEPT ![s].cat = c] PROVE FeedInv'
  <2> DEFINE entry == [sub[s] EXCEPT !.cat = c]
  <2>1. sub' = [sub EXCEPT ![s] = entry] BY <1>1, <1>4
  <2>2. entry \in SubRows /\ entry.cursor = sub[s].cursor /\ entry.seeded = sub[s].seeded /\ entry.feed = sub[s].feed
    BY <1>1 DEF SubRows, Labels
  <2>3. QED BY <1>2, <2>1, <2>2
<1>5. ASSUME NEW f \in Feeds, s \notin Talents, sub' = [sub EXCEPT ![s].feed = f] PROVE FeedInv'
  <2> DEFINE entry == [sub[s] EXCEPT !.feed = f]
  <2>1. sub' = [sub EXCEPT ![s] = entry] BY <1>1, <1>5
  <2>2. entry \in SubRows /\ entry.cursor = sub[s].cursor /\ entry.seeded = sub[s].seeded BY <1>1 DEF SubRows
  <2>3. QED BY <1>2, <1>5, <2>1, <2>2
<1>6. QED BY <1>3, <1>4, <1>5 DEF UpdateSub

(* The other writers of the ledger, and the feeds.                          *)
LEMMA OthersKeep ==
    ASSUME FeedInv, NEW a \in Titles, QueueTitle(a) \/ RetryTitle(a) \/ Timer(a) \/ Track(a)
    PROVE  FeedInv'
<1>1. UNCHANGED <<sub, listed, poll>> BY DEF QueueTitle, RetryTitle, Timer, Track, envVars
<1>2. title \in [Titles -> TitleRows] /\ claims \in [Titles -> SUBSET CatSet] /\ sent \in [Titles -> Sources]
  BY DEF FeedInv, FeedTypes
<1>3. CASE QueueTitle(a)
  <2> DEFINE entry == [state |-> IF title[a].state = "due" THEN "due" ELSE "queued", source |-> Queue]
  <2>1. title' = [title EXCEPT ![a] = entry] /\ claims' = [claims EXCEPT ![a] = {}] /\ sent' = sent
    BY <1>3 DEF QueueTitle
  <2>2. entry \in TitleRows /\ entry.source = Queue /\ entry.state # "none" BY DEF TitleRows, Sources
  <2> HIDE DEF entry
  <2>3. TitlesMove BY <1>2, <2>1, <2>2 DEF TitlesMove
  <2>4. QED BY <1>1, <1>2, <2>1, <2>3, OthersMove
<1>4. CASE RetryTitle(a) \/ Timer(a) \/ Track(a)
  <2>1. PICK to \in {"waiting", "due", "active", "archived"} : title' = [title EXCEPT ![a].state = to]
    BY <1>4 DEF RetryTitle, Timer, Track
  <2>2. claims' = claims /\ title[a].state # "none" BY <1>4 DEF RetryTitle, Timer, Track
  <2>3. TitlesMove BY <2>1, <2>2, StateSet
  <2>4. sent' \in [Titles -> Sources] BY <1>2, <1>4 DEF RetryTitle, Timer, Track, TitleRows
  <2>5. QED BY <1>1, <2>3, <2>4, OthersMove
<1>5. QED BY <1>3, <1>4

LEMMA FeedsMoveKeep ==
    ASSUME FeedInv, UNCHANGED <<sub, titleVars, poll>>, listed' \in [Feeds -> SUBSET Items]
    PROVE  FeedInv'
BY DEF FeedInv, FeedTypes, RunSound, CursorSound, ReadSound, TitlesOwned, SightingSound, FollowsSound, titleVars,
       CursorMeansOffered, Offered, Snap, Category, Follows

(* The invariant holds at first, and every step keeps it.                   *)
LEMMA FeedInitially ==
    ASSUME Own(TalentOf), FeedInit
    PROVE  FeedInv
<1>1. PICK seeds \in SUBSET Talents : sub = [s \in Subs |-> NewSub(s, s \in seeds)] BY DEF FeedInit
<1>2. \A s \in Subs : /\ sub[s] \in SubRows /\ sub[s].cursor = {} /\ sub[s].feed = FeedOf[s]
  BY <1>1, FeedAssumption DEF NewSub, SubRows, Labels
<1>3. sub \in [Subs -> SubRows]
  <2> DEFINE entry(s) == NewSub(s, s \in seeds)
  <2>1. sub = [s \in Subs |-> entry(s)] BY <1>1
  <2> HIDE DEF entry
  <2>2. QED BY <1>2, <2>1
<1>4. title = [a \in Titles |-> [state |-> "none", source |-> Nobody]] /\ sent = [a \in Titles |-> Nobody]
      /\ claims = [a \in Titles |-> {}] /\ poll = Quiet /\ listed \in [Feeds -> SUBSET Items]
  BY DEF FeedInit
<1>5. poll \in Polls /\ poll.pc = "idle" BY <1>4, QuietIs
<1>6. title \in [Titles -> TitleRows] /\ sent \in [Titles -> Sources] /\ claims \in [Titles -> SUBSET CatSet]
  BY <1>4 DEF TitleRows, Sources
<1>7. FeedTypes BY <1>3, <1>4, <1>5, <1>6 DEF FeedTypes
<1>8. RunSound /\ CursorSound /\ ReadSound /\ SightingSound
  BY <1>2, <1>5 DEF RunSound, CursorSound, CursorMeansOffered, ReadSound, SightingSound, Sighting
<1>9. TitlesOwned BY <1>4, FeedAssumption DEF TitlesOwned
<1>10. FollowsSound BY <1>2, <1>5, FeedAssumption DEF FollowsSound, Own
<1>11. QED BY <1>7, <1>8, <1>9, <1>10 DEF FeedInv

LEMMA FeedNextKeeps ==
    ASSUME FeedInv, Own(TalentOf), [FeedNext]_feedVars
    PROVE  FeedInv'
<1>1. CASE UNCHANGED feedVars
  <2>1. UNCHANGED <<sub, titleVars, poll>> /\ listed' \in [Feeds -> SUBSET Items]
    BY <1>1 DEF feedVars, titleVars, FeedInv, FeedTypes
  <2>2. QED BY <2>1, FeedsMoveKeep
<1>2. CASE RunFeeds \/ NextSub \/ Fetch \/ Relink BY <1>2, RunFeedsKeeps, NextSubKeeps, FetchKeeps, RelinkKeeps
<1>3. CASE DiscoverTitle \/ FilingDir \/ CheckHeld \/ ResolveAll \/ RecordPoll
  BY <1>3, DiscoverTitleKeeps, FilingDirKeeps, CheckHeldKeeps, ResolveAllKeeps, RecordPollKeeps
<1>4. CASE PollFails \/ RunStops
  <2>1. UNCHANGED <<sub, title, listed, sent, claims>> /\ ((poll' = Next1(poll) /\ poll.pc # "idle") \/ poll' = Quiet)
    BY <1>4 DEF PollFails, RunStops, envVars, titleVars
  <2>2. QED BY <2>1, QuietKeeps
<1>5. ASSUME NEW a \in Titles, File(a) \/ SubmitTitle(a) \/ QueueTitle(a) \/ RetryTitle(a) \/ Timer(a) \/ Track(a)
      PROVE FeedInv'
  BY <1>5, FileKeeps, SubmitTitleKeeps, OthersKeep
<1>6. ASSUME NEW s \in Subs, Subscribe(s) \/ Unsubscribe(s) \/ UpdateSub(s) PROVE FeedInv'
  BY <1>6, SubscribeKeeps, UnsubscribeKeeps, UpdateSubKeeps
<1>7. ASSUME NEW f \in Feeds, TalentMoves(f) \/ \E i \in Items : Publish(f, i) PROVE FeedInv'
  <2>1. UNCHANGED <<sub, titleVars, poll>> BY <1>7 DEF TalentMoves, Publish
  <2>2. listed' \in [Feeds -> SUBSET Items] BY <1>7 DEF TalentMoves, Publish, FeedInv, FeedTypes
  <2>3. QED BY <2>1, <2>2, FeedsMoveKeep
<1>8. QED BY <1>1, <1>2, <1>3, <1>4, <1>5, <1>6, <1>7 DEF FeedNext

(* A magnet is submitted by the run, into the directory it chose and the    *)
(* title still has, or by the retry leg, which reads the row.               *)
LEMMA SubmittedStep ==
    ASSUME FeedInv, FeedNext, NEW a \in Titles,
           title[a].state # "active", title'[a].state = "active", title[a].source \in CatSet
    PROVE  sent'[a] = title[a].source
<1>1. title \in [Titles -> TitleRows] /\ sent \in [Titles -> Sources] /\ poll \in Polls /\ Queue \notin CatSet
  BY FeedAssumption DEF FeedInv, FeedTypes
<1>2. title' # title BY <1>1
<1>3. CASE RunFeeds \/ NextSub \/ Fetch \/ Relink \/ FilingDir \/ RecordPoll \/ PollFails \/ RunStops
  BY <1>2, <1>3 DEF RunFeeds, NextSub, Fetch, Relink, FilingDir, RecordPoll, PollFails, RunStops, titleVars
<1>4. CASE DiscoverTitle
  <2>1. CASE /\ title[poll.a].state = "none"
             /\ title' = [title EXCEPT ![poll.a] = [state |-> "discovered", source |-> poll.filing]]
    BY <1>1, <2>1
  <2>2. CASE title' = [title EXCEPT ![poll.a].source = poll.filing] BY <1>1, <2>2 DEF TitleRows
  <2>3. QED BY <1>2, <1>4, <2>1, <2>2 DEF DiscoverTitle
<1>5. CASE CheckHeld \/ ResolveAll
  <2>1. ASSUME NEW at, NEW to \in {"waiting", "archived"},
               title' = [b \in Titles |-> IF b \in at /\ title[b].state \in Recheckable
                                        THEN [title[b] EXCEPT !.state = to] ELSE title[b]]
        PROVE  FALSE
    <3>1. title'[a] = [title[a] EXCEPT !.state = to] \/ title'[a] = title[a] BY <2>1
    <3>2. QED BY <1>1, <2>1, <3>1 DEF TitleRows
  <2>2. QED BY <1>5, <2>1 DEF CheckHeld, ResolveAll
<1>6. ASSUME NEW b \in Titles, SubmitTitle(b) PROVE sent'[a] = title[a].source
  <2>1. b = a BY <1>1, <1>2, <1>6 DEF SubmitTitle
  <2>2. sent'[a] = poll.dirs[a] /\ a \in poll.wanted /\ poll.pc = "submit" BY <1>1, <1>2, <1>6, <2>1 DEF SubmitTitle
  <2>3. title[a].source \in {poll.dirs[a], Queue} BY <2>2 DEF FeedInv, SightingSound, Sighting
  <2>4. QED BY <1>1, <2>2, <2>3
<1>7. ASSUME NEW b \in Titles, QueueTitle(b) \/ RetryTitle(b) \/ Timer(b) \/ Track(b) PROVE sent'[a] = title[a].source
  <2>1. b = a BY <1>1, <1>2, <1>7 DEF QueueTitle, RetryTitle, Timer, Track
  <2>2. CASE QueueTitle(a) BY <1>1, <2>2 DEF QueueTitle
  <2>3. CASE RetryTitle(a) BY <1>1, <2>3 DEF RetryTitle, TitleRows
  <2>4. CASE Timer(a) \/ Track(a) BY <1>1, <2>4 DEF Timer, Track, TitleRows
  <2>5. QED BY <1>7, <2>1, <2>2, <2>3, <2>4
<1>8. ASSUME NEW b \in Titles, File(b) PROVE sent'[a] = title[a].source BY <1>2, <1>8 DEF File, titleVars
<1>9. ASSUME NEW s \in Subs, Subscribe(s) \/ Unsubscribe(s) \/ UpdateSub(s) PROVE sent'[a] = title[a].source
  BY <1>2, <1>9 DEF Subscribe, Unsubscribe, UpdateSub, titleVars
<1>10. ASSUME NEW f \in Feeds, TalentMoves(f) \/ \E i \in Items : Publish(f, i) PROVE sent'[a] = title[a].source
  BY <1>2, <1>10 DEF TalentMoves, Publish, titleVars
<1>11. QED BY <1>3, <1>4, <1>5, <1>6, <1>7, <1>8, <1>9, <1>10 DEF FeedNext

\* In whatever order the feeds are polled, and whatever the dashboard, the queue and the tracker
\* do in between, the earliest category with a claim owns a title that waits for a magnet and gets
\* the magnet in its directory, and nothing a cursor has read was lost: the poller's filing
\* (_filing_for, discover, _filing_dir, record_and_submit) and its cursor (record_poll), provided
\* no two subscribed talents go by one id.
THEOREM FeedsStayAccounted == FeedSpec /\ OnesOwn => FeedsAccounted
<1> SUFFICES ASSUME OnesOwn PROVE FeedSpec => FeedsAccounted BY Zenon
<1>1. Own(TalentOf) BY TalentOfIs
<1>2. FeedInit => FeedInv BY <1>1, FeedInitially
<1>3. FeedInv /\ [FeedNext]_feedVars => FeedInv' BY <1>1, FeedNextKeeps
<1>4. FeedInv => EarliestOwns /\ CursorMeansOffered
  BY DEF FeedInv, TitlesOwned, CursorSound, EarliestOwns
<1> DEFINE submitted ==
        \A a \in Titles : title[a].state # "active" /\ title'[a].state = "active" /\ title[a].source \in CatSet
            => sent'[a] = title[a].source
<1>5. FeedInv /\ [FeedNext]_feedVars => [submitted]_feedVars BY SubmittedStep
<1> HIDE DEF submitted
<1>6. FeedSpec => []FeedInv BY <1>2, <1>3, PTL DEF FeedSpec
<1>7. FeedSpec => [][submitted]_feedVars BY <1>5, <1>6, PTL DEF FeedSpec
<1>8. SubmittedWhereOwned <=> [][submitted]_feedVars BY DEF SubmittedWhereOwned, submitted
<1>9. FeedSpec => [](EarliestOwns /\ CursorMeansOffered) BY <1>4, <1>6, PTL
<1>10. QED BY <1>7, <1>8, <1>9 DEF FeedsAccounted

-----------------------------------------------------------------------------
(* The mirror: what a run has done so far.                                  *)

Pairs == TitleDirs \X Stems
Syncs == [pc : {"rest", "update", "strays", "dirs", "ended", "batch"}, todo : (SUBSET Stems) \cup (SUBSET Pairs),
          gone : [TitleDirs -> SUBSET Stems], heard : BOOLEAN, steady : BOOLEAN]

MirrorTypes ==
    /\ src \subseteq Stems /\ strm \in [TitleDirs -> SUBSET Stems]
    /\ meta \in [TitleDirs -> SUBSET Sidecars] /\ there \subseteq TitleDirs
    /\ rule \in [Stems -> TitleDirs \cup {NoTitle}] /\ sync \in Syncs

(* A strm is where the rules put it; one in a directory has a title there.  *)
InPlace(s) == rule[s] # NoTitle => s \in strm[rule[s]]
AtHome(d, s) == s \in src /\ rule[s] \in {NoTitle, d}

(* No metadata of a part that is gone is left beside the strms of d.        *)
NoneOfParts(d) == \A f \in meta[d] : Starts[f] # {} => ~ Owner(f, Stems) \subseteq Parts \ strm[d]

(* As far as a steady sync has come, the mirror follows.                    *)
SyncSound ==
    sync.steady =>
        /\ sync.pc = "update" => sync.todo \subseteq src /\ \A s \in src \ sync.todo : InPlace(s)
        /\ sync.pc \in {"strays", "dirs", "ended"} => \A s \in src : InPlace(s)
        /\ sync.pc = "strays" => \A d \in TitleDirs : \A s \in strm[d] : <<d, s>> \in sync.todo \/ AtHome(d, s)
        /\ sync.pc \in {"dirs", "ended"} =>
              \A d \in TitleDirs : (\A s \in strm[d] : AtHome(d, s)) /\ (strm[d] # {} => NoneOfParts(d))
        /\ sync.pc = "ended" => \A d \in there : strm[d] # {}

MirrorInv == MirrorTypes /\ SyncSound

(* What is pending and what a batch has to do.  Of a strm the source has    *)
(* the last event on its way tells that it is there; with none on its way,  *)
(* a deletion is followed by an update.                                     *)
Returned(s) == coming[s] = <<>> \/ ~coming[s][Len(coming[s])]
RedoneNext(s) == coming[s] = <<>> /\ s \in pending.deleted => s \in pending.changed
RedoneSoon(s) == coming[s] = <<>> /\ s \in batch.deleted => s \in pending.changed \cup batch.changed

Batches == [changed : SUBSET Stems, deleted : SUBSET Stems, unchanged : SUBSET Stems, undeleted : SUBSET Stems]

BatchInv ==
    /\ coming \in [Stems -> Seq(BOOLEAN)] /\ untold \subseteq Stems
    /\ pending \in [changed : SUBSET Stems, deleted : SUBSET Stems]
    /\ batch \in Batches
    /\ sync.pc # "batch" => batch = NoBatch
    /\ \A s \in src \ untold : Returned(s) /\ RedoneNext(s) /\ RedoneSoon(s)

(* Of a finite number of names one is the longest.                          *)
LEMMA LongestIs ==
    ASSUME NEW S \in SUBSET Stems, IsFiniteSet(S), S # {}
    PROVE  Longest(S) # {}
<1> DEFINE Without == {n \in Nat : \E T \in SUBSET S : T # {} /\ Cardinality(T) = n /\ Longest(T) = {}}
<1>1. \A T \in SUBSET S : IsFiniteSet(T) /\ Cardinality(T) \in Nat BY FS_Subset, FS_CardinalityType
<1>2. SUFFICES ASSUME Without # {} PROVE FALSE BY <1>1
<1>3. PICK n \in Without : \A k \in Without : ~ (<<k, n>> \in OpToRel(<, Nat)) BY <1>2, WFMin, NatLessThanWellFounded
<1>4. \A k \in Without : ~ (k < n) BY <1>3, Zenon DEF OpToRel
<1>5. PICK T \in SUBSET S : T # {} /\ Cardinality(T) = n /\ Longest(T) = {} BY <1>3
<1>6. PICK x \in T : TRUE BY <1>5
<1>7. IsFiniteSet(T) /\ Cardinality(T \ {x}) = Cardinality(T) - 1 /\ Cardinality(T \ {x}) \in Nat
  BY <1>1, <1>5, <1>6, FS_RemoveElement
<1>8. \A y \in S : Length[y] \in Nat BY MirrorAssumption
<1>9. T \ {x} # {}
  <2>1. SUFFICES ASSUME T \ {x} = {} PROVE x \in Longest(T) BY <1>5
  <2>2. QED BY <1>5, <1>6, <1>8, <2>1 DEF Longest
<1>10. Longest(T \ {x}) # {}
  <2>1. n \in Nat BY <1>1, <1>5
  <2>2. n - 1 \notin Without
    <3> HIDE DEF Without
    <3>1. QED BY <1>4, <2>1
  <2>3. n - 1 \in Nat BY <1>5, <1>7
  <2>4. QED BY <1>5, <1>7, <1>9, <2>2, <2>3
<1>11. PICK y \in T : y # x /\ \A z \in T \ {x} : Length[z] <= Length[y] BY <1>10 DEF Longest
<1>12. x \in Longest(T) \/ y \in Longest(T) BY <1>5, <1>6, <1>8, <1>11 DEF Longest
<1>13. QED BY <1>5, <1>12

(* The owner of a file among all strms is its owner among those listed.     *)
LEMMA OwnerListed ==
    ASSUME NEW f \in Sidecars, NEW names \in SUBSET Stems, NEW o \in Owner(f, Stems), o \in names
    PROVE  o \in Owner(f, names) /\ o \in Starts[f] /\ \A s \in Starts[f] : Length[s] <= Length[o]
BY MirrorAssumption DEF Owner, Longest

(* What _delete_sidecars keeps is not of a part that is gone; what it takes *)
(* is not of a strm that is listed.                                         *)
LEMMA OrphansAre ==
    ASSUME MirrorTypes, NEW d \in TitleDirs, NEW f \in Sidecars, NEW lost \in SUBSET Stems
    PROVE  /\ Orphan(d, f, lost) => Owner(f, Stems) \cap strm[d] = {}
           /\ strm[d] # {} /\ ~Orphan(d, f, lost) /\ Starts[f] # {} => ~ Owner(f, Stems) \subseteq Parts \ strm[d]
<1> DEFINE names == strm[d] \cup lost
           owner == Owner(f, names)
           parts == {p \in (Starts[f] \cap Parts) \ strm[d] : \A s \in owner : Length[p] > Length[s]}
<1>1. Orphan(d, f, lost) <=> (owner # {} /\ owner \cap strm[d] = {}) \/ (strm[d] # {} /\ parts # {}) BY DEF Orphan
<1>2. names \in SUBSET Stems /\ strm[d] \subseteq names BY DEF MirrorTypes
<1>3. Starts[f] \in SUBSET Stems /\ IsFiniteSet(Starts[f]) /\ (\A s \in Stems : Length[s] \in Nat) BY MirrorAssumption
<1>4. owner \subseteq Starts[f] \cap names BY DEF Owner, Longest
<1>5. ASSUME NEW o \in Owner(f, Stems), o \in strm[d] PROVE o \in owner /\ parts = {}
  <2>1. o \in owner /\ o \in Starts[f] /\ \A s \in Starts[f] : Length[s] <= Length[o] BY <1>2, <1>5, OwnerListed
  <2> HIDE DEF owner, names
  <2>2. QED BY <1>3, <2>1
<1>6. ASSUME strm[d] # {}, parts = {}, owner = {} \/ owner \cap strm[d] # {}, Starts[f] # {}, Owner(f, Stems) \subseteq Parts \ strm[d]
      PROVE  FALSE
  <2>1. Starts[f] \cap Stems = Starts[f] BY <1>3
  <2>2. Owner(f, Stems) = Longest(Starts[f]) BY <2>1 DEF Owner
  <2>3. PICK p \in Starts[f] : p \in Owner(f, Stems) /\ \A s \in Starts[f] : Length[s] <= Length[p]
    BY <1>3, <1>6, <2>2, LongestIs DEF Longest
  <2> HIDE DEF owner, names
  <2>4. PICK s \in owner : ~(Length[p] > Length[s]) BY <1>6, <2>3
  <2>5. PICK o \in owner : o \in strm[d] BY <1>6, <2>4
  <2>6. Length[s] <= Length[o]
    <3>1. s \in Starts[f] \cap names BY <1>4, <2>4
    <3>2. QED BY <2>5, <3>1 DEF Owner, Longest, owner
  <2>7. Length[o] = Length[p] BY <1>3, <1>4, <2>3, <2>4, <2>5, <2>6
  <2>8. o \in Longest(Starts[f]) BY <1>4, <2>3, <2>5, <2>7 DEF Longest
  <2>9. QED BY <1>6, <2>2, <2>5, <2>8
<1> HIDE DEF owner, names, parts
<1>7. QED BY <1>1, <1>5, <1>6

LEMMA AtRestIs == AtRest \in Syncs /\ AtRest.pc = "rest" /\ AtRest.steady
<1>1. [d \in TitleDirs |-> {}] \in [TitleDirs -> SUBSET Stems] OBVIOUS
<1>2. QED BY <1>1 DEF AtRest, Syncs

(* Nothing is promised at rest, of a batch, or of a sync that was interfered with. *)
LEMMA Promised ==
    ASSUME sync'.pc \in {"rest", "batch"} \/ ~sync'.steady
    PROVE  SyncSound'
BY DEF SyncSound

LEMMA ChangeIs ==
    ASSUME MirrorTypes, Change
    PROVE  sync' \in Syncs /\ SyncSound'
<1>1. sync' = [sync EXCEPT !.steady = (sync.pc = "rest")] /\ sync \in Syncs BY DEF Change, MirrorTypes
<1>2. sync' \in Syncs /\ sync'.pc = sync.pc /\ (sync'.steady => sync.pc = "rest")
  <2> DEFINE b == sync.pc = "rest"
  <2>1. b \in BOOLEAN OBVIOUS
  <2>2. sync' = [sync EXCEPT !.steady = b] BY <1>1
  <2> HIDE DEF b
  <2>3. sync' \in Syncs /\ sync'.pc = sync.pc /\ sync'.steady = b BY <1>1, <2>1, <2>2 DEF Syncs
  <2>4. QED BY <2>3 DEF b
<1>3. QED BY <1>2, Promised

(* An update only adds a copy.                                              *)
LEMMA CopiedKeeps ==
    ASSUME MirrorTypes, NEW s \in Stems, Copied(s)
    PROVE  /\ strm' \in [TitleDirs -> SUBSET Stems] /\ there' \subseteq TitleDirs
           /\ \A d \in TitleDirs : strm[d] \subseteq strm'[d]
           /\ s \in src /\ rule[s] # NoTitle => s \in strm'[rule[s]]
<1>1. rule[s] \in TitleDirs \cup {NoTitle} BY DEF MirrorTypes
<1>2. CASE s \in src /\ rule[s] # NoTitle
  <2>1. strm' = [strm EXCEPT ![rule[s]] = @ \cup {s}] /\ there' = there \cup {rule[s]} BY <1>2 DEF Copied
  <2>2. QED BY <1>1, <1>2, <2>1 DEF MirrorTypes
<1>3. CASE ~(s \in src /\ rule[s] # NoTitle)
  <2>1. UNCHANGED <<strm, there>> BY <1>3 DEF Copied
  <2>2. QED BY <1>3, <2>1 DEF MirrorTypes
<1>4. QED BY <1>2, <1>3

(* The update: one strm after the other gets its copy.                      *)
LEMMA UpdateOneKeeps ==
    ASSUME MirrorInv, NEW s \in Stems, UpdateOne(s)
    PROVE  MirrorInv' /\ \A d \in TitleDirs : strm[d] \subseteq strm'[d]
<1>1. sync.pc = "update" /\ UNCHANGED <<src, meta, rule, changes>> /\ MirrorTypes /\ sync' = [sync EXCEPT !.todo = @ \ {s}]
  BY DEF UpdateOne, Copied, MirrorInv
<1>2. sync' \in Syncs /\ sync'.pc = "update" /\ sync'.steady = sync.steady /\ sync'.todo = sync.todo \ {s}
  BY <1>1 DEF MirrorTypes, Syncs
<1>4. /\ strm' \in [TitleDirs -> SUBSET Stems] /\ there' \subseteq TitleDirs
      /\ \A d \in TitleDirs : strm[d] \subseteq strm'[d]
      /\ s \in src /\ rule[s] # NoTitle => s \in strm'[rule[s]]
  BY <1>1, CopiedKeeps DEF UpdateOne
<1>5. MirrorTypes' BY <1>1, <1>2, <1>4 DEF MirrorTypes
<1>6. SyncSound'
  <2>1. \A x \in src : InPlace(x) => InPlace(x)' BY <1>1, <1>4 DEF MirrorTypes, InPlace
  <2>2. s \in src => InPlace(s)' BY <1>1, <1>4 DEF InPlace
  <2>3. SyncSound BY DEF MirrorInv
  <2>4. sync.steady => sync.todo \subseteq src /\ \A x \in src \ sync.todo : InPlace(x) BY <1>1, <2>3 DEF SyncSound
  <2>5. QED BY <1>1, <1>2, <2>1, <2>2, <2>4 DEF SyncSound
<1>7. QED BY <1>4, <1>5, <1>6 DEF MirrorInv

LEMMA ListMirrorKeeps ==
    ASSUME MirrorInv, ListMirror
    PROVE  MirrorInv'
<1> DEFINE found == {x \in TitleDirs \X Stems : x[2] \in strm[x[1]]}
<1>1. /\ sync.pc = "update" /\ sync.todo = {} /\ UNCHANGED <<src, strm, meta, there, rule>> /\ MirrorTypes
      /\ sync' = [sync EXCEPT !.pc = "strays", !.todo = found]
  BY DEF ListMirror, mirror, MirrorInv
<1>2. found \in SUBSET Pairs /\ \A d \in TitleDirs : \A s \in strm[d] : <<d, s>> \in found
  BY <1>1 DEF Pairs, MirrorTypes
<1> HIDE DEF found
<1>3. sync' \in Syncs /\ sync'.pc = "strays" /\ sync'.todo = found /\ sync'.steady = sync.steady
  <2>1. sync \in Syncs /\ sync' = [sync EXCEPT !.pc = "strays", !.todo = found] BY <1>1 DEF MirrorTypes
  <2>2. found \in (SUBSET Stems) \cup (SUBSET Pairs) BY <1>2
  <2>3. QED BY <2>1, <2>2 DEF Syncs
<1>4. MirrorTypes' BY <1>1, <1>3 DEF MirrorTypes
<1>5. SyncSound' BY <1>1, <1>2, <1>3 DEF MirrorInv, SyncSound, InPlace
<1>6. QED BY <1>4, <1>5 DEF MirrorInv

(* A copy is deleted where its strm is gone or has another.                 *)
LEMMA StrayKeeps ==
    ASSUME MirrorInv, NEW d \in TitleDirs, NEW s \in Stems, Stray(d, s)
    PROVE  /\ MirrorInv' /\ \A e \in TitleDirs : \A x \in strm[e] : x \in strm'[e] \/ (x = s /\ e = d)
           /\ s \in src /\ s \notin strm'[d] /\ s \in strm[d] => rule[s] \in TitleDirs /\ s \in strm'[rule[s]]
<1>1. sync.pc = "strays" /\ UNCHANGED <<src, meta, there, rule>> /\ MirrorTypes /\ sync \in Syncs /\ SyncSound
  BY DEF Stray, MirrorInv, MirrorTypes
<1>2. rule[s] \in TitleDirs \cup {NoTitle} BY <1>1 DEF MirrorTypes
<1>3. CASE s \notin src \/ MovedAway(s, d)
  <2>1. strm' = [strm EXCEPT ![d] = @ \ {s}] /\ sync' = [sync EXCEPT !.todo = @ \ {<<d, s>>}, !.gone[d] = @ \cup {s}]
    BY <1>3 DEF Stray
  <2>2. /\ strm' \in [TitleDirs -> SUBSET Stems] /\ strm'[d] = strm[d] \ {s}
        /\ \A e \in TitleDirs : e # d => strm'[e] = strm[e]
    BY <1>1, <2>1 DEF MirrorTypes
  <2> DEFINE lost == [sync.gone EXCEPT ![d] = @ \cup {s}]
             left == sync.todo \ {<<d, s>>}
  <2>3. lost \in [TitleDirs -> SUBSET Stems] /\ left \in (SUBSET Stems) \cup (SUBSET Pairs)
    BY <1>1 DEF Syncs
  <2>4. sync' = [sync EXCEPT !.todo = left, !.gone = lost] BY <1>1, <2>1 DEF Syncs
  <2> HIDE DEF lost
  <2>5. sync' \in Syncs /\ sync'.pc = "strays" /\ sync'.todo = sync.todo \ {<<d, s>>} /\ sync'.steady = sync.steady
    BY <1>1, <2>3, <2>4 DEF Syncs
  <2>6. MirrorTypes' BY <1>1, <2>2, <2>5 DEF MirrorTypes
  <2>7. s \in src => rule[s] \in TitleDirs \ {d} /\ s \in strm'[rule[s]] BY <1>2, <1>3, <2>2 DEF MovedAway
  <2>8. SyncSound'
    <3>1. \A x \in src : InPlace(x) => InPlace(x)' BY <1>1, <2>2, <2>7 DEF MirrorTypes, InPlace
    <3>2. \A e \in TitleDirs : \A x \in strm'[e] : <<e, x>> \in sync.todo => <<e, x>> \in sync'.todo BY <2>2, <2>5
    <3>3. \A e \in TitleDirs : strm'[e] \subseteq strm[e] BY <2>2
    <3>4. \A e, x : AtHome(e, x)' <=> AtHome(e, x) BY <1>1 DEF AtHome
    <3>5. QED BY <1>1, <2>5, <3>1, <3>2, <3>3, <3>4 DEF SyncSound
  <2>9. QED BY <1>1, <2>2, <2>6, <2>7, <2>8 DEF MirrorInv
<1>4. CASE ~(s \notin src \/ MovedAway(s, d))
  <2>1. sync' = [sync EXCEPT !.todo = @ \ {<<d, s>>}] /\ UNCHANGED strm BY <1>4 DEF Stray
  <2>2. sync' \in Syncs /\ sync'.pc = "strays" /\ sync'.todo = sync.todo \ {<<d, s>>} /\ sync'.steady = sync.steady
    BY <1>1, <2>1 DEF Syncs
  <2>3. MirrorTypes' BY <1>1, <2>1, <2>2 DEF MirrorTypes
  <2>4. SyncSound'
    <3>1. sync.steady => AtHome(d, s)
      <4>1. sync.steady => InPlace(s) BY <1>1, <1>4 DEF SyncSound
      <4>2. QED BY <1>2, <1>4, <4>1 DEF MovedAway, InPlace, AtHome
    <3>2. \A e \in TitleDirs : \A x \in strm[e] : <<e, x>> \in sync.todo => <<e, x>> \in sync'.todo \/ (e = d /\ x = s)
      BY <2>2
    <3>3. \A e, x : AtHome(e, x)' <=> AtHome(e, x) BY <1>1 DEF AtHome
    <3>4. \A x : InPlace(x)' <=> InPlace(x) BY <1>1, <2>1 DEF InPlace
    <3>5. QED BY <1>1, <2>1, <2>2, <3>1, <3>2, <3>3, <3>4 DEF SyncSound
  <2>5. QED BY <2>1, <2>3, <2>4 DEF MirrorInv
<1>5. QED BY <1>3, <1>4

(* The metadata of the title directories, and the empty ones.               *)
LEMMA DeleteSidecarsKeeps ==
    ASSUME MirrorInv, DeleteSidecars
    PROVE  MirrorInv' /\ \A d \in TitleDirs : \A f \in meta[d] \ meta'[d] : Owner(f, Stems) \cap strm'[d] = {}
<1>1. sync.pc = "strays" /\ sync.todo = {} /\ UNCHANGED <<src, strm, there, rule>> /\ MirrorTypes /\ SyncSound
  BY DEF DeleteSidecars, MirrorInv
<1>2. sync' = [sync EXCEPT !.pc = "dirs"] /\ sync \in Syncs BY <1>1 DEF DeleteSidecars, MirrorTypes
<1>3. sync' \in Syncs /\ sync'.pc = "dirs" /\ sync'.steady = sync.steady /\ sync.gone \in [TitleDirs -> SUBSET Stems]
  BY <1>2 DEF Syncs
<1> DEFINE kept(d) == IF strm[d] \cup sync.gone[d] = {} THEN meta[d] ELSE {f \in meta[d] : ~Orphan(d, f, sync.gone[d])}
<1>4. meta' = [d \in TitleDirs |-> kept(d)] BY DEF DeleteSidecars
<1>5. ASSUME NEW d \in TitleDirs
      PROVE  /\ kept(d) \subseteq meta[d] /\ kept(d) \subseteq Sidecars
             /\ \A f \in meta[d] \ kept(d) : Owner(f, Stems) \cap strm[d] = {}
             /\ strm[d] # {} => \A f \in kept(d) : Starts[f] # {} => ~ Owner(f, Stems) \subseteq Parts \ strm[d]
  <2>1. meta[d] \subseteq Sidecars /\ sync.gone[d] \in SUBSET Stems BY <1>1, <1>3 DEF MirrorTypes
  <2>2. \A f \in meta[d] : /\ Orphan(d, f, sync.gone[d]) => Owner(f, Stems) \cap strm[d] = {}
                           /\ strm[d] # {} /\ ~Orphan(d, f, sync.gone[d]) /\ Starts[f] # {} => ~ Owner(f, Stems) \subseteq Parts \ strm[d]
    BY <1>1, <2>1, OrphansAre
  <2>3. QED BY <2>1, <2>2
<1> HIDE DEF kept
<1>6. meta' \in [TitleDirs -> SUBSET Sidecars] /\ \A d \in TitleDirs : meta'[d] = kept(d) BY <1>4, <1>5
<1>7. MirrorTypes' BY <1>1, <1>3, <1>6 DEF MirrorTypes
<1>8. SyncSound'
  <2>1. \A d \in TitleDirs : strm[d] # {} => NoneOfParts(d)' BY <1>1, <1>5, <1>6 DEF NoneOfParts, Owner, Longest
  <2>2. sync.steady => \A d \in TitleDirs : \A s \in strm[d] : AtHome(d, s) BY <1>1 DEF SyncSound
  <2>3. (\A d, x : AtHome(d, x)' <=> AtHome(d, x)) /\ \A x : InPlace(x)' <=> InPlace(x) BY <1>1 DEF AtHome, InPlace
  <2>4. QED BY <1>1, <1>3, <2>1, <2>2, <2>3 DEF SyncSound
<1>9. \A d \in TitleDirs : \A f \in meta[d] \ meta'[d] : Owner(f, Stems) \cap strm'[d] = {} BY <1>1, <1>5, <1>6
<1>10. QED BY <1>7, <1>8, <1>9 DEF MirrorInv

LEMMA DeleteEmptyDirsKeeps ==
    ASSUME MirrorInv, DeleteEmptyDirs
    PROVE  MirrorInv' /\ there' \subseteq there /\ \A d \in there' : meta'[d] = meta[d]
<1>1. sync.pc = "dirs" /\ UNCHANGED <<src, strm, rule>> /\ MirrorTypes /\ SyncSound /\ sync \in Syncs
  BY DEF DeleteEmptyDirs, MirrorInv, MirrorTypes
<1>2. PICK kept \in SUBSET {d \in there : strm[d] = {}} :
         /\ there' = {d \in there : strm[d] # {} \/ d \in kept}
         /\ meta' = [d \in TitleDirs |-> IF d \in there' THEN meta[d] ELSE {}]
         /\ sync' = [sync EXCEPT !.pc = "ended", !.steady = @ /\ kept = {}]
  BY DEF DeleteEmptyDirs
<1> DEFINE b == sync.steady /\ kept = {}
<1>3. b \in BOOLEAN /\ sync' = [sync EXCEPT !.pc = "ended", !.steady = b] BY <1>2
<1> HIDE DEF b
<1>4. sync' \in Syncs /\ sync'.pc = "ended" /\ sync'.steady = b BY <1>1, <1>3 DEF Syncs
<1>5. there' \subseteq there /\ there \subseteq TitleDirs /\ \A d \in TitleDirs : meta'[d] = IF d \in there' THEN meta[d] ELSE {}
  BY <1>1, <1>2 DEF MirrorTypes
<1>6. meta' \in [TitleDirs -> SUBSET Sidecars]
  <2> DEFINE m(d) == IF d \in there' THEN meta[d] ELSE {}
  <2>1. \A d \in TitleDirs : m(d) \in SUBSET Sidecars BY <1>1 DEF MirrorTypes
  <2>2. meta' = [d \in TitleDirs |-> m(d)] BY <1>2
  <2> HIDE DEF m
  <2>3. QED BY <2>1, <2>2
<1>7. MirrorTypes' BY <1>1, <1>4, <1>5, <1>6 DEF MirrorTypes
<1>8. SyncSound'
  <2>1. SUFFICES ASSUME b PROVE SyncSound' BY <1>4, Promised
  <2>2. sync.steady /\ kept = {} BY <2>1 DEF b
  <2>3. \A d \in there' : strm[d] # {} BY <1>2, <2>2
  <2>4. \A d \in TitleDirs : NoneOfParts(d) => NoneOfParts(d)' BY <1>1, <1>5 DEF NoneOfParts, Owner, Longest
  <2>5. (\A d, x : AtHome(d, x)' <=> AtHome(d, x)) /\ \A x : InPlace(x)' <=> InPlace(x) BY <1>1 DEF AtHome, InPlace
  <2>6. QED BY <1>1, <1>4, <2>2, <2>3, <2>4, <2>5 DEF SyncSound
<1>9. QED BY <1>5, <1>7, <1>8 DEF MirrorInv

(* A copy that goes takes metadata with it that it claims, of no strm that  *)
(* stays.                                                                   *)
LEMMA RemovesKeeps ==
    ASSUME MirrorTypes, NEW s \in Stems, HasCopy(s),
           NEW files \in SUBSET Claimed(rule[s], s), Removes(s, files)
    PROVE  /\ strm' \in [TitleDirs -> SUBSET Stems] /\ meta' \in [TitleDirs -> SUBSET Sidecars]
           /\ \A d \in TitleDirs : \A x \in strm[d] : x \in strm'[d] \/ x = s
           /\ \A d \in TitleDirs : \A f \in meta[d] \ meta'[d] : Owner(f, Stems) \cap strm'[d] = {}
<1> DEFINE d == rule[s]
<1>1. d \in TitleDirs BY DEF HasCopy, MirrorTypes
<1>2. strm' = [strm EXCEPT ![d] = @ \ {s}] /\ meta' = [meta EXCEPT ![d] = @ \ files] BY DEF Removes
<1>3. \A f \in files : f \in meta[d] /\ Owner(f, strm[d]) # {} /\ Owner(f, strm[d]) \subseteq {s} BY DEF Claimed
<1> HIDE DEF d
<1>4. /\ strm' \in [TitleDirs -> SUBSET Stems] /\ strm'[d] = strm[d] \ {s} /\ strm[d] \in SUBSET Stems
      /\ \A e \in TitleDirs : e # d => strm'[e] = strm[e]
  BY <1>1, <1>2 DEF MirrorTypes
<1>5. /\ meta' \in [TitleDirs -> SUBSET Sidecars] /\ meta'[d] = meta[d] \ files /\ meta[d] \subseteq Sidecars
      /\ \A e \in TitleDirs : e # d => meta'[e] = meta[e]
  BY <1>1, <1>2 DEF MirrorTypes
<1>6. ASSUME NEW f \in files, NEW o \in Owner(f, Stems), o \in strm'[d] PROVE FALSE
  <2>1. o \in strm[d] /\ o # s /\ f \in Sidecars BY <1>3, <1>4, <1>5, <1>6
  <2>2. o \in Owner(f, strm[d]) BY <1>4, <2>1, OwnerListed
  <2>3. QED BY <1>3, <1>6, <2>1, <2>2
<1>7. \A e \in TitleDirs : \A f \in meta[e] \ meta'[e] : Owner(f, Stems) \cap strm'[e] = {} BY <1>5, <1>6
<1>8. QED BY <1>4, <1>5, <1>7

(* A path of a batch is treated, or fails.                                  *)
LEMMA BatchPathKeeps ==
    ASSUME MirrorInv, batch \in Batches, NEW s \in Stems,
           DeleteOne(s) \/ DeleteFails(s) \/ BatchUpdates(s) \/ BatchUpdateFails(s)
    PROVE  /\ MirrorInv'
           /\ \A d \in TitleDirs : \A x \in strm[d] :
                 x \in strm'[d] \/ (x = s /\ s \in batch.deleted /\ batch'.changed = batch.changed
                                    /\ UNCHANGED <<src, coming, pending>>)
           /\ \A d \in TitleDirs : \A f \in meta[d] \ meta'[d] : Owner(f, Stems) \cap strm'[d] = {}
<1>1. MirrorTypes /\ sync.pc = "batch" /\ UNCHANGED <<src, rule, sync>>
  BY DEF MirrorInv, DeleteOne, DeleteFails, BatchUpdates, BatchUpdateFails, Copied
<1>2. SyncSound' BY <1>1, Promised
<1>3. ASSUME strm' \in [TitleDirs -> SUBSET Stems], meta' \in [TitleDirs -> SUBSET Sidecars], there' \subseteq TitleDirs
      PROVE  MirrorInv'
  BY <1>1, <1>2, <1>3 DEF MirrorInv, MirrorTypes
<1>4. CASE UNCHANGED mirror
  <2>1. MirrorInv' BY <1>1, <1>3, <1>4 DEF mirror, MirrorTypes
  <2>2. QED BY <1>4, <2>1 DEF mirror
<1>5. CASE BatchUpdates(s)
  <2>1. Copied(s) /\ UNCHANGED meta BY <1>5 DEF BatchUpdates, Copied
  <2>2. /\ strm' \in [TitleDirs -> SUBSET Stems] /\ there' \subseteq TitleDirs
        /\ \A d \in TitleDirs : strm[d] \subseteq strm'[d]
    BY <1>1, <2>1, CopiedKeeps
  <2>3. MirrorInv' BY <1>1, <1>3, <2>1, <2>2 DEF MirrorTypes
  <2>4. QED BY <2>1, <2>2, <2>3
<1>6. ASSUME HasCopy(s), NEW files \in SUBSET Claimed(rule[s], s), Removes(s, files), DeleteOne(s) \/ DeleteFails(s)
      PROVE  /\ MirrorInv'
             /\ \A d \in TitleDirs : \A x \in strm[d] :
                   x \in strm'[d] \/ (x = s /\ s \in batch.deleted /\ batch'.changed = batch.changed
                                      /\ UNCHANGED <<src, coming, pending>>)
             /\ \A d \in TitleDirs : \A f \in meta[d] \ meta'[d] : Owner(f, Stems) \cap strm'[d] = {}
  <2>1. /\ strm' \in [TitleDirs -> SUBSET Stems] /\ meta' \in [TitleDirs -> SUBSET Sidecars]
        /\ \A d \in TitleDirs : \A x \in strm[d] : x \in strm'[d] \/ x = s
        /\ \A d \in TitleDirs : \A f \in meta[d] \ meta'[d] : Owner(f, Stems) \cap strm'[d] = {}
    BY <1>1, <1>6, RemovesKeeps
  <2>2. there' \subseteq there BY <1>6 DEF DeleteOne, DeleteFails, mirror
  <2>3. MirrorInv' BY <1>1, <1>3, <2>1, <2>2 DEF MirrorTypes
  <2>4. s \in batch.deleted /\ batch'.changed = batch.changed /\ UNCHANGED <<src, coming, pending>>
    BY <1>6 DEF DeleteOne, DeleteFails, Batches
  <2>5. QED BY <2>1, <2>3, <2>4
<1>7. CASE DeleteOne(s) /\ ~UNCHANGED mirror
  <2>1. HasCopy(s) /\ Removes(s, Claimed(rule[s], s)) BY <1>7 DEF DeleteOne
  <2>2. QED BY <1>6, <1>7, <2>1
<1>8. CASE DeleteFails(s) /\ ~UNCHANGED mirror
  <2>1. HasCopy(s) /\ \E files \in SUBSET Claimed(rule[s], s) : Removes(s, files) BY <1>8 DEF DeleteFails, mirror
  <2>2. QED BY <1>6, <1>8, <2>1
<1>9. QED BY <1>4, <1>5, <1>7, <1>8 DEF BatchUpdateFails

(* The other steps keep the strms and the metadata.                         *)
LEMMA MirrorStays ==
    ASSUME MirrorInv, \/ UNCHANGED mirrorVars \/ FullStarts \/ UpdateFails \/ FullEnds \/ RulesChange
                      \/ BatchStarts \/ BatchDropped \/ BatchEnds
                      \/ \E s \in Stems : SourceChanges(s) \/ Hear(s)
                      \/ \E d \in TitleDirs, f \in Sidecars : EmbyWrites(d, f)
    PROVE  MirrorInv' /\ strm' = strm /\ there' = there /\ \A d \in TitleDirs : meta[d] \subseteq meta'[d]
<1>1. MirrorTypes /\ SyncSound BY DEF MirrorInv
<1>2. CASE UNCHANGED mirrorVars
  BY <1>1, <1>2 DEF MirrorInv, MirrorTypes, SyncSound, mirrorVars, mirror, InPlace, AtHome, NoneOfParts, Owner,
     Longest
<1>3. CASE FullStarts \/ UpdateFails \/ FullEnds
  <2>1. UNCHANGED <<src, strm, meta, there, rule>> BY <1>3 DEF FullStarts, UpdateFails, FullEnds, mirror
  <2>2. CASE sync' = AtRest
    <3>1. sync' \in Syncs /\ SyncSound' BY <2>2, AtRestIs, Promised
    <3>2. QED BY <1>1, <2>1, <3>1 DEF MirrorInv, MirrorTypes
  <2>3. CASE sync' = [AtRest EXCEPT !.pc = "update", !.todo = src]
    <3>1. AtRest \in Syncs /\ src \subseteq Stems BY <1>1, AtRestIs DEF MirrorTypes
    <3>2. sync' \in Syncs /\ sync'.pc = "update" /\ sync'.todo = src
      <4> HIDE DEF AtRest
      <4>1. QED BY <2>3, <3>1 DEF Syncs
    <3>3. SyncSound' BY <2>1, <3>2 DEF SyncSound
    <3>4. QED BY <1>1, <2>1, <3>2, <3>3 DEF MirrorInv, MirrorTypes
  <2>4. QED BY <1>3, <2>2, <2>3 DEF FullStarts, UpdateFails, FullEnds
<1>4. CASE RulesChange
  <2>1. rule' \in Rules /\ UNCHANGED <<src, strm, meta, there>> /\ Change BY <1>4 DEF RulesChange, mirror
  <2>2. rule' \in [Stems -> TitleDirs \cup {NoTitle}] BY <2>1, MirrorAssumption
  <2>3. sync' \in Syncs /\ SyncSound' BY <1>1, <2>1, ChangeIs
  <2>4. QED BY <1>1, <2>1, <2>2, <2>3 DEF MirrorInv, MirrorTypes
<1>5. ASSUME NEW s \in Stems, SourceChanges(s) PROVE MirrorInv' /\ UNCHANGED <<strm, there, meta>>
  <2>1. src' \subseteq Stems /\ UNCHANGED <<rule, strm, meta, there>> /\ Change
    BY <1>1, <1>5 DEF SourceChanges, mirror, MirrorTypes
  <2>2. sync' \in Syncs /\ SyncSound' BY <1>1, <2>1, ChangeIs
  <2>3. QED BY <1>1, <2>1, <2>2 DEF MirrorInv, MirrorTypes
<1>6. ASSUME NEW d \in TitleDirs, NEW f \in Sidecars, EmbyWrites(d, f)
      PROVE  MirrorInv' /\ UNCHANGED <<strm, there>> /\ \A e \in TitleDirs : meta[e] \subseteq meta'[e]
  <2>1. UNCHANGED <<src, strm, there, rule>> /\ Change BY <1>6 DEF EmbyWrites
  <2>2. meta' \in [TitleDirs -> SUBSET Sidecars] /\ \A e \in TitleDirs : meta[e] \subseteq meta'[e]
    BY <1>1, <1>6 DEF EmbyWrites, MirrorTypes
  <2>3. sync' \in Syncs /\ SyncSound' BY <1>1, <2>1, ChangeIs
  <2>4. QED BY <1>1, <2>1, <2>2, <2>3 DEF MirrorInv, MirrorTypes
<1>7. ASSUME NEW s \in Stems, Hear(s) PROVE MirrorInv' /\ UNCHANGED <<strm, there, meta>>
  <2> DEFINE b == sync.pc \notin {"rest", "batch"}
  <2>1. b \in BOOLEAN /\ sync' = [sync EXCEPT !.heard = b] /\ UNCHANGED <<src, strm, meta, there, rule>>
    BY <1>7 DEF Hear, mirror
  <2> HIDE DEF b
  <2>2. sync' \in Syncs /\ sync'.pc = sync.pc /\ sync'.steady = sync.steady /\ sync'.todo = sync.todo
    BY <1>1, <2>1 DEF MirrorTypes, Syncs
  <2>3. SyncSound' BY <1>1, <2>1, <2>2 DEF SyncSound, InPlace, AtHome, NoneOfParts, Owner, Longest
  <2>4. QED BY <1>1, <2>1, <2>2, <2>3 DEF MirrorInv, MirrorTypes
<1>8. CASE BatchStarts \/ BatchDropped \/ BatchEnds
  <2>1. UNCHANGED <<src, strm, meta, there, rule>> BY <1>8 DEF BatchStarts, BatchDropped, BatchEnds, mirror
  <2>2. CASE UNCHANGED sync
    BY <1>1, <2>1, <2>2 DEF MirrorInv, MirrorTypes, SyncSound, InPlace, AtHome, NoneOfParts, Owner, Longest
  <2>3. CASE sync' = AtRest \/ sync' = [AtRest EXCEPT !.pc = "batch"]
    <3>1. sync' \in Syncs /\ sync'.pc \in {"rest", "batch"}
      <4> HIDE DEF AtRest
      <4>1. QED BY <2>3, AtRestIs DEF Syncs
    <3>2. QED BY <1>1, <2>1, <3>1, Promised DEF MirrorInv, MirrorTypes
  <2>4. QED BY <1>8, <2>2, <2>3 DEF BatchStarts, BatchDropped, BatchEnds
<1>9. QED BY <1>2, <1>3, <1>4, <1>5, <1>6, <1>7, <1>8

LEMMA MirrorInitially ==
    ASSUME MirrorInit
    PROVE  MirrorInv
<1>1. /\ src \subseteq Stems /\ rule \in [Stems -> TitleDirs \cup {NoTitle}] /\ sync = AtRest
      /\ strm = [d \in TitleDirs |-> {s \in src : rule[s] = d}]
      /\ meta \in [TitleDirs -> SUBSET Sidecars] /\ there \subseteq TitleDirs
  BY MirrorAssumption DEF MirrorInit
<1>2. strm \in [TitleDirs -> SUBSET Stems] BY <1>1
<1>3. MirrorTypes BY <1>1, <1>2, AtRestIs DEF MirrorTypes
<1>4. SyncSound BY <1>1, AtRestIs DEF SyncSound
<1>5. QED BY <1>3, <1>4 DEF MirrorInv

(* What a step may take out of the mirror.                                  *)
MirrorKeeps ==
    /\ \A s \in src \cap src' : Listed(s) => Listed(s)' \/ (s \in batch.deleted /\ (Renews(s)' \/ s \in untold))
    /\ \A d \in there' : \A f \in meta[d] \ meta'[d] : Owner(f, Stems) \cap strm'[d] = {}

LEMMA MirrorNextKeeps ==
    ASSUME MirrorInv, BatchInv, [MirrorNext]_mirrorVars
    PROVE  MirrorInv' /\ MirrorKeeps
<1>1. MirrorTypes /\ there \subseteq TitleDirs BY DEF MirrorInv, MirrorTypes
<1>2. CASE \/ UNCHANGED mirrorVars \/ FullStarts \/ UpdateFails \/ FullEnds \/ RulesChange
           \/ BatchStarts \/ BatchDropped \/ BatchEnds
           \/ \E s \in Stems : SourceChanges(s) \/ Hear(s)
           \/ \E d \in TitleDirs, f \in Sidecars : EmbyWrites(d, f)
  <2>1. MirrorInv' /\ strm' = strm /\ there' = there /\ \A d \in TitleDirs : meta[d] \subseteq meta'[d]
    BY <1>2, MirrorStays
  <2>2. QED BY <1>1, <2>1 DEF MirrorKeeps, Listed
<1>3. CASE ListMirror
  <2>1. UNCHANGED <<strm, meta>> BY <1>3 DEF ListMirror, mirror
  <2>2. QED BY <1>3, <2>1, ListMirrorKeeps DEF MirrorKeeps, Listed
<1>4. ASSUME NEW s \in Stems, UpdateOne(s) PROVE MirrorInv' /\ MirrorKeeps
  <2>1. MirrorInv' /\ (\A d \in TitleDirs : strm[d] \subseteq strm'[d]) /\ meta' = meta
    BY <1>4, UpdateOneKeeps DEF UpdateOne, Copied
  <2>2. QED BY <2>1 DEF MirrorKeeps, Listed
<1>5. ASSUME NEW d \in TitleDirs, NEW s \in Stems, Stray(d, s) PROVE MirrorInv' /\ MirrorKeeps
  <2>1. /\ MirrorInv' /\ \A e \in TitleDirs : \A x \in strm[e] : x \in strm'[e] \/ (x = s /\ e = d)
        /\ s \in src /\ s \notin strm'[d] /\ s \in strm[d] => rule[s] \in TitleDirs /\ s \in strm'[rule[s]]
    BY <1>5, StrayKeeps
  <2>2. meta' = meta /\ src' = src BY <1>5 DEF Stray
  <2>3. \A x \in src : Listed(x) => Listed(x)' BY <2>1, <2>2 DEF Listed
  <2>4. QED BY <2>1, <2>2, <2>3 DEF MirrorKeeps
<1>6. CASE DeleteSidecars
  <2>1. MirrorInv' /\ \A d \in TitleDirs : \A f \in meta[d] \ meta'[d] : Owner(f, Stems) \cap strm'[d] = {}
    BY <1>6, DeleteSidecarsKeeps
  <2>2. UNCHANGED <<strm, there>> BY <1>6 DEF DeleteSidecars
  <2>3. QED BY <1>1, <2>1, <2>2 DEF MirrorKeeps, Listed
<1>7. CASE DeleteEmptyDirs
  <2>1. MirrorInv' /\ there' \subseteq there /\ \A d \in there' : meta'[d] = meta[d] BY <1>7, DeleteEmptyDirsKeeps
  <2>2. UNCHANGED strm BY <1>7 DEF DeleteEmptyDirs
  <2>3. QED BY <2>1, <2>2 DEF MirrorKeeps, Listed
<1>8. ASSUME NEW s \in Stems, DeleteOne(s) \/ DeleteFails(s) \/ BatchUpdates(s) \/ BatchUpdateFails(s)
      PROVE  MirrorInv' /\ MirrorKeeps
  <2>1. /\ MirrorInv'
        /\ \A d \in TitleDirs : \A x \in strm[d] :
              x \in strm'[d] \/ (x = s /\ s \in batch.deleted /\ batch'.changed = batch.changed
                                 /\ UNCHANGED <<src, coming, pending>>)
        /\ \A d \in TitleDirs : \A f \in meta[d] \ meta'[d] : Owner(f, Stems) \cap strm'[d] = {}
    BY <1>8, BatchPathKeeps DEF BatchInv
  <2>2. ASSUME NEW x \in src, Listed(x), ~Listed(x)' PROVE x \in batch.deleted /\ (Renews(x)' \/ x \in untold)
    <3>1. PICK d \in TitleDirs : x \in strm[d] BY <2>2 DEF Listed
    <3>2. x = s /\ s \in batch.deleted /\ batch'.changed = batch.changed /\ UNCHANGED <<coming, pending>>
      BY <2>1, <2>2, <3>1 DEF Listed
    <3>3. x \notin untold => RedoneSoon(x) BY <2>2 DEF BatchInv
    <3>4. QED BY <3>2, <3>3 DEF RedoneSoon, Renews
  <2>3. there' \subseteq TitleDirs BY <2>1 DEF MirrorInv, MirrorTypes
  <2>4. QED BY <2>1, <2>2, <2>3 DEF MirrorKeeps
<1>9. QED BY <1>2, <1>3, <1>4, <1>5, <1>6, <1>7, <1>8 DEF MirrorNext

(* The runs that are no batch leave what is pending, or clear it.           *)
LEMMA BatchStays ==
    ASSUME MirrorTypes, BatchInv, UNCHANGED <<src, coming, batch, untold>>,
           sync'.pc = "batch" <=> sync.pc = "batch",
           UNCHANGED pending \/ (pending' = NonePending /\ sync.pc # "batch")
    PROVE  BatchInv'
<1>1. CASE UNCHANGED pending BY <1>1 DEF BatchInv, Returned, RedoneNext, RedoneSoon
<1>2. CASE pending' = NonePending /\ sync.pc # "batch"
  <2>1. pending' \in [changed : SUBSET Stems, deleted : SUBSET Stems] /\ pending'.deleted = {} BY <1>2 DEF NonePending
  <2>2. batch = NoBatch /\ batch.deleted = {} BY <1>2 DEF BatchInv, NoBatch
  <2>3. QED BY <1>2, <2>1, <2>2 DEF BatchInv, Returned, RedoneNext, RedoneSoon
<1>3. QED BY <1>1, <1>2

(* A full sync is no batch.                                                 *)
LEMMA RunKind ==
    ASSUME MirrorTypes,
           \/ FullStarts \/ UpdateFails \/ ListMirror \/ DeleteSidecars \/ DeleteEmptyDirs \/ FullEnds
           \/ \E s \in Stems : UpdateOne(s) \/ Hear(s)
           \/ \E d \in TitleDirs, s \in Stems : Stray(d, s)
           \/ \E d \in TitleDirs, f \in Sidecars : EmbyWrites(d, f)
           \/ \E s \in Stems : SourceChanges(s)
           \/ RulesChange
    PROVE  sync'.pc = "batch" <=> sync.pc = "batch"
<1>1. sync \in Syncs /\ AtRest.pc = "rest" /\ AtRest \in Syncs BY AtRestIs DEF MirrorTypes
<1> HIDE DEF AtRest
<1>2. CASE FullStarts BY <1>1, <1>2 DEF FullStarts, Syncs
<1>3. CASE UpdateFails \/ FullEnds BY <1>1, <1>3 DEF UpdateFails, FullEnds
<1>4. CASE ListMirror BY <1>1, <1>4 DEF ListMirror, Syncs
<1>5. CASE DeleteSidecars \/ DeleteEmptyDirs BY <1>1, <1>5 DEF DeleteSidecars, DeleteEmptyDirs, Syncs
<1>6. CASE \E s \in Stems : UpdateOne(s) \/ Hear(s) BY <1>1, <1>6 DEF UpdateOne, Hear, Syncs
<1>7. CASE \E d \in TitleDirs, s \in Stems : Stray(d, s) BY <1>1, <1>7 DEF Stray, Syncs
<1>8. CASE \/ \E d \in TitleDirs, f \in Sidecars : EmbyWrites(d, f)
           \/ \E s \in Stems : SourceChanges(s)
           \/ RulesChange
  BY <1>1, <1>8 DEF EmbyWrites, SourceChanges, RulesChange, Change, Syncs
<1>9. QED BY <1>2, <1>3, <1>4, <1>5, <1>6, <1>7, <1>8

(* A path of a batch leaves its set, for that of those that failed or none. *)
LEMMA PathTreated ==
    ASSUME batch \in Batches, NEW s \in Stems
    PROVE  /\ \/ batch' = [batch EXCEPT !.deleted = @ \ {s}]
              \/ batch' = [batch EXCEPT !.deleted = @ \ {s}, !.undeleted = @ \cup {s}]
              => batch' \in Batches /\ batch'.deleted \subseteq batch.deleted /\ batch'.changed = batch.changed
           /\ \/ batch' = [batch EXCEPT !.changed = @ \ {s}]
              \/ batch' = [batch EXCEPT !.changed = @ \ {s}, !.unchanged = @ \cup {s}]
              => batch' \in Batches /\ batch'.deleted = batch.deleted
<1>1. ASSUME batch' = [batch EXCEPT !.deleted = @ \ {s}]
      PROVE  batch' \in Batches /\ batch'.deleted \subseteq batch.deleted /\ batch'.changed = batch.changed
  BY <1>1 DEF Batches
<1>2. ASSUME batch' = [batch EXCEPT !.deleted = @ \ {s}, !.undeleted = @ \cup {s}]
      PROVE  batch' \in Batches /\ batch'.deleted \subseteq batch.deleted /\ batch'.changed = batch.changed
  BY <1>2 DEF Batches
<1>3. ASSUME batch' = [batch EXCEPT !.changed = @ \ {s}] PROVE batch' \in Batches /\ batch'.deleted = batch.deleted
  BY <1>3 DEF Batches
<1>4. ASSUME batch' = [batch EXCEPT !.changed = @ \ {s}, !.unchanged = @ \cup {s}]
      PROVE  batch' \in Batches /\ batch'.deleted = batch.deleted
  BY <1>4 DEF Batches
<1>5. QED BY <1>1, <1>2, <1>3, <1>4, Zenon

(* What is left of a queue ends as it did.                                  *)
LEMMA LastStays ==
    ASSUME NEW q \in Seq(BOOLEAN), q # <<>>
    PROVE  /\ Tail(q) = <<>> => Head(q) = q[Len(q)]
           /\ Tail(q) # <<>> => Tail(q)[Len(Tail(q))] = q[Len(q)]
<1>1. Len(q) \in Nat /\ Len(q) >= 1 /\ Len(Tail(q)) = Len(q) - 1 /\ Tail(q) \in Seq(BOOLEAN) OBVIOUS
<1>2. Tail(q) = <<>> => Len(q) = 1
  <2>1. SUFFICES ASSUME Tail(q) = <<>> PROVE Len(q) - 1 = 0 BY <1>1
  <2>2. Len(Tail(q)) = Len(<<>>) BY <2>1
  <2>3. QED BY <1>1, <2>2
<1>3. Len(q) = 1 => Head(q) = q[Len(q)] OBVIOUS
<1>4. Tail(q) # <<>> => Len(q) - 1 >= 1 BY <1>1
<1>5. Tail(q) # <<>> => Tail(q)[Len(q) - 1] = q[Len(q)] BY <1>1, <1>4
<1>6. QED BY <1>1, <1>2, <1>3, <1>5

(* The source changes: its event comes last, or nothing tells of it.        *)
LEMMA SourceTold ==
    ASSUME MirrorTypes, BatchInv, NEW s \in Stems, SourceChanges(s)
    PROVE  BatchInv'
<1>1. /\ UNCHANGED <<pending, batch>> /\ (sync'.pc = "batch" <=> sync.pc = "batch")
      /\ src' = IF s \in src THEN src \ {s} ELSE src \cup {s}
  BY RunKind DEF SourceChanges
<1>2. /\ coming' \in [Stems -> Seq(BOOLEAN)] /\ untold' \subseteq Stems
      /\ \A x \in Stems \ {s} : coming'[x] = coming[x] /\ (x \in untold' <=> x \in untold) /\ (x \in src' <=> x \in src)
      /\ \/ coming'[s] = Append(coming[s], s \in src)
         \/ s \in untold'
  <2>1. CASE coming' = [coming EXCEPT ![s] = Append(@, s \in src)] /\ untold' = untold \ {s}
    <3> DEFINE b == s \in src
    <3>1. b \in BOOLEAN /\ coming' = [coming EXCEPT ![s] = Append(coming[s], b)] BY <2>1 DEF BatchInv
    <3> HIDE DEF b
    <3>2. Append(coming[s], b) \in Seq(BOOLEAN) BY <3>1 DEF BatchInv
    <3>3. coming' \in [Stems -> Seq(BOOLEAN)] /\ coming'[s] = Append(coming[s], b)
          /\ \A x \in Stems \ {s} : coming'[x] = coming[x]
      BY <3>1, <3>2 DEF BatchInv
    <3>4. QED BY <1>1, <2>1, <3>3 DEF BatchInv, b
  <2>2. CASE UNCHANGED coming /\ untold' = untold \cup {s} BY <1>1, <2>2 DEF BatchInv
  <2>3. QED BY <2>1, <2>2 DEF SourceChanges
<1>3. ASSUME s \in src', s \notin untold' PROVE coming'[s] # <<>> /\ ~coming'[s][Len(coming'[s])]
  <2>1. s \notin src /\ coming'[s] = Append(coming[s], s \in src) BY <1>1, <1>2, <1>3
  <2> DEFINE b == s \in src
  <2>2. b = FALSE /\ coming[s] \in Seq(BOOLEAN) BY <2>1 DEF BatchInv
  <2>3. coming'[s] = Append(coming[s], b) BY <2>1
  <2> HIDE DEF b
  <2>4. QED BY <2>2, <2>3
<1>4. src \subseteq Stems /\ src' \subseteq Stems BY <1>1 DEF MirrorTypes
<1>5. ASSUME NEW x \in src' \ untold' PROVE (Returned(x) /\ RedoneNext(x) /\ RedoneSoon(x))'
  <2>1. CASE x = s BY <1>3, <2>1 DEF Returned, RedoneNext, RedoneSoon
  <2>2. CASE x # s
    <3>1. x \in src \ untold /\ coming'[x] = coming[x] BY <1>2, <1>4, <2>2
    <3>2. QED BY <1>1, <3>1 DEF BatchInv, Returned, RedoneNext, RedoneSoon
  <2>3. QED BY <2>1, <2>2
<1>6. QED BY <1>1, <1>2, <1>5 DEF BatchInv

(* An event that is heard is the last of its strm or is followed by others. *)
LEMMA HearTold ==
    ASSUME MirrorTypes, BatchInv, NEW s \in Stems, Hear(s)
    PROVE  BatchInv'
<1>1. /\ UNCHANGED <<src, batch, untold>> /\ (sync'.pc = "batch" <=> sync.pc = "batch")
      /\ coming[s] # <<>> /\ coming' = [coming EXCEPT ![s] = Tail(coming[s])]
  BY RunKind DEF Hear
<1>2. coming[s] \in Seq(BOOLEAN) /\ Tail(coming[s]) \in Seq(BOOLEAN) BY <1>1 DEF BatchInv
<1>3. /\ coming' \in [Stems -> Seq(BOOLEAN)] /\ coming'[s] = Tail(coming[s])
      /\ \A x \in Stems \ {s} : coming'[x] = coming[x]
  BY <1>1, <1>2 DEF BatchInv
<1>4. /\ pending' \in [changed : SUBSET Stems, deleted : SUBSET Stems]
      /\ ~Head(coming[s]) => s \in pending'.changed
      /\ \A x \in Stems \ {s} : (x \in pending'.changed <=> x \in pending.changed)
                                /\ (x \in pending'.deleted <=> x \in pending.deleted)
  BY DEF Hear, BatchInv
<1>5. ASSUME s \in src \ untold
      PROVE  ~coming[s][Len(coming[s])] /\ (coming'[s] = <<>> => ~Head(coming[s]))
             /\ (coming'[s] # <<>> => coming'[s][Len(coming'[s])] = coming[s][Len(coming[s])])
  <2>1. ~coming[s][Len(coming[s])] BY <1>1, <1>5 DEF BatchInv, Returned
  <2>2. QED BY <1>1, <1>2, <1>3, <2>1, LastStays
<1>6. ASSUME NEW x \in src \ untold PROVE (Returned(x) /\ RedoneNext(x) /\ RedoneSoon(x))'
  <2>1. CASE x = s BY <1>1, <1>4, <1>5, <1>6, <2>1 DEF Returned, RedoneNext, RedoneSoon
  <2>2. CASE x # s
    <3>1. x \in Stems BY DEF MirrorTypes
    <3>2. QED BY <1>1, <1>3, <1>4, <2>2, <3>1 DEF BatchInv, Returned, RedoneNext, RedoneSoon
  <2>3. QED BY <2>1, <2>2
<1>7. QED BY <1>1, <1>3, <1>4, <1>6 DEF BatchInv

(* A batch begins with what was pending, deletes before it updates, and     *)
(* leaves what failed to the next.                                          *)
LEMMA BatchTold ==
    ASSUME MirrorTypes, BatchInv,
           \/ BatchStarts \/ BatchDropped \/ BatchEnds
           \/ \E s \in Stems : DeleteOne(s) \/ DeleteFails(s) \/ BatchUpdates(s) \/ BatchUpdateFails(s)
    PROVE  BatchInv'
<1>1. sync \in Syncs /\ AtRest.pc = "rest" /\ AtRest \in Syncs BY AtRestIs DEF MirrorTypes
<1> HIDE DEF AtRest
<1>2. CASE BatchStarts
  <2>1. /\ sync'.pc = "batch" /\ UNCHANGED <<src, coming, untold>> /\ pending' = NonePending
        /\ batch' = [NoBatch EXCEPT !.changed = pending.changed, !.deleted = pending.deleted]
    BY <1>1, <1>2 DEF BatchStarts, Syncs
  <2>2. /\ pending' \in [changed : SUBSET Stems, deleted : SUBSET Stems] /\ pending'.deleted = {}
        /\ batch' \in Batches /\ batch'.changed = pending.changed /\ batch'.deleted = pending.deleted
    BY <2>1 DEF BatchInv, Batches, NonePending, NoBatch
  <2>3. QED BY <2>1, <2>2 DEF BatchInv, Returned, RedoneNext, RedoneSoon
<1>3. CASE BatchDropped
  <2>1. CASE sync.pc = "batch" /\ sync' = AtRest /\ batch' = NoBatch /\ UNCHANGED <<src, coming, untold, pending>>
    <3>1. batch' \in Batches /\ batch'.deleted = {} BY <2>1 DEF NoBatch, Batches
    <3>2. QED BY <1>1, <2>1, <3>1 DEF BatchInv, Returned, RedoneNext, RedoneSoon
  <2>2. CASE sync.pc # "batch" /\ pending' = NonePending /\ UNCHANGED <<sync, batch, src, coming, untold>>
    BY <2>2, BatchStays
  <2>3. QED BY <1>3, <2>1, <2>2 DEF BatchDropped
<1>4. CASE BatchEnds
  <2>1. /\ sync' = AtRest /\ batch' = NoBatch /\ UNCHANGED <<src, coming>>
        /\ pending' = [changed |-> pending.changed \cup batch.unchanged, deleted |-> pending.deleted \cup batch.undeleted]
        /\ untold' = untold \cup {s \in batch.undeleted \cap src : s \notin pending'.changed /\ coming[s] = <<>>}
    BY <1>4 DEF BatchEnds
  <2>2. /\ pending' \in [changed : SUBSET Stems, deleted : SUBSET Stems] /\ untold' \subseteq Stems
        /\ batch' \in Batches /\ batch'.deleted = {}
    BY <2>1 DEF BatchInv, Batches, NoBatch
  <2>3. ASSUME NEW x \in src \ untold' PROVE (Returned(x) /\ RedoneNext(x) /\ RedoneSoon(x))'
    <3>1. x \in src \ untold /\ (x \in batch.undeleted => x \in pending'.changed \/ coming[x] # <<>>) BY <2>1, <2>3
    <3>2. Returned(x) /\ RedoneNext(x) BY <3>1 DEF BatchInv
    <3>3. pending'.changed = pending.changed \cup batch.unchanged /\ pending'.deleted = pending.deleted \cup batch.undeleted
      BY <2>1
    <3>4. QED BY <2>1, <2>2, <3>1, <3>2, <3>3 DEF Returned, RedoneNext, RedoneSoon
  <2>4. QED BY <1>1, <2>1, <2>2, <2>3 DEF BatchInv
<1>5. ASSUME NEW s \in Stems, DeleteOne(s) \/ DeleteFails(s) PROVE BatchInv'
  <2>1. /\ UNCHANGED <<src, sync, coming, pending, untold>> /\ s \in batch.deleted
        /\ \/ batch' = [batch EXCEPT !.deleted = @ \ {s}]
           \/ batch' = [batch EXCEPT !.deleted = @ \ {s}, !.undeleted = @ \cup {s}]
        /\ sync.pc = "batch"
    BY <1>5 DEF DeleteOne, DeleteFails
  <2>2. batch \in Batches BY DEF BatchInv
  <2>3. batch' \in Batches /\ batch'.deleted \subseteq batch.deleted /\ batch'.changed = batch.changed
    BY <2>1, <2>2, PathTreated, Zenon
  <2>4. QED BY <2>1, <2>3 DEF BatchInv, Returned, RedoneNext, RedoneSoon
<1>6. ASSUME NEW s \in Stems, BatchUpdates(s) \/ BatchUpdateFails(s) PROVE BatchInv'
  <2>1. /\ UNCHANGED <<src, sync, coming, pending, untold>> /\ batch.deleted = {} /\ sync.pc = "batch"
        /\ \/ batch' = [batch EXCEPT !.changed = @ \ {s}]
           \/ batch' = [batch EXCEPT !.changed = @ \ {s}, !.unchanged = @ \cup {s}]
    BY <1>6 DEF BatchUpdates, BatchUpdateFails, DeletionsDone, Copied
  <2>2. batch \in Batches BY DEF BatchInv
  <2>3. batch' \in Batches /\ batch'.deleted = {} BY <2>1, <2>2, PathTreated, Zenon
  <2>4. QED BY <2>1, <2>3 DEF BatchInv, Returned, RedoneNext, RedoneSoon
<1>7. QED BY <1>2, <1>3, <1>4, <1>5, <1>6

LEMMA BatchNextTold ==
    ASSUME MirrorTypes, BatchInv, [MirrorNext]_mirrorVars
    PROVE  BatchInv'
<1>1. CASE UNCHANGED mirrorVars BY <1>1, BatchStays DEF mirrorVars
<1>2. CASE \/ FullStarts \/ UpdateFails \/ ListMirror \/ DeleteSidecars \/ DeleteEmptyDirs
           \/ \E s \in Stems : UpdateOne(s)
           \/ \E d \in TitleDirs, s \in Stems : Stray(d, s)
           \/ \E d \in TitleDirs, f \in Sidecars : EmbyWrites(d, f)
           \/ RulesChange
  <2>1. UNCHANGED <<src, batchVars>>
    BY <1>2 DEF FullStarts, UpdateFails, ListMirror, DeleteSidecars, DeleteEmptyDirs, UpdateOne, Copied, Stray, EmbyWrites,
       RulesChange
  <2>2. sync'.pc = "batch" <=> sync.pc = "batch" BY <1>2, RunKind
  <2>3. QED BY <2>1, <2>2, BatchStays DEF batchVars
<1>3. CASE FullEnds
  <2>1. UNCHANGED <<src, coming, batch, untold>> /\ (UNCHANGED pending \/ (pending' = NonePending /\ sync.pc # "batch"))
    BY <1>3 DEF FullEnds
  <2>2. sync'.pc = "batch" <=> sync.pc = "batch" BY <1>3, RunKind
  <2>3. QED BY <2>1, <2>2, BatchStays
<1>4. CASE \E s \in Stems : SourceChanges(s) BY <1>4, SourceTold
<1>5. CASE \E s \in Stems : Hear(s) BY <1>5, HearTold
<1>6. CASE \/ BatchStarts \/ BatchDropped \/ BatchEnds
           \/ \E s \in Stems : DeleteOne(s) \/ DeleteFails(s) \/ BatchUpdates(s) \/ BatchUpdateFails(s)
  BY <1>6, BatchTold
<1>7. QED BY <1>1, <1>2, <1>3, <1>4, <1>5, <1>6 DEF MirrorNext

LEMMA BatchInitially ==
    ASSUME MirrorInit
    PROVE  BatchInv
<1>1. coming = [s \in Stems |-> <<>>] /\ pending = NonePending /\ batch = NoBatch /\ untold = {} BY DEF MirrorInit
<1>2. coming \in [Stems -> Seq(BOOLEAN)] BY <1>1
<1>3. pending \in [changed : SUBSET Stems, deleted : SUBSET Stems] /\ pending.deleted = {} BY <1>1 DEF NonePending
<1>4. batch \in Batches /\ batch.deleted = {} BY <1>1 DEF NoBatch, Batches
<1>5. src \subseteq Stems BY DEF MirrorInit
<1>6. \A s \in src : coming[s] = <<>> BY <1>1, <1>5
<1>7. QED BY <1>1, <1>2, <1>3, <1>4, <1>6 DEF BatchInv, Returned, RedoneNext, RedoneSoon

\* However the source, the rules and Emby's metadata change while a full sync goes from file to
\* file or a batch from path to path, and wherever they fail, are cancelled or lose events: a full
\* sync takes no strm that the source has out of the mirror, nor does a batch, unless it was told
\* of its deletion; then its update is still to come, or nothing tells of its return.  No metadata
\* goes that belongs to a strm that is listed, and a full sync that nothing interfered with leaves
\* every strm where the rules put it and nothing that belongs to none (update_one, _moved, _owner,
\* _delete_sidecars, _delete_empty_dirs, delete_one, run_incremental, _on_fs_event).
THEOREM MirrorStaysFollowed == MirrorSpec => MirrorFollows
<1>1. MirrorInit => MirrorInv /\ BatchInv BY MirrorInitially, BatchInitially
<1>2. MirrorInv /\ BatchInv /\ [MirrorNext]_mirrorVars => MirrorInv' /\ BatchInv' /\ MirrorKeeps
  BY MirrorNextKeeps, BatchNextTold DEF MirrorInv
<1>3. MirrorInv => FullSyncCleans
  <2>1. SUFFICES ASSUME MirrorInv, sync.pc = "ended", sync.steady
        PROVE  /\ \A s \in src : rule[s] # NoTitle => {d \in TitleDirs : s \in strm[d]} = {rule[s]}
               /\ \A d \in TitleDirs : strm[d] \subseteq src
               /\ \A d \in there : strm[d] # {}
               /\ \A d \in there : \A f \in meta[d] : Starts[f] # {} => ~ Owner(f, Stems) \subseteq Parts \ strm[d]
    BY DEF FullSyncCleans
  <2>2. /\ \A s \in src : InPlace(s)
        /\ \A d \in TitleDirs : (\A s \in strm[d] : AtHome(d, s)) /\ (strm[d] # {} => NoneOfParts(d))
        /\ \A d \in there : strm[d] # {}
    BY <2>1 DEF MirrorInv, SyncSound
  <2>3. \A s \in src : rule[s] # NoTitle => rule[s] \in TitleDirs BY <2>1 DEF MirrorInv, MirrorTypes
  <2>4. there \subseteq TitleDirs BY <2>1 DEF MirrorInv, MirrorTypes
  <2>5. \A s \in src : rule[s] # NoTitle => {d \in TitleDirs : s \in strm[d]} = {rule[s]}
    BY <2>2, <2>3 DEF InPlace, AtHome
  <2>6. QED BY <2>2, <2>4, <2>5 DEF AtHome, NoneOfParts
<1>4. MirrorSpec => [](MirrorInv /\ BatchInv) BY <1>1, <1>2, PTL DEF MirrorSpec
<1>5. MirrorInv /\ BatchInv /\ [MirrorNext]_mirrorVars => [MirrorKeeps]_mirrorVars BY <1>2
<1>6. MirrorSpec => [][MirrorKeeps]_mirrorVars BY <1>4, <1>5, PTL DEF MirrorSpec
<1>7. MirrorKept <=> [][MirrorKeeps]_mirrorVars BY DEF MirrorKept, MirrorKeeps
<1>8. MirrorSpec => []FullSyncCleans BY <1>3, <1>4, PTL
<1>9. QED BY <1>6, <1>7, <1>8 DEF MirrorFollows

-----------------------------------------------------------------------------
(* Which of the videos of a folder are filed.                              *)

(* Videos of a folder are files of different names.                         *)
VideoFiles == [index : 0..9, letter : 0..3, tag : Tags, copy : BOOLEAN, size : Nat]
SameName(v, w) == v.index = w.index /\ v.letter = w.letter /\ v.tag = w.tag /\ v.copy = w.copy
Sound(S) == S \in SUBSET VideoFiles /\ IsFiniteSet(S) /\ \A v, w \in S : SameName(v, w) => v = w

FolderSound ==
    /\ Sound(folder.videos)
    /\ folder.avids \in (SUBSET Readings) \ {{}} /\ folder.name \in Readings \ {"padded"}

(* Names the code tells apart as it means to: "-5" is written without a     *)
(* letter or " (1)", and no lettered part lies beside a file of its number  *)
(* that has no letter. Without the first, a second copy of the phone rip is *)
(* taken for the main video; without the second, "-B" is filed before the   *)
(* file without a letter.                                                   *)
Understood(S) ==
    /\ \A v \in S : v.index = Phone => v.letter = 0 /\ ~v.copy
    /\ \A v, w \in S : Dashed /\ v.index = w.index /\ v.letter = 0 => w.letter = 0
PlainlyNamed == Understood(folder.videos)

(* What is among them has that too, and a name has its rank.                *)
LEMMA SoundSubset == ASSUME NEW S, Sound(S), NEW T \in SUBSET S PROVE Sound(T)
BY FS_Subset DEF Sound

LEMMA RankIs ==
    ASSUME NEW v \in VideoFiles
    PROVE  /\ NameRank(v) \in Nat
           /\ v.index \in 0..9 /\ v.letter \in 0..3 /\ v.tag \in Tags /\ v.copy \in BOOLEAN /\ v.size \in Nat
<1>1. v.index \in 0..9 /\ v.letter \in 0..3 /\ v.tag \in Tags /\ v.copy \in BOOLEAN /\ v.size \in Nat BY DEF VideoFiles
<1>2. QED BY <1>1 DEF NameRank, OrLast

(* Of videos of different rank each has its place.                          *)
LEMMA ByNameIs ==
    ASSUME NEW S, Sound(S), \A v, w \in S : NameRank(v) = NameRank(w) => v = w
    PROVE  /\ DOMAIN ByName(S) = 1..Cardinality(S)
           /\ {ByName(S)[k] : k \in DOMAIN ByName(S)} = S
           /\ \A k, l \in DOMAIN ByName(S) : k < l =>
                 /\ ByName(S)[k] \in S /\ ByName(S)[l] \in S
                 /\ NameRank(ByName(S)[k]) < NameRank(ByName(S)[l])
<1> DEFINE n == Cardinality(S)
           Upto(v) == {w \in S : NameRank(w) <= NameRank(v)}
           f == [v \in S |-> PlaceIn(v, S)]
<1>1. IsFiniteSet(S) /\ n \in Nat /\ \A v \in S : NameRank(v) \in Nat BY FS_CardinalityType, RankIs DEF Sound
<1>2. \A v \in S : PlaceIn(v, S) = Cardinality(Upto(v)) BY DEF PlaceIn
<1>3. \A T \in SUBSET S : IsFiniteSet(T) /\ Cardinality(T) \in Nat /\ Cardinality(T) <= n
  BY <1>1, FS_Subset, FS_CardinalityType
<1>4. \A v \in S : PlaceIn(v, S) \in 1..n
  <2>1. SUFFICES ASSUME NEW v \in S PROVE PlaceIn(v, S) \in 1..n OBVIOUS
  <2>2. v \in Upto(v) BY <1>1
  <2>3. Cardinality(Upto(v)) # 0 BY <1>3, <2>2, FS_EmptySet
  <2>4. Upto(v) \in SUBSET S OBVIOUS
  <2> HIDE DEF Upto
  <2>5. Cardinality(Upto(v)) \in Nat /\ Cardinality(Upto(v)) <= n BY <1>3, <2>4
  <2>6. QED BY <1>1, <1>2, <2>3, <2>5
<1>5. \A v, w \in S : NameRank(v) <= NameRank(w) => PlaceIn(v, S) <= PlaceIn(w, S)
  <2>1. SUFFICES ASSUME NEW v \in S, NEW w \in S, NameRank(v) <= NameRank(w) PROVE PlaceIn(v, S) <= PlaceIn(w, S) OBVIOUS
  <2>2. Upto(v) \in SUBSET Upto(w) /\ Upto(w) \in SUBSET S BY <1>1, <2>1
  <2> HIDE DEF Upto
  <2>3. Cardinality(Upto(v)) <= Cardinality(Upto(w)) BY <1>3, <2>2, FS_Subset
  <2>4. QED BY <1>2, <2>3
<1>6. \A v, w \in S : NameRank(v) < NameRank(w) => PlaceIn(v, S) # PlaceIn(w, S)
  <2>1. SUFFICES ASSUME NEW v \in S, NEW w \in S, NameRank(v) < NameRank(w), PlaceIn(v, S) = PlaceIn(w, S) PROVE FALSE
    OBVIOUS
  <2>2. Upto(v) \in SUBSET Upto(w) /\ Upto(w) \in SUBSET S /\ w \in Upto(w) /\ w \notin Upto(v) BY <1>1, <2>1
  <2>3. Cardinality(Upto(v)) = Cardinality(Upto(w)) BY <1>2, <2>1
  <2> HIDE DEF Upto
  <2>4. Upto(v) = Upto(w) BY <1>3, <2>2, <2>3, FS_Subset
  <2>5. QED BY <2>2, <2>4
<1>7. \A v, w \in S : PlaceIn(v, S) = PlaceIn(w, S) => v = w
  <2>1. SUFFICES ASSUME NEW v \in S, NEW w \in S, PlaceIn(v, S) = PlaceIn(w, S), v # w PROVE FALSE OBVIOUS
  <2>2. NameRank(v) < NameRank(w) \/ NameRank(w) < NameRank(v) BY <1>1, <2>1
  <2>3. QED BY <1>6, <2>1, <2>2
<1>8. f \in Injection(S, 1..n) BY <1>4, <1>7 DEF Injection, IsInjective
<1>9. IsFiniteSet(1..n) /\ Cardinality(1..n) = n BY <1>1, FS_Interval
<1>10. f \in Surjection(S, 1..n) BY <1>8, <1>9, FS_Injection
<1>11. \A k \in 1..n : \E v \in S : PlaceIn(v, S) = k BY <1>10 DEF Surjection
<1> HIDE DEF f, n, Upto
<1>12. \A k \in 1..n : ByName(S)[k] \in S /\ PlaceIn(ByName(S)[k], S) = k BY <1>11 DEF ByName, n
<1>13. DOMAIN ByName(S) = 1..n BY DEF ByName, n
<1>14. \A v \in S : ByName(S)[PlaceIn(v, S)] = v BY <1>4, <1>7, <1>12
<1>15. {ByName(S)[k] : k \in DOMAIN ByName(S)} = S BY <1>4, <1>12, <1>13, <1>14
<1>16. \A k, l \in 1..n : k < l => NameRank(ByName(S)[k]) < NameRank(ByName(S)[l])
  <2>1. SUFFICES ASSUME NEW k \in 1..n, NEW l \in 1..n, k < l, ~(NameRank(ByName(S)[k]) < NameRank(ByName(S)[l]))
                 PROVE FALSE
    OBVIOUS
  <2>2. NameRank(ByName(S)[l]) <= NameRank(ByName(S)[k]) BY <1>1, <1>12, <2>1
  <2>3. l <= k BY <1>5, <1>12, <2>2
  <2>4. QED BY <1>1, <2>1, <2>3
<1>17. QED BY <1>12, <1>13, <1>15, <1>16 DEF n

(* A run numbers each video, and once.                                      *)
LEMMA SortedIs ==
    ASSUME NEW number, IsFiniteSet(DOMAIN number), RunOf(number), number = [v \in DOMAIN number |-> number[v]]
    PROVE  /\ DOMAIN Sorted(number) = 1..Cardinality(DOMAIN number)
           /\ {Sorted(number)[k] : k \in DOMAIN Sorted(number)} = DOMAIN number
           /\ \A k \in DOMAIN Sorted(number) : Sorted(number)[k] \in DOMAIN number /\ number[Sorted(number)[k]] = k
<1> DEFINE D == DOMAIN number
           n == Cardinality(D)
<1>1. n \in Nat BY FS_CardinalityType
<1>2. \A v \in D : number[v] \in 1..n BY DEF RunOf
<1>3. \A k \in 1..n : \E v \in D : number[v] = k
  <2>1. 1..n = {number[v] : v \in D} BY DEF RunOf
  <2> HIDE DEF n, D
  <2>2. QED BY <2>1
<1>4. number \in Surjection(D, 1..n) BY <1>2, <1>3 DEF Surjection
<1>5. Cardinality(1..n) = n BY <1>1, FS_Interval
<1>6. number \in Injection(D, 1..n) BY <1>4, <1>5, FS_SurjSameCardinalityImpliesInj
<1>7. \A v, w \in D : number[v] = number[w] => v = w BY <1>6 DEF Injection, IsInjective
<1> HIDE DEF n, D
<1>8. \A k \in 1..n : Sorted(number)[k] \in D /\ number[Sorted(number)[k]] = k BY <1>3 DEF Sorted, n, D
<1>9. DOMAIN Sorted(number) = 1..n BY DEF Sorted, n, D
<1>10. \A v \in D : Sorted(number)[number[v]] = v BY <1>2, <1>7, <1>8
<1>11. {Sorted(number)[k] : k \in DOMAIN Sorted(number)} = D BY <1>2, <1>8, <1>9, <1>10
<1>12. QED BY <1>8, <1>9, <1>11 DEF n, D

(* What is to be shown of the videos that are kept, in their order.         *)
Ordered(q) ==
    \A k, l \in DOMAIN q : k < l =>
        q[k].index < q[l].index \/ (q[k].index = q[l].index /\ q[k].letter <= q[l].letter)
Stood(q, S) == \A v \in S \ {q[k] : k \in DOMAIN q} : \E w \in S : Lesser(v, w)

(* Parts of one set are told apart, and ranked, by index and letter.        *)
LEMMA PartsByName ==
    ASSUME NEW S, Sound(S), Understood(S), Cardinality(S) = 1 \/ MultiPart(S)
    PROVE  {ByName(S)[k] : k \in DOMAIN ByName(S)} = S /\ Ordered(ByName(S))
<1> DEFINE R(v) == NameRank(v)
           q == ByName(S)
<1>1. \A v \in S : v \in VideoFiles BY DEF Sound
<1>2. \A v, w \in S : R(v) = R(w) => v = w
  <2>1. CASE Cardinality(S) = 1
    <3>1. \E x : S = {x} BY <2>1, FS_Singleton DEF Sound
    <3>2. QED BY <3>1
  <2>2. CASE MultiPart(S)
    <3>1. SUFFICES ASSUME NEW v \in S, NEW w \in S, R(v) = R(w) PROVE SameName(v, w) BY DEF Sound
    <3>2. /\ v.index \in 0..9 /\ v.letter \in 0..3 /\ v.tag \in Tags /\ v.copy \in BOOLEAN
          /\ w.index \in 0..9 /\ w.letter \in 0..3 /\ w.tag \in Tags /\ w.copy \in BOOLEAN
      BY <1>1, RankIs
    <3>3. CASE /\ (v.index = 0) = (w.index = 0) /\ v.letter = w.letter
               /\ TagLetters(v.tag) = TagLetters(w.tag) /\ v.copy = w.copy
      <4>1. v.index = w.index /\ (v.tag = "2160p" <=> w.tag = "2160p") BY <3>1, <3>2, <3>3 DEF NameRank, OrLast
      <4>2. v.tag = w.tag BY <3>2, <3>3, <4>1 DEF TagLetters, Tags
      <4>3. QED BY <3>3, <4>1, <4>2 DEF SameName
    <3>4. CASE v.index = w.index /\ v.tag = w.tag /\ v.copy = w.copy
      <4>1. v.letter = w.letter BY <3>1, <3>2, <3>4 DEF NameRank, OrLast
      <4>2. QED BY <3>4, <4>1 DEF SameName
    <3>5. QED BY <2>2, <3>3, <3>4 DEF MultiPart
  <2>3. QED BY <2>1, <2>2
<1>3. /\ {q[k] : k \in DOMAIN q} = S
      /\ DOMAIN q = 1..Cardinality(S)
      /\ \A k, l \in DOMAIN q : k < l => q[k] \in S /\ q[l] \in S /\ R(q[k]) < R(q[l])
  BY <1>2, ByNameIs
<1>4. ASSUME NEW v \in S, NEW w \in S, R(v) < R(w), MultiPart(S)
      PROVE  v.index < w.index \/ (v.index = w.index /\ v.letter <= w.letter)
  <2>1. /\ v.index \in 0..9 /\ v.letter \in 0..3 /\ v.tag \in Tags
        /\ w.index \in 0..9 /\ w.letter \in 0..3 /\ w.tag \in Tags
    BY <1>1, RankIs
  <2>2. CASE (v.index = 0) = (w.index = 0) /\ v.letter = w.letter
    BY <1>4, <2>1, <2>2 DEF NameRank, OrLast
  <2>3. CASE Dashed /\ v.index = w.index /\ v.tag = w.tag
    <3>1. v.letter = 0 <=> w.letter = 0 BY <2>3 DEF Understood
    <3>2. QED BY <1>4, <2>1, <2>3, <3>1 DEF NameRank, OrLast
  <2>4. QED BY <1>4, <2>2, <2>3 DEF MultiPart
<1>5. Cardinality(S) = 1 => Ordered(q) BY <1>3 DEF Ordered
<1>6. MultiPart(S) => Ordered(q) BY <1>3, <1>4 DEF Ordered
<1>7. QED BY <1>3, <1>5, <1>6

(* Parts in a run of numbers or letters are all there, in its order.        *)
LEMMA PartsInRuns ==
    ASSUME NEW S, Sound(S), OrderAsParts(S) # <<>>
    PROVE  {OrderAsParts(S)[k] : k \in DOMAIN OrderAsParts(S)} = S /\ Ordered(OrderAsParts(S))
<1>1. \A v \in S : v.index \in 0..9 /\ v.letter \in 0..3 BY RankIs DEF Sound
<1>2. IsFiniteSet(S) BY DEF Sound
<1>3. CASE Plain(S) /\ RunOf(Indexed(S))
  <2> DEFINE q == Sorted(Indexed(S))
  <2>1. OrderAsParts(S) = q BY <1>3 DEF OrderAsParts
  <2>2. /\ {q[k] : k \in DOMAIN q} = S /\ \A k \in DOMAIN q : q[k] \in S /\ q[k].index = k
        /\ \A k \in DOMAIN q : k \in Nat
    <3>1. DOMAIN Indexed(S) = S /\ Indexed(S) = [v \in S |-> v.index] BY DEF Indexed
    <3>2. /\ DOMAIN q = 1..Cardinality(S) /\ {q[k] : k \in DOMAIN q} = S
          /\ \A k \in DOMAIN q : q[k] \in S /\ Indexed(S)[q[k]] = k
      BY <1>2, <1>3, <3>1, SortedIs
    <3> HIDE DEF q
    <3>3. QED BY <3>1, <3>2
  <2> HIDE DEF q
  <2>3. QED BY <2>1, <2>2 DEF Ordered
<1>4. CASE Plain(S) /\ RunOf(LeadFirst(S)) /\ ~(Plain(S) /\ RunOf(Indexed(S)))
  <2> DEFINE q == Sorted(LeadFirst(S))
  <2>1. \E v \in S : v.index = 0
    <3>1. SUFFICES ASSUME \A v \in S : v.index # 0 PROVE FALSE OBVIOUS
    <3>2. LeadFirst(S) = Indexed(S) BY <3>1 DEF LeadFirst, Indexed
    <3>3. QED BY <1>4, <3>2
  <2>2. OrderAsParts(S) = q BY <1>4, <2>1 DEF OrderAsParts
  <2>3. /\ {q[k] : k \in DOMAIN q} = S
        /\ \A k \in DOMAIN q : q[k] \in S /\ k = IF q[k].index = 0 THEN 1 ELSE q[k].index
        /\ \A k \in DOMAIN q : k \in Nat /\ k >= 1
    <3>1. DOMAIN LeadFirst(S) = S /\ LeadFirst(S) = [v \in S |-> IF v.index = 0 THEN 1 ELSE v.index] BY DEF LeadFirst
    <3>2. /\ DOMAIN q = 1..Cardinality(S) /\ {q[k] : k \in DOMAIN q} = S
          /\ \A k \in DOMAIN q : q[k] \in S /\ LeadFirst(S)[q[k]] = k
      BY <1>2, <1>4, <3>1, SortedIs
    <3> HIDE DEF q
    <3>3. QED BY <3>1, <3>2
  <2> HIDE DEF q
  <2>4. QED BY <1>1, <2>2, <2>3 DEF Ordered
<1>5. CASE /\ ~(Plain(S) /\ RunOf(Indexed(S))) /\ ~(Plain(S) /\ RunOf(LeadFirst(S)) /\ \E v \in S : v.index = 0)
  <2> DEFINE q == Sorted(Lettered(S))
  <2>1. /\ OrderAsParts(S) = q /\ RunOf(Lettered(S)) /\ \A v \in S : v.index = 0
    BY <1>5 DEF OrderAsParts
  <2>2. /\ {q[k] : k \in DOMAIN q} = S /\ \A k \in DOMAIN q : q[k] \in S /\ q[k].letter = k
        /\ \A k \in DOMAIN q : k \in Nat
    <3>1. DOMAIN Lettered(S) = S /\ Lettered(S) = [v \in S |-> v.letter] BY DEF Lettered
    <3>2. /\ DOMAIN q = 1..Cardinality(S) /\ {q[k] : k \in DOMAIN q} = S
          /\ \A k \in DOMAIN q : q[k] \in S /\ Lettered(S)[q[k]] = k
      BY <1>2, <2>1, <3>1, SortedIs
    <3> HIDE DEF q
    <3>3. QED BY <3>1, <3>2
  <2> HIDE DEF q
  <2>3. QED BY <2>1, <2>2 DEF Ordered
<1>6. QED
  <2>1. CASE Plain(S) /\ RunOf(LeadFirst(S)) /\ (\E v \in S : v.index = 0) /\ ~(Plain(S) /\ RunOf(Indexed(S)))
    BY <1>4, <2>1
  <2>2. QED BY <1>3, <1>5, <2>1

(* Of the cuts of one video the one marked high-resolution is kept, and of  *)
(* each video one.                                                          *)
LEMMA CollapseIs ==
    ASSUME NEW S, Sound(S), Collapse(S).told
    PROVE  /\ Collapse(S).kept \in SUBSET S
           /\ \A v \in S \ Collapse(S).kept : \E w \in S : Lesser(v, w)
           /\ \A v, w \in Collapse(S).kept : Base(v) = Base(w) /\ v.copy = w.copy => v = w
<1> DEFINE Group(v) == {w \in S : Base(w) = Base(v) /\ w.copy = v.copy}
           Highs(v) == {w \in Group(v) : High(w)}
           kept == {v \in S : Group(v) = {v} \/ High(v)}
<1>1. Collapse(S).kept = kept BY DEF Collapse
<1>2. \A v \in S : Cardinality(Group(v)) > 1 => Cardinality(Highs(v)) = 1 BY DEF Collapse
<1>3. \A v \in S : IsFiniteSet(Group(v)) /\ IsFiniteSet(Highs(v)) BY FS_Subset DEF Sound
<1>4. \A v \in S : v \in Group(v) OBVIOUS
<1>5. ASSUME NEW v \in S, Group(v) # {v} PROVE \E w \in Highs(v) : Highs(v) = {w}
  <2>1. Cardinality(Group(v)) \in Nat BY <1>3, FS_CardinalityType
  <2>2. Cardinality(Group(v)) # 0 BY <1>3, <1>4, FS_EmptySet
  <2>3. Cardinality(Group(v)) # 1
    <3>1. SUFFICES ASSUME Cardinality(Group(v)) = 1 PROVE FALSE OBVIOUS
    <3>2. \E x : Group(v) = {x} BY <1>3, <3>1, FS_Singleton
    <3>3. QED BY <1>4, <1>5, <3>2
  <2>4. Cardinality(Highs(v)) = 1 BY <1>2, <2>1, <2>2, <2>3
  <2>5. \E x : Highs(v) = {x} BY <1>3, <2>4, FS_Singleton
  <2>6. QED BY <2>5
<1>6. ASSUME NEW v \in S \ kept PROVE \E w \in S : Lesser(v, w)
  <2>1. Group(v) # {v} /\ ~High(v) OBVIOUS
  <2>2. PICK w \in Highs(v) : TRUE BY <1>5, <2>1
  <2>3. QED BY <2>1, <2>2 DEF Lesser
<1>7. ASSUME NEW v \in kept, NEW w \in kept, Base(v) = Base(w), v.copy = w.copy PROVE v = w
  <2>1. Group(v) = Group(w) /\ v \in Group(v) /\ w \in Group(v) BY <1>7
  <2>2. CASE Group(v) = {v} BY <2>1, <2>2
  <2>3. CASE Group(v) # {v}
    <3>1. Group(w) # {w} BY <2>1, <2>3
    <3>2. High(v) /\ High(w) BY <2>3, <3>1
    <3>3. v \in Highs(v) /\ w \in Highs(v) BY <2>1, <3>2
    <3>4. QED BY <1>5, <2>3, <3>3
  <2>4. QED BY <2>2, <2>3
<1>8. QED BY <1>1, <1>6, <1>7

(* So whichever way a folder is understood, the parts are in order and what *)
(* is left out is a lesser one of what is kept or of what is left out       *)
(* before.                                                                  *)
LEMMA ArrangeIs ==
    ASSUME NEW S, Sound(S), Understood(S), Arrange(S) # <<>>
    PROVE  Stood(Arrange(S), S) /\ Ordered(Arrange(S))
<1> DEFINE kept == Collapse(S).kept
<1>1. CASE Cardinality(S) = 1 \/ MultiPart(S)
  <2>1. Arrange(S) = ByName(S) BY <1>1 DEF Arrange
  <2>2. QED BY <1>1, <2>1, PartsByName DEF Stood
<1>2. CASE ~(Cardinality(S) = 1 \/ MultiPart(S))
  <2>1. Collapse(S).told BY <1>2 DEF Arrange
  <2>2. /\ kept \in SUBSET S /\ \A v \in S \ kept : \E w \in S : Lesser(v, w)
        /\ \A v, w \in kept : Base(v) = Base(w) /\ v.copy = w.copy => v = w
    BY <2>1, CollapseIs
  <2>3. Sound(kept) /\ Understood(kept) BY <2>2, SoundSubset DEF Understood
  <2>4. CASE Cardinality(kept) = 1
    <3>1. Arrange(S) = ByName(kept) BY <1>2, <2>1, <2>4 DEF Arrange
    <3> HIDE DEF kept
    <3>2. QED BY <2>2, <2>3, <2>4, <3>1, PartsByName DEF Stood
  <2>5. CASE Cardinality(kept) # 1 /\ OrderAsParts(kept) # <<>>
    <3>1. Arrange(S) = OrderAsParts(kept) BY <1>2, <2>1, <2>5 DEF Arrange
    <3> HIDE DEF kept
    <3>2. QED BY <2>2, <2>3, <2>5, <3>1, PartsInRuns DEF Stood
  <2>6. CASE Cardinality(kept) # 1 /\ OrderAsParts(kept) = <<>>
    <3> DEFINE m == CHOOSE v \in Mains(kept) : TRUE
    <3>1. Mains(kept) # {} /\ Arrange(S) = <<m>> BY <1>2, <2>1, <2>6 DEF Arrange
    <3> HIDE DEF kept
    <3>2. m \in kept /\ \A w \in kept \ {m} : w.index = Phone /\ w.letter = 0 /\ ~w.copy /\ 2 * w.size <= m.size
      BY <3>1 DEF Mains
    <3> HIDE DEF m
    <3>3. \A k \in DOMAIN <<m>> : k = 1 OBVIOUS
    <3>4. {<<m>>[k] : k \in DOMAIN <<m>>} = {m} OBVIOUS
    <3>5. Ordered(Arrange(S))
      <4>1. \A k, l \in DOMAIN <<m>> : ~(k < l) BY <3>3
      <4>2. QED BY <3>1, <4>1 DEF Ordered
    <3>6. ASSUME NEW v \in kept \ {m} PROVE Lesser(v, m)
      <4>1. v.index = Phone /\ v.letter = 0 /\ ~v.copy /\ 2 * v.size <= m.size BY <3>2
      <4>2. m.index # Phone
        <5>1. SUFFICES ASSUME m.index = Phone PROVE FALSE OBVIOUS
        <5>2. m.letter = 0 /\ ~m.copy BY <2>3, <3>2, <5>1 DEF Understood
        <5>3. m.copy \in BOOLEAN /\ v.copy \in BOOLEAN BY <2>3, <3>2, RankIs DEF Sound
        <5>4. Base(m) = Base(v) /\ m.copy = v.copy BY <4>1, <5>1, <5>2, <5>3 DEF Base
        <5>5. QED BY <2>2, <3>2, <5>4
      <4>3. QED BY <4>1, <4>2 DEF Lesser
    <3>7. Stood(Arrange(S), S) BY <2>2, <3>1, <3>2, <3>4, <3>6 DEF Stood
    <3>8. QED BY <3>5, <3>7
  <2>7. QED BY <2>4, <2>5, <2>6
<1>3. QED BY <1>1, <1>2

(* The title is the one expected, or the folder is left alone.              *)
LEMMA IdentifyIs ==
    ASSUME NEW avids \in (SUBSET Readings) \ {{}}, NEW name \in Readings \ {"padded"},
           Identify(avids, name, "own") # "unread"
    PROVE  /\ Identify(avids, name, "own") = "own"
           /\ \A a \in avids : a # "other" /\ (a = "unread" => avids = {"unread"} /\ name = "own")
<1>1. IsFiniteSet(avids) /\ Cardinality(avids) \in Nat
  <2>1. IsFiniteSet({"own"} \cup {"padded"} \cup {"other"} \cup {"unread"}) BY FS_Singleton, FS_Union
  <2>2. Readings = {"own"} \cup {"padded"} \cup {"other"} \cup {"unread"} BY DEF Readings
  <2>3. QED BY <2>1, <2>2, FS_Subset, FS_CardinalityType
<1>2. CASE Cardinality(avids) > 1
  <2>1. \A a \in avids : Equivalent(a) BY <1>2 DEF Identify
  <2>2. QED BY <1>2, <2>1 DEF Identify, Equivalent
<1>3. CASE ~(Cardinality(avids) > 1)
  <2>1. PICK a : avids = {a}
    <3>1. Cardinality(avids) # 0 BY <1>1, FS_EmptySet
    <3>2. Cardinality(avids) = 1 BY <1>1, <1>3, <3>1
    <3>3. QED BY <1>1, <3>2, FS_Singleton
  <2>2. (CHOOSE x \in avids : TRUE) = a BY <2>1
  <2>3. Identify(avids, name, "own") =
          (IF Equivalent(IF avids = {"unread"} THEN name ELSE a) THEN "own" ELSE "unread")
    BY <1>3, <2>2 DEF Identify
  <2>4. QED BY <2>1, <2>3 DEF Equivalent, Readings
<1>4. QED BY <1>2, <1>3

(* A folder to be judged.                                                   *)
LEMMA SelectionBegins == SelectionInit => FolderSound /\ verdict = Unjudged
<1> SUFFICES ASSUME SelectionInit PROVE FolderSound /\ verdict = Unjudged OBVIOUS
<1>1. PICK content \in Contents, avids \in (SUBSET Readings) \ {{}}, name \in Readings \ {"padded"}, wanted \in {"own", "unread"} :
          folder = [videos |-> Videos(content), avids |-> avids, name |-> name, wanted |-> wanted]
  BY DEF SelectionInit
<1>2. PICK N \in NameSets : content \in [N -> Sizes] BY DEF Contents
<1>3. IsFiniteSet(N) /\ N \in SUBSET Names
  <2>1. CASE N = {} BY <2>1, FS_EmptySet
  <2>2. CASE N # {}
    <3>1. PICK f \in [1..MaxVideos -> Names] : N = {f[k] : k \in 1..MaxVideos} BY <2>2 DEF NameSets
    <3>2. IsFiniteSet(1..MaxVideos) BY SelectionAssumption, FS_Interval
    <3>3. f \in Surjection(1..MaxVideos, N) BY <3>1 DEF Surjection
    <3>4. QED BY <3>1, <3>2, <3>3, FS_Surjection
  <2>3. QED BY <2>1, <2>2
<1> DEFINE V(n) == [index |-> n.index, letter |-> n.letter, tag |-> n.tag, copy |-> n.copy, size |-> content[n]]
<1>4. Videos(content) = {V(n) : n \in N} BY <1>2 DEF Videos
<1>5. \A n \in N : n \in [index : 0..9, letter : 0..3, tag : Tags, copy : BOOLEAN] /\ content[n] \in Nat
  BY <1>2, <1>3, SelectionAssumption
<1>6. Videos(content) \in SUBSET VideoFiles BY <1>4, <1>5 DEF VideoFiles
<1>7. IsFiniteSet(Videos(content))
  <2> DEFINE g == [n \in N |-> V(n)]
  <2>1. g \in Surjection(N, Videos(content)) BY <1>4 DEF Surjection
  <2> HIDE DEF g
  <2>2. QED BY <1>3, <2>1, FS_Surjection
<1>8. ASSUME NEW v \in Videos(content), NEW w \in Videos(content), SameName(v, w) PROVE v = w
  <2>1. PICK n \in N : v = V(n) BY <1>4
  <2>2. PICK m \in N : w = V(m) BY <1>4
  <2>3. n.index = m.index /\ n.letter = m.letter /\ n.tag = m.tag /\ n.copy = m.copy BY <1>8, <2>1, <2>2 DEF SameName
  <2>4. n = m BY <1>5, <2>3
  <2>5. QED BY <2>1, <2>2, <2>4
<1>9. Sound(Videos(content)) BY <1>6, <1>7, <1>8 DEF Sound
<1>10. QED BY <1>1, <1>9 DEF FolderSound, SelectionInit

(* What ArchivePipeline._select_videos and _arrange_videos leave out of a   *)
(* folder, and so delete with it, is a copy, a lesser cut or a phone rip of *)
(* another of its videos; parts are numbered as they are named; and a       *)
(* folder with an expected title is filed under that one or not at all: for *)
(* any number, names and sizes of the videos, as long as the names are      *)
(* plain.                                                                   *)
THEOREM SelectionStaysRight == SelectionSpec /\ PlainlyNamed => []SelectionRight
<1> DEFINE Inv == FolderSound /\ PlainlyNamed /\ SelectionRight
<1>1. SelectionInit /\ PlainlyNamed => Inv
  BY SelectionBegins DEF SelectionRight, OnlyLesserCutsDropped, PartsInOrder, FiledAsExpected, Selected, Unjudged
<1>2. ASSUME Inv, [SelectionNext]_selectionVars PROVE Inv'
  <2>1. folder' = folder BY <1>2 DEF SelectionNext, Judge, selectionVars
  <2>2. FolderSound' /\ PlainlyNamed' BY <1>2, <2>1 DEF FolderSound, PlainlyNamed
  <2>3. CASE UNCHANGED selectionVars
    BY <1>2, <2>2, <2>3 DEF selectionVars, SelectionRight, OnlyLesserCutsDropped, PartsInOrder, FiledAsExpected, Selected, Kept
  <2>4. CASE Judge
    <3> DEFINE S == Originals(folder.videos)
               avid == Identify(folder.avids, folder.name, folder.wanted)
               videos == Arrange(S)
    <3>1. SUFFICES ASSUME Selected' PROVE SelectionRight'
      BY <2>2 DEF SelectionRight, OnlyLesserCutsDropped, PartsInOrder, FiledAsExpected
    <3>2. verdict' = [outcome |-> "selected", avid |-> avid, videos |-> videos] /\ avid # "unread" /\ videos # <<>>
      BY <2>4, <3>1 DEF Judge, Selected, Attention
    <3>3. S \in SUBSET folder.videos /\ \A v \in folder.videos \ S : \E w \in folder.videos : Lesser(v, w)
      BY DEF Originals, Lesser
    <3>4. Sound(S) /\ Understood(S) BY <1>2, <3>3, SoundSubset DEF FolderSound, PlainlyNamed, Understood
    <3>5. Stood(videos, S) /\ Ordered(videos) BY <3>2, <3>4, ArrangeIs
    <3>6. verdict'.videos = videos /\ verdict'.avid = avid BY <3>2
    <3> HIDE DEF videos, S
    <3>7. Kept' = {videos[k] : k \in DOMAIN videos} BY <3>6 DEF Kept
    <3>8. OnlyLesserCutsDropped' BY <2>1, <3>3, <3>5, <3>7 DEF OnlyLesserCutsDropped, Stood
    <3>9. PartsInOrder' BY <3>5, <3>6 DEF PartsInOrder, Ordered
    <3>10. FiledAsExpected'
      <4>1. SUFFICES ASSUME folder.wanted = "own"
                     PROVE  avid = "own" /\ \A a \in folder.avids : a # "other" /\ (a = "unread" => folder.avids = {"unread"} /\ folder.name = "own")
        BY <2>1, <3>6 DEF FiledAsExpected
      <4>2. avid = Identify(folder.avids, folder.name, "own") BY <4>1
      <4> HIDE DEF avid
      <4>3. QED BY <1>2, <3>2, <4>2, IdentifyIs DEF FolderSound
    <3>11. QED BY <3>8, <3>9, <3>10 DEF SelectionRight
  <2>5. QED BY <1>2, <2>2, <2>3, <2>4 DEF SelectionNext
<1>3. Inv => SelectionRight OBVIOUS
<1>4. QED BY <1>1, <1>2, <1>3, PTL DEF SelectionSpec
=============================================================================
