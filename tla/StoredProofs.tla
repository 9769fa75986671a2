----------------------------- MODULE StoredProofs -----------------------------
(***************************************************************************)
(* What is kept for a later decision stays right, proved for any bounds:   *)
(* the fill actor's plans, what a scan of the cloud drive says, what the   *)
(* migrations leave, the settings of several replicas, what automatic      *)
(* merging remembers and what a merge Job left on its volume.  Each part   *)
(* has its own specification and its own inductive invariant.              *)
(***************************************************************************)
EXTENDS FillActorPlans, CloudPlanning, SchemaMigrations, ConfigStore, AutoMerge, MergeWorker, TLAPS, FiniteSetTheorems,
        WellFoundedInduction

-----------------------------------------------------------------------------
(* Plans: types, and what scans, applies, journals and purges may rely on.  *)

ScanPcs == {"actors", "titles", "extra", "queue", "save", "finish"}
Scannings == [pc : ScanPcs, version : Versions, actors : SUBSET Actors, partial : BOOLEAN,
              titles : SUBSET PlanTitles, current : PlanTitles \cup {Nothing},
              found : [Files -> {0} \cup Versions], missing : SUBSET PlanTitles]
Applyings == [pc : {"none", "asked", "queued", "called", "moving"}, plan : PlanIds \cup {Nothing},
              left : SUBSET Files, at : Files \cup {Nothing},
              to : {Staging[v] : v \in Versions} \cup {Nothing}, how : {"none", "move", "recover", "moved"}]
PlanJobs == [state : {"absent", "queued", "running", "failed", "completed", "partial_failed"},
             plan : PlanIds \cup {Nothing}]

PlanTypes ==
    /\ settings \in Versions
    /\ plan \in [PlanIds -> {NoPlan} \cup [version : Versions, fresh : BOOLEAN, found : [Files -> {0} \cup Versions]]]
    /\ answer \in [PlanIds -> [Files -> {"none", "moved", "kept"}]]
    /\ journal \subseteq PlanIds \X Files
    /\ job \in [PlanIds \cup Requests -> PlanJobs]
    /\ scan \in [PlanIds -> {NoScan} \cup Scannings]
    /\ apply \in [Appliers -> Applyings]
    /\ purging \subseteq PlanIds

(* Files are in the libraries, or in a staging directory of their time.     *)
PlacesKnown ==
    /\ place \in [Files -> {"brand", "extra"} \cup {Staging[v] : v \in Versions}]
    /\ \A f \in Files : place[f] \in {"brand", "extra"} \cup {Staging[v] : v \in 1 .. settings}

(* A title is to be looked up, or accounted for.                            *)
Counted(p, t) ==
    \/ t \in scan[p].titles \cup scan[p].missing \cup wanted
    \/ scan[p].pc = "extra" /\ t = scan[p].current
    \/ \E f \in Files : VideoTitle[f] = t

(* The plan of a scan is not stored before its end; what it found is of the *)
(* settings from its begin on, or of those alone once it looked again.      *)
ScanSound(p) ==
    /\ job[p].state \notin Finished \cup {"absent", "queued"}
    /\ scan[p].pc # "finish" => plan[p] = NoPlan
    /\ scan[p].pc = "extra" => scan[p].current \in PlanTitles
    /\ scan[p].version <= settings
    /\ \A f \in Files : scan[p].found[f] # 0 => scan[p].version <= scan[p].found[f] /\ scan[p].found[f] <= settings
    /\ scan[p].pc \in {"save", "finish"} => \A f \in Files : scan[p].found[f] \in {0, scan[p].version}

ScanCounts(p) ==
    /\ scan[p].pc # "actors" => scan[p].actors = {}
    /\ scan[p].pc \notin {"actors", "titles", "extra"} => scan[p].titles = {}
    /\ scan[p].pc \in {"save", "finish"} => scan[p].missing = {}
    /\ ~scan[p].partial => \A a \in Actors \ scan[p].actors : \A t \in ListedBy[a] : Counted(p, t)

ScansSound == \A p \in PlanIds : scan[p].pc # "none" => ScanSound(p) /\ ScanCounts(p)

UnbegunIsEmpty == \A p \in PlanIds : job[p].state \in {"absent", "queued"} => plan[p] = NoPlan /\ scan[p].pc = "none"

(* An apply is of a finished plan; a job that moves its files keeps it.     *)
ApplySound(a) ==
    /\ apply[a].plan \in PlanIds /\ job[apply[a].plan].state \in Finished
    /\ plan[apply[a].plan] # NoPlan => apply[a].left \subseteq Candidates(apply[a].plan)
    /\ a \in Requests /\ apply[a].pc \in {"queued", "called"} =>
          job[a].plan = apply[a].plan \/ plan[apply[a].plan] = NoPlan
    /\ a \in Requests /\ apply[a].pc = "moving" /\ Active(a) =>
          job[a].plan = apply[a].plan /\ apply[a].plan \notin purging

AppliesSound == \A a \in Appliers : apply[a].pc # "none" => ApplySound(a)

OneMoves == \A a, b \in Appliers : apply[a].pc = "moving" /\ apply[b].pc = "moving" => a = b

PurgedAreStale == \A p \in purging : plan[p] # NoPlan /\ ~plan[p].fresh

(* A journal is of a candidate of a stored plan; a purge under way takes it *)
(* only of a file that is known as orphaned.                                *)
JournalSound(p, f) ==
    /\ plan[p] # NoPlan /\ f \in Candidates(p)
    /\ job[p].state \in Finished
    /\ p \in purging => f \in orphaned

JournalsSound == \A p \in PlanIds, f \in Files : <<p, f>> \in journal => JournalSound(p, f)

(* Where a file is was reported, or has a journal of a plan other than q.   *)
Reported(f, q) ==
    \/ f \in delivered \cup orphaned
    \/ \E p \in PlanIds \ {q} : <<p, f>> \in journal /\ Target(p, f) = place[f]

(* The file an apply is at.                                                 *)
TakenUp(a) ==
    LET f == apply[a].at
        p == apply[a].plan
    IN  /\ apply[a].pc = "moving" /\ apply[a].how # "none"
        /\ f \in orphaned \/ (<<p, f>> \in journal /\ Target(p, f) = apply[a].to)
        /\ apply[a].how = "move" /\ place[f] = Staging[settings] => Reported(f, p)

TakenUpSound == \A a \in Appliers : apply[a].at # Nothing => TakenUp(a)

StagedIsReported == \A f \in Files : place[f] = Staging[settings] => Reported(f, Nothing)

PlansInv ==
    /\ PlanTypes /\ PlacesKnown
    /\ ScansSound /\ UnbegunIsEmpty /\ AppliesSound /\ OneMoves /\ PurgedAreStale /\ JournalsSound
    /\ TakenUpSound /\ StagedIsReported
    /\ PlanOfOneConfig /\ CompletedAccounts

(* A staging directory that was given up is not returned to.                *)
NeverReturned ==
    \A u, v, w \in Versions : u <= v /\ v <= w /\ Staging[u] = Staging[w] => Staging[v] = Staging[u]

(* Versions are numbers from 1 on: no stored plan is NoPlan.                *)
LEMMA VersionsAreNumbers ==
    Versions \subseteq Nat \ {0} /\ 1 \in Versions /\ \A v \in Versions : 1 .. v \subseteq Versions
<1>1. \A n \in Nat : Versions = 1 .. n /\ Versions # {} =>
          Versions \subseteq Nat \ {0} /\ 1 \in Versions /\ \A v \in Versions : \A u \in 1 .. v : u \in Versions
  <2>1. SUFFICES ASSUME NEW n \in Nat, Versions = 1 .. n, n >= 1
        PROVE Versions \subseteq Nat \ {0} /\ 1 \in Versions /\ \A v \in Versions : \A u \in 1 .. v : u \in Versions
    OBVIOUS
  <2>2. QED BY <2>1, SMT
<1>2. Cardinality(Versions) \in Nat BY PlansAssumption, FS_CardinalityType
<1>3. QED BY <1>1, <1>2, PlansAssumption

LEMMA NewIsKnown ==
    ASSUME PlanTypes, NEW p \in PlanIds, plan[p] # NoPlan
    PROVE  plan[p] \in [version : Versions, fresh : BOOLEAN, found : [Files -> {0} \cup Versions]]
BY DEF PlanTypes

LEMMA StoredIsNotNone ==
    ASSUME NEW v \in Versions, NEW b, NEW g PROVE [version |-> v, fresh |-> b, found |-> g] # NoPlan
BY VersionsAreNumbers DEF NoPlan

LEMMA PlansInvAtFirst == ASSUME PlansInit PROVE PlansInv
<1>1. PlanTypes
  <2>1. NoApply \in Applyings BY DEF NoApply, Applyings
  <2>2. Absent \in PlanJobs BY DEF Absent, PlanJobs
  <2>3. Unanswered \in [Files -> {"none", "moved", "kept"}] BY DEF Unanswered
  <2>4. QED BY <2>1, <2>2, <2>3, VersionsAreNumbers DEF PlansInit, PlanTypes
<1>2. \A p \in PlanIds : scan[p].pc = "none" /\ plan[p] = NoPlan /\ job[p].state = "absent"
  BY DEF PlansInit, NoScan, Absent
<1>3. \A a \in Appliers : apply[a].pc = "none" /\ apply[a].at = Nothing BY DEF PlansInit, NoApply
<1>4. PlacesKnown BY DEF PlansInit, PlacesKnown
<1>5. ScansSound /\ UnbegunIsEmpty /\ PlanOfOneConfig /\ CompletedAccounts
  BY <1>2 DEF ScansSound, UnbegunIsEmpty, PlanOfOneConfig, CompletedAccounts
<1>6. AppliesSound /\ OneMoves /\ TakenUpSound BY <1>3 DEF AppliesSound, OneMoves, TakenUpSound
<1>7. PurgedAreStale /\ JournalsSound BY DEF PlansInit, PurgedAreStale, JournalsSound
<1>8. StagedIsReported
  <2>1. \A f \in Files : place[f] # Staging[settings]
    BY PlansAssumption, VersionsAreNumbers DEF PlansInit
  <2>2. QED BY <2>1 DEF StagedIsReported
<1>9. QED BY <1>1, <1>4, <1>5, <1>6, <1>7, <1>8 DEF PlansInv

-----------------------------------------------------------------------------
(* What a step leaves as it is.                                             *)

(* Scans go on or stop, and are told of no new plan.                        *)
ScansLeft ==
    /\ \A p \in PlanIds :
          /\ job'[p].state = job[p].state
          /\ scan'[p] = scan[p] \/ scan'[p].pc = "none"
          /\ plan[p] = NoPlan => plan'[p] = NoPlan
    /\ settings <= settings' /\ wanted \subseteq wanted'

(* Plans keep what they are of and what they found, unless they go.         *)
PlansLeft ==
    \A p \in PlanIds :
        plan'[p] = NoPlan
            \/ (plan[p] # NoPlan /\ plan'[p].found = plan[p].found /\ plan'[p].version = plan[p].version)

FinishedStay == \A p \in PlanIds : job[p].state \in Finished => job'[p].state \in Finished

(* The plan of a finished scan is stored no more.                           *)
StoredStay ==
    \A p \in PlanIds : job[p].state \in Finished =>
        plan'[p] = NoPlan \/ (plan[p] # NoPlan /\ plan'[p].found = plan[p].found)

AppliesLeft ==
    /\ FinishedStay /\ StoredStay
    /\ \A a \in Appliers : apply'[a] = apply[a] \/ (apply'[a].pc = "none" /\ apply'[a].at = Nothing)
    /\ \A r \in Requests :
          /\ job'[r].plan = job[r].plan \/ (job[r].plan \in purging /\ plan'[job[r].plan] = NoPlan)
          /\ Active(r)' => Active(r)
    /\ \A p \in purging' : p \in purging \/ ~Needed(p)

JournalsLeft ==
    /\ FinishedStay /\ StoredStay
    /\ journal' \subseteq journal /\ orphaned \subseteq orphaned'
    /\ \A c \in journal' : plan'[c[1]] # NoPlan
    /\ \A p \in purging' : p \in purging \/ ~Needed(p)

PlacesLeft ==
    /\ settings' = settings /\ place' = place
    /\ delivered \subseteq delivered' /\ orphaned \subseteq orphaned' /\ journal \subseteq journal'
    /\ \A p \in PlanIds, f \in Files : <<p, f>> \in journal => plan'[p].found = plan[p].found

LEMMA ScansKeep ==
    ASSUME PlansInv, ScansLeft, settings' \in Versions PROVE ScansSound' /\ UnbegunIsEmpty' /\ CompletedAccounts'
<1>1. ScansSound'
  <2>1. SUFFICES ASSUME NEW p \in PlanIds, scan'[p].pc # "none" PROVE ScanSound(p)' /\ ScanCounts(p)'
    BY DEF ScansSound
  <2>2. scan'[p] = scan[p] /\ ScanSound(p) /\ ScanCounts(p) BY <2>1 DEF ScansLeft, PlansInv, ScansSound
  <2>3. scan[p] \in Scannings /\ settings \in Versions /\ settings' \in Versions /\ settings <= settings'
    BY <2>1, <2>2 DEF PlansInv, PlanTypes, NoScan, ScansLeft
  <2>4. ScanSound(p)'
    <3>1. scan[p].version \in Nat /\ settings \in Nat /\ settings' \in Nat /\ \A f \in Files : scan[p].found[f] \in Nat
      <4>1. scan[p].version \in Versions /\ scan[p].found \in [Files -> {0} \cup Versions] BY <2>3 DEF Scannings
      <4>2. \A v \in {0} \cup Versions : v \in Nat BY VersionsAreNumbers
      <4>3. QED BY <2>3, <4>1, <4>2
    <3>2. scan'[p].version <= settings' BY <2>2, <2>3, <3>1 DEF ScanSound
    <3>3. \A f \in Files : scan'[p].found[f] # 0 =>
              scan'[p].version <= scan'[p].found[f] /\ scan'[p].found[f] <= settings'
      BY <2>2, <2>3, <3>1 DEF ScanSound
    <3>4. QED BY <2>2, <3>2, <3>3, <2>1 DEF ScanSound, ScansLeft
  <2>5. ScanCounts(p)'
    <3>1. \A t : Counted(p, t) => Counted(p, t)' BY <2>2 DEF Counted, ScansLeft
    <3>2. QED BY <2>2, <3>1 DEF ScanCounts
  <2>6. QED BY <2>4, <2>5
<1>2. UnbegunIsEmpty' BY DEF PlansInv, UnbegunIsEmpty, ScansLeft
<1>3. CompletedAccounts' BY DEF PlansInv, CompletedAccounts, ScansLeft
<1>4. QED BY <1>1, <1>2, <1>3

LEMMA PlansKeep == ASSUME PlansInv, PlansLeft PROVE PlanOfOneConfig'
BY DEF PlansInv, PlansLeft, PlanOfOneConfig, Candidates

LEMMA AppliesKeep == ASSUME PlansInv, AppliesLeft PROVE AppliesSound' /\ OneMoves'
<1>1. AppliesSound'
  <2>1. SUFFICES ASSUME NEW a \in Appliers, apply'[a].pc # "none" PROVE ApplySound(a)'
    BY DEF AppliesSound
  <2>2. apply'[a] = apply[a] /\ ApplySound(a) BY <2>1 DEF AppliesLeft, PlansInv, AppliesSound
  <2> DEFINE p == apply[a].plan
  <2>3. p \in PlanIds /\ job[p].state \in Finished /\ job'[p].state \in Finished
    BY <2>2 DEF ApplySound, AppliesLeft, FinishedStay
  <2>4. plan'[p] = NoPlan \/ (plan[p] # NoPlan /\ plan'[p].found = plan[p].found)
    BY <2>3 DEF AppliesLeft, StoredStay
  <2>5. plan'[p] # NoPlan => apply[a].left \subseteq {f \in Files : plan'[p].found[f] # 0}
    BY <2>2, <2>4 DEF ApplySound, Candidates
  <2>6. a \in Requests /\ apply[a].pc \in {"queued", "called"} => job'[a].plan = p \/ plan'[p] = NoPlan
    BY <2>2, <2>4 DEF ApplySound, AppliesLeft
  <2>7. ASSUME a \in Requests, apply[a].pc = "moving", Active(a)' PROVE job'[a].plan = p /\ p \notin purging'
    <3>1. Active(a) /\ job[a].plan = p /\ p \notin purging BY <2>2, <2>7 DEF ApplySound, AppliesLeft
    <3>2. Needed(p) BY <2>7, <3>1 DEF Needed
    <3>3. QED BY <2>7, <3>1, <3>2 DEF AppliesLeft
  <2>8. QED BY <2>2, <2>3, <2>5, <2>6, <2>7 DEF ApplySound, Candidates
<1>2. OneMoves' BY DEF AppliesLeft, PlansInv, OneMoves
<1>3. QED BY <1>1, <1>2

LEMMA JournalsKeep == ASSUME PlansInv, JournalsLeft PROVE JournalsSound'
<1>1. SUFFICES ASSUME NEW p \in PlanIds, NEW f \in Files, <<p, f>> \in journal' PROVE JournalSound(p, f)'
  BY DEF JournalsSound
<1>2. <<p, f>> \in journal /\ JournalSound(p, f) /\ Needed(p)
  BY <1>1 DEF JournalsLeft, PlansInv, JournalsSound, Needed
<1>3. plan'[p] # NoPlan BY <1>1 DEF JournalsLeft
<1>4. plan'[p].found = plan[p].found /\ job'[p].state \in Finished
  BY <1>2, <1>3 DEF JournalSound, JournalsLeft, StoredStay, FinishedStay
<1>5. p \in purging' => f \in orphaned' BY <1>2 DEF JournalSound, JournalsLeft
<1>6. QED BY <1>2, <1>3, <1>4, <1>5 DEF JournalSound, Candidates

LEMMA ReportsLeft ==
    ASSUME PlansInv, PlacesLeft, NEW f \in Files, NEW q, Reported(f, q) PROVE Reported(f, q)'
BY DEF Reported, PlacesLeft, Target

LEMMA PlacesKeep ==
    ASSUME PlansInv, PlacesLeft, NEW a \in Appliers, apply'[a] = apply[a], apply[a].at # Nothing PROVE TakenUp(a)'
<1>1. TakenUp(a) /\ apply[a] \in Applyings BY DEF PlansInv, TakenUpSound, PlanTypes
<1> DEFINE f == apply[a].at
           p == apply[a].plan
<1>2. f \in Files BY <1>1 DEF Applyings
<1>3. p \in PlanIds BY <1>1 DEF TakenUp, PlansInv, AppliesSound, ApplySound
<1>4. f \in orphaned' \/ (<<p, f>> \in journal' /\ Staging[plan'[p].found[f]] = apply[a].to)
  BY <1>1, <1>2, <1>3 DEF TakenUp, Target, PlacesLeft
<1>5. apply[a].how = "move" /\ place'[f] = Staging[settings'] => Reported(f, p)'
  BY <1>1, <1>2, ReportsLeft DEF TakenUp, PlacesLeft
<1>6. apply'[a].at = f /\ apply'[a].plan = p /\ apply'[a].pc = "moving" /\ apply'[a].how # "none"
  BY <1>1 DEF TakenUp
<1>7. QED BY <1>1, <1>4, <1>5, <1>6 DEF TakenUp, Target

LEMMA StagedKeep == ASSUME PlansInv, PlacesLeft PROVE StagedIsReported'
BY ReportsLeft DEF PlansInv, StagedIsReported, PlacesLeft

-----------------------------------------------------------------------------
(* The steps of scans: of one scan, and its job.                            *)

ScanStepOf(p) ==
    /\ UNCHANGED <<settings, place, rows, apply>>
    /\ wanted \subseteq wanted'
    /\ \A q \in PlanIds \ {p} : scan'[q] = scan[q] /\ job'[q] = job[q]
    /\ \A r \in Requests : job'[r].plan = job[r].plan /\ (Active(r)' => Active(r))
    /\ job[p].state \in Finished => job'[p].state \in Finished

LEMMA ScanStepKeeps ==
    ASSUME PlansInv, NEW p \in PlanIds, ScanStepOf(p), PlanTypes',
           scan'[p].pc # "none" => ScanSound(p)' /\ ScanCounts(p)',
           job'[p].state \in {"absent", "queued"} => job[p].state \in {"absent", "queued"} /\ scan'[p].pc = "none",
           job'[p].state = "completed" => job[p].state = "completed"
              \/ \A a \in Actors : \A t \in ListedBy[a] : t \in wanted' \/ \E f \in Files : VideoTitle[f] = t
    PROVE  PlansInv'
<1> USE DEF ScanStepOf, rows
<1>1. ScansSound'
  <2>1. SUFFICES ASSUME NEW q \in PlanIds, q # p, scan'[q].pc # "none" PROVE ScanSound(q)' /\ ScanCounts(q)'
    BY DEF ScansSound
  <2>2. scan'[q] = scan[q] /\ job'[q] = job[q] /\ ScanSound(q) /\ ScanCounts(q)
    BY <2>1 DEF PlansInv, ScansSound
  <2>3. \A t : Counted(q, t) => Counted(q, t)' BY <2>2 DEF Counted
  <2>4. QED BY <2>2, <2>3 DEF ScanSound, ScanCounts
<1>2. UnbegunIsEmpty' BY DEF PlansInv, UnbegunIsEmpty
<1>3. CompletedAccounts'
  <2>1. SUFFICES ASSUME NEW q \in PlanIds, job'[q].state = "completed"
        PROVE \A a \in Actors : \A t \in ListedBy[a] : t \in wanted' \/ \E f \in Files : VideoTitle[f] = t
    BY DEF CompletedAccounts
  <2>2. CASE job[q].state = "completed" BY <2>2 DEF PlansInv, CompletedAccounts
  <2>3. CASE job[q].state # "completed" BY <2>1, <2>3
  <2>4. QED BY <2>2, <2>3
<1>4. PlansLeft BY DEF PlansLeft, PlansInv, PlanTypes
<1>5. FinishedStay /\ StoredStay
  BY DEF FinishedStay, StoredStay
<1>6. AppliesLeft BY <1>5 DEF AppliesLeft
<1>7. JournalsLeft
  <2>1. \A c \in journal : plan[c[1]] # NoPlan
    <3>1. \A c \in journal : c[1] \in PlanIds /\ c[2] \in Files /\ c = <<c[1], c[2]>>
      BY DEF PlansInv, PlanTypes
    <3>2. QED BY <3>1 DEF PlansInv, JournalsSound, JournalSound
  <2>2. QED BY <1>5, <2>1 DEF JournalsLeft
<1>8. PlacesLeft BY DEF PlacesLeft
<1>9. TakenUpSound'
  <2>1. SUFFICES ASSUME NEW a \in Appliers, apply[a].at # Nothing PROVE TakenUp(a)' BY DEF TakenUpSound
  <2>2. QED BY <2>1, <1>8, PlacesKeep
<1>10. PlacesKnown' BY DEF PlansInv, PlacesKnown
<1>11. PurgedAreStale' BY DEF PlansInv, PurgedAreStale
<1>12. QED BY <1>1, <1>2, <1>3, <1>4, <1>6, <1>7, <1>8, <1>9, <1>10, <1>11,
              PlansKeep, AppliesKeep, JournalsKeep, StagedKeep DEF PlansInv

(* A scan at work.                                                          *)
LEMMA AtWork ==
    ASSUME PlansInv, NEW p \in PlanIds, scan[p].pc # "none"
    PROVE  scan[p] \in Scannings /\ ScanSound(p) /\ ScanCounts(p)
BY DEF PlansInv, PlanTypes, ScansSound, NoScan

LEMMA ScansIs ==
    ASSUME PlanTypes, NEW p \in PlanIds, NEW s \in {NoScan} \cup Scannings, Scans(p, s)
    PROVE  /\ scan' \in [PlanIds -> {NoScan} \cup Scannings]
           /\ scan'[p] = s /\ \A q \in PlanIds \ {p} : scan'[q] = scan[q]
BY DEF PlanTypes, Scans

Looking == {"actors", "titles", "extra", "queue"}

(* A step of a scan that has not looked at the settings again yet.          *)
LEMMA LookingKeeps ==
    ASSUME PlansInv, NEW p \in PlanIds, scan[p].pc \in Looking, NEW s \in Scannings, Scans(p, s),
           s.pc \in Looking, s.version = scan[p].version, s.pc = "extra" => s.current \in PlanTitles,
           \A f \in Files : s.found[f] \in {scan[p].found[f], settings},
           UNCHANGED <<settings, place, rows, job, apply>>, wanted \subseteq wanted', ScanCounts(p)'
    PROVE  PlansInv'
<1>1. scan[p].pc # "none" /\ s.pc \notin {"save", "finish"} BY DEF Looking
<1>2. scan[p] \in Scannings /\ ScanSound(p) BY <1>1, AtWork
<1>3. /\ scan' \in [PlanIds -> {NoScan} \cup Scannings]
      /\ scan'[p] = s /\ \A q \in PlanIds \ {p} : scan'[q] = scan[q]
  BY ScansIs DEF PlansInv
<1>4. PlanTypes' BY <1>3 DEF PlansInv, PlanTypes, rows
<1>5. ScanSound(p)'
  <2>1. scan[p].version \in Nat /\ settings \in Nat BY <1>2, VersionsAreNumbers DEF Scannings, PlansInv, PlanTypes
  <2>2. \A f \in Files : s.found[f] # 0 => scan[p].version <= s.found[f] /\ s.found[f] <= settings
    BY <1>2, <2>1 DEF ScanSound
  <2>3. plan[p] = NoPlan BY <1>2 DEF ScanSound, Looking
  <2>4. QED BY <1>1, <1>2, <1>3, <2>2, <2>3 DEF ScanSound, rows
<1>6. ScanStepOf(p) BY <1>3 DEF ScanStepOf, rows, Active
<1>7. job'[p].state \notin {"absent", "queued"} BY <1>2 DEF ScanSound
<1>8. QED BY <1>4, <1>5, <1>6, <1>7, ScanStepKeeps

LEMMA ListActorKeeps == ASSUME PlansInv, NEW p \in PlanIds, ListActor(p) PROVE PlansInv'
<1>1. scan[p].pc = "actors" /\ UNCHANGED <<settings, place, wanted, rows, job, apply>>
  BY DEF ListActor, ScanAt, library
<1>2. scan[p] \in Scannings /\ ScanCounts(p) BY <1>1, AtWork
<1>3. ASSUME NEW a \in scan[p].actors,
             Scans(p, [scan[p] EXCEPT !.actors = @ \ {a}, !.titles = @ \cup ListedBy[a]])
      PROVE PlansInv'
  <2> DEFINE s == [scan[p] EXCEPT !.actors = @ \ {a}, !.titles = @ \cup ListedBy[a]]
  <2>1. ListedBy[a] \subseteq PlanTitles /\ a \in Actors BY <1>2, PlansAssumption DEF Scannings
  <2>2. s \in Scannings BY <1>2, <2>1 DEF Scannings
  <2>3. /\ s.pc = "actors" /\ s.version = scan[p].version /\ s.found = scan[p].found
        /\ s.actors = scan[p].actors \ {a} /\ s.titles = scan[p].titles \cup ListedBy[a]
        /\ s.partial = scan[p].partial /\ s.missing = scan[p].missing
    BY <1>1, <1>2 DEF Scannings
  <2>4. scan'[p] = s BY <1>3, <2>2, ScansIs DEF PlansInv
  <2>5. \A t : Counted(p, t) \/ t \in ListedBy[a] => Counted(p, t)' BY <1>1, <2>3, <2>4 DEF Counted
  <2>6. ScanCounts(p)' BY <1>1, <1>2, <2>3, <2>4, <2>5 DEF ScanCounts
  <2>7. QED BY <1>1, <1>3, <2>2, <2>3, <2>6, LookingKeeps DEF Looking
<1>4. ASSUME NEW a \in scan[p].actors,
             Scans(p, [scan[p] EXCEPT !.actors = @ \ {a}, !.partial = TRUE])
      PROVE PlansInv'
  <2> DEFINE s == [scan[p] EXCEPT !.actors = @ \ {a}, !.partial = TRUE]
  <2>2. s \in Scannings BY <1>2 DEF Scannings
  <2>3. /\ s.pc = "actors" /\ s.version = scan[p].version /\ s.found = scan[p].found /\ s.partial = TRUE
    BY <1>1, <1>2 DEF Scannings
  <2>4. scan'[p] = s BY <1>4, <2>2, ScansIs DEF PlansInv
  <2>6. ScanCounts(p)' BY <2>3, <2>4 DEF ScanCounts
  <2>7. QED BY <1>1, <1>4, <2>2, <2>3, <2>6, LookingKeeps DEF Looking
<1>5. QED BY <1>3, <1>4 DEF ListActor

LEMMA ActorsListedKeeps == ASSUME PlansInv, NEW p \in PlanIds, ActorsListed(p) PROVE PlansInv'
<1> DEFINE s == [scan[p] EXCEPT !.pc = "titles"]
<1>1. /\ scan[p].pc = "actors" /\ scan[p].actors = {} /\ Scans(p, s)
      /\ UNCHANGED <<settings, place, wanted, rows, job, apply>>
  BY DEF ActorsListed, ScanAt, library
<1>2. scan[p] \in Scannings /\ ScanCounts(p) BY <1>1, AtWork
<1>3. s \in Scannings BY <1>2 DEF Scannings, ScanPcs
<1>4. /\ s.pc = "titles" /\ s.version = scan[p].version /\ s.found = scan[p].found /\ s.partial = scan[p].partial
      /\ s.actors = {} /\ s.titles = scan[p].titles /\ s.missing = scan[p].missing
  BY <1>1, <1>2 DEF Scannings
<1>5. scan'[p] = s BY <1>1, <1>3, ScansIs DEF PlansInv
<1>6. \A t : Counted(p, t) => Counted(p, t)' BY <1>1, <1>4, <1>5 DEF Counted
<1>7. ScanCounts(p)' BY <1>1, <1>2, <1>4, <1>5, <1>6 DEF ScanCounts
<1>8. QED BY <1>1, <1>3, <1>4, <1>7, LookingKeeps DEF Looking

LEMMA LookInBrandKeeps == ASSUME PlansInv, NEW p \in PlanIds, LookInBrand(p) PROVE PlansInv'
<1>1. scan[p].pc = "titles" /\ UNCHANGED <<settings, place, wanted, rows, job, apply>>
  BY DEF LookInBrand, ScanAt, library
<1>2. scan[p] \in Scannings /\ ScanCounts(p) BY <1>1, AtWork
<1>3. PICK t \in scan[p].titles :
          Scans(p, [scan[p] EXCEPT !.titles = @ \ {t},
                       !.pc = IF FilesOf(t, "brand") # {} THEN "titles" ELSE "extra",
                       !.current = IF FilesOf(t, "brand") # {} THEN Nothing ELSE t])
  BY DEF LookInBrand
<1> DEFINE known == FilesOf(t, "brand") # {}
           s == [scan[p] EXCEPT !.titles = @ \ {t}, !.pc = IF known THEN "titles" ELSE "extra",
                                !.current = IF known THEN Nothing ELSE t]
<1>4. s \in Scannings BY <1>2, <1>3 DEF Scannings, ScanPcs
<1>5. /\ s.pc = (IF known THEN "titles" ELSE "extra") /\ s.current = (IF known THEN Nothing ELSE t)
      /\ s.version = scan[p].version /\ s.found = scan[p].found /\ s.partial = scan[p].partial
      /\ s.actors = scan[p].actors /\ s.titles = scan[p].titles \ {t} /\ s.missing = scan[p].missing
  BY <1>2 DEF Scannings
<1>6. scan'[p] = s BY <1>3, <1>4, ScansIs DEF PlansInv
<1>7. known => \E f \in Files : VideoTitle[f] = t BY DEF FilesOf
<1>8. \A u : Counted(p, u) => Counted(p, u)'
  <2>1. SUFFICES ASSUME NEW u, Counted(p, u) PROVE Counted(p, u)' OBVIOUS
  <2>2. CASE u = t BY <1>5, <1>6, <1>7, <2>2 DEF Counted
  <2>3. CASE u # t BY <1>1, <1>5, <1>6, <2>1, <2>3 DEF Counted
  <2>4. QED BY <2>2, <2>3
<1>9. s.pc \in {"titles", "extra"} /\ (s.pc = "extra" => s.current \in PlanTitles) BY <1>2, <1>3, <1>5 DEF Scannings
<1>10. ScanCounts(p)' BY <1>1, <1>2, <1>5, <1>6, <1>8, <1>9 DEF ScanCounts
<1>11. QED BY <1>1, <1>3, <1>4, <1>5, <1>9, <1>10, LookingKeeps DEF Looking

LEMMA LookInOthersKeeps == ASSUME PlansInv, NEW p \in PlanIds, LookInOthers(p) PROVE PlansInv'
<1> DEFINE t == scan[p].current
           others == FilesOf(t, "extra")
           found == [f \in Files |-> IF f \in others THEN settings ELSE scan[p].found[f]]
           missing == IF others = {} THEN scan[p].missing \cup {t} ELSE scan[p].missing
           s == [scan[p] EXCEPT !.pc = "titles", !.current = Nothing, !.found = found, !.missing = missing]
<1>1. scan[p].pc = "extra" /\ Scans(p, s) /\ UNCHANGED <<settings, place, wanted, rows, job, apply>>
  BY DEF LookInOthers, ScanAt, library
<1>2. scan[p] \in Scannings /\ ScanCounts(p) BY <1>1, AtWork
<1>3. t \in PlanTitles BY <1>1, AtWork DEF ScanSound
<1>4. found \in [Files -> {0} \cup Versions] BY <1>2 DEF Scannings, PlansInv, PlanTypes
<1>5. s \in Scannings BY <1>2, <1>3, <1>4 DEF Scannings, ScanPcs
<1>6. /\ s.pc = "titles" /\ s.version = scan[p].version /\ s.found = found /\ s.partial = scan[p].partial
      /\ s.actors = scan[p].actors /\ s.titles = scan[p].titles /\ s.missing = missing
  BY <1>2 DEF Scannings
<1>7. scan'[p] = s BY <1>1, <1>5, ScansIs DEF PlansInv
<1>8. \A f \in Files : s.found[f] \in {scan[p].found[f], settings} BY <1>6
<1>9. others = {} \/ \E f \in Files : VideoTitle[f] = t BY DEF FilesOf
<1>10. \A u : Counted(p, u) => Counted(p, u)'
  <2>1. SUFFICES ASSUME NEW u, Counted(p, u) PROVE Counted(p, u)' OBVIOUS
  <2>2. CASE u = t BY <1>1, <1>6, <1>7, <1>9, <2>2 DEF Counted
  <2>3. CASE u # t BY <1>1, <1>6, <1>7, <2>1, <2>3 DEF Counted
  <2>4. QED BY <2>2, <2>3
<1>11. ScanCounts(p)' BY <1>1, <1>2, <1>6, <1>7, <1>10 DEF ScanCounts
<1>12. QED BY <1>1, <1>5, <1>6, <1>8, <1>11, LookingKeeps DEF Looking

LEMMA LookFailsKeeps == ASSUME PlansInv, NEW p \in PlanIds, LookFails(p) PROVE PlansInv'
<1>1. scan[p].pc \in {"extra", "titles"} /\ UNCHANGED <<settings, place, wanted, rows, job, apply>>
  BY DEF LookFails, ScanAt, library
<1>2. scan[p] \in Scannings /\ ScanCounts(p) BY <1>1, AtWork
<1>3. ASSUME NEW s \in Scannings, s.pc = "titles", s.version = scan[p].version, s.found = scan[p].found,
             s.partial = TRUE, s.actors = {}, Scans(p, s)
      PROVE  PlansInv'
  <2>1. scan'[p] = s BY <1>3, ScansIs DEF PlansInv
  <2>2. ScanCounts(p)' BY <1>3, <2>1 DEF ScanCounts
  <2>3. QED BY <1>1, <1>3, <2>2, LookingKeeps DEF Looking
<1>4. scan[p].actors = {} BY <1>1, <1>2 DEF ScanCounts
<1>5. ASSUME Scans(p, [scan[p] EXCEPT !.pc = "titles", !.current = Nothing, !.partial = TRUE]) PROVE PlansInv'
  <2> DEFINE s == [scan[p] EXCEPT !.pc = "titles", !.current = Nothing, !.partial = TRUE]
  <2>1. s \in Scannings BY <1>2 DEF Scannings, ScanPcs
  <2>2. /\ s.pc = "titles" /\ s.version = scan[p].version /\ s.found = scan[p].found
        /\ s.partial = TRUE /\ s.actors = {}
    BY <1>2, <1>4 DEF Scannings
  <2>3. QED BY <1>3, <1>5, <2>1, <2>2
<1>6. ASSUME scan[p].pc = "titles", NEW t \in scan[p].titles,
             Scans(p, [scan[p] EXCEPT !.titles = @ \ {t}, !.partial = TRUE])
      PROVE PlansInv'
  <2> DEFINE s == [scan[p] EXCEPT !.titles = @ \ {t}, !.partial = TRUE]
  <2>1. s \in Scannings BY <1>2 DEF Scannings
  <2>2. /\ s.pc = "titles" /\ s.version = scan[p].version /\ s.found = scan[p].found
        /\ s.partial = TRUE /\ s.actors = {}
    BY <1>2, <1>4, <1>6 DEF Scannings
  <2>3. QED BY <1>3, <1>6, <2>1, <2>2
<1>7. QED BY <1>5, <1>6 DEF LookFails, ScanAt

LEMMA TitlesLookedUpKeeps == ASSUME PlansInv, NEW p \in PlanIds, TitlesLookedUp(p) PROVE PlansInv'
<1> DEFINE s == [scan[p] EXCEPT !.pc = "queue"]
<1>1. /\ scan[p].pc = "titles" /\ scan[p].titles = {} /\ Scans(p, s)
      /\ UNCHANGED <<settings, place, wanted, rows, job, apply>>
  BY DEF TitlesLookedUp, ScanAt, library
<1>2. scan[p] \in Scannings /\ ScanCounts(p) BY <1>1, AtWork
<1>3. s \in Scannings BY <1>2 DEF Scannings, ScanPcs
<1>4. /\ s.pc = "queue" /\ s.version = scan[p].version /\ s.found = scan[p].found /\ s.partial = scan[p].partial
      /\ s.actors = scan[p].actors /\ s.titles = {} /\ s.missing = scan[p].missing
  BY <1>1, <1>2 DEF Scannings
<1>5. scan'[p] = s BY <1>1, <1>3, ScansIs DEF PlansInv
<1>6. \A t : Counted(p, t) => Counted(p, t)' BY <1>1, <1>4, <1>5 DEF Counted
<1>7. ScanCounts(p)' BY <1>1, <1>2, <1>4, <1>5, <1>6 DEF ScanCounts
<1>8. QED BY <1>1, <1>3, <1>4, <1>7, LookingKeeps DEF Looking

LEMMA QueueMissingKeeps == ASSUME PlansInv, NEW p \in PlanIds, QueueMissing(p) PROVE PlansInv'
<1>1. scan[p].pc = "queue" /\ UNCHANGED <<settings, place, rows, job, apply>>
  BY DEF QueueMissing, ScanAt
<1>2. scan[p] \in Scannings /\ ScanCounts(p) BY <1>1, AtWork
<1>3. ASSUME NEW t \in scan[p].missing, wanted' = wanted \cup {t},
             Scans(p, [scan[p] EXCEPT !.missing = @ \ {t}])
      PROVE PlansInv'
  <2> DEFINE s == [scan[p] EXCEPT !.missing = @ \ {t}]
  <2>1. s \in Scannings BY <1>2 DEF Scannings
  <2>2. /\ s.pc = "queue" /\ s.version = scan[p].version /\ s.found = scan[p].found /\ s.partial = scan[p].partial
        /\ s.actors = scan[p].actors /\ s.titles = scan[p].titles /\ s.missing = scan[p].missing \ {t}
    BY <1>1, <1>2 DEF Scannings
  <2>3. scan'[p] = s BY <1>3, <2>1, ScansIs DEF PlansInv
  <2>4. \A u : Counted(p, u) => Counted(p, u)' BY <1>1, <1>3, <2>2, <2>3 DEF Counted
  <2>5. ScanCounts(p)' BY <1>1, <1>2, <2>2, <2>3, <2>4 DEF ScanCounts
  <2>6. QED BY <1>1, <1>3, <2>1, <2>2, <2>5, LookingKeeps DEF Looking
<1>4. ASSUME NEW t \in scan[p].missing, UNCHANGED wanted,
             Scans(p, [scan[p] EXCEPT !.missing = @ \ {t}, !.partial = TRUE])
      PROVE PlansInv'
  <2> DEFINE s == [scan[p] EXCEPT !.missing = @ \ {t}, !.partial = TRUE]
  <2>1. s \in Scannings BY <1>2 DEF Scannings
  <2>2. /\ s.pc = "queue" /\ s.version = scan[p].version /\ s.found = scan[p].found /\ s.partial = TRUE
        /\ s.actors = scan[p].actors /\ s.titles = scan[p].titles
    BY <1>1, <1>2 DEF Scannings
  <2>3. scan'[p] = s BY <1>4, <2>1, ScansIs DEF PlansInv
  <2>4. ScanCounts(p)' BY <1>1, <1>2, <2>2, <2>3 DEF ScanCounts
  <2>5. QED BY <1>1, <1>4, <2>1, <2>2, <2>4, LookingKeeps DEF Looking
<1>5. QED BY <1>3, <1>4 DEF QueueMissing

(* The job of a scan.                                                       *)
LEMMA JobIs ==
    ASSUME PlanTypes, NEW j \in PlanIds \cup Requests,
           NEW state \in {"absent", "queued", "running", "failed", "completed", "partial_failed"},
           job' = [job EXCEPT ![j] = Named(state, j)]
    PROVE  /\ job' \in [PlanIds \cup Requests -> PlanJobs]
           /\ job'[j].state = state /\ job'[j].plan = job[j].plan
           /\ \A k \in PlanIds \cup Requests : k # j => job'[k] = job[k]
<1>1. job[j] \in PlanJobs BY DEF PlanTypes
<1>2. Named(state, j) \in PlanJobs /\ Named(state, j).state = state /\ Named(state, j).plan = job[j].plan
  BY <1>1 DEF Named, PlanJobs
<1>3. QED BY <1>2 DEF PlanTypes

LEMMA StartPlanKeeps == ASSUME PlansInv, NEW p \in PlanIds, StartPlan(p) PROVE PlansInv'
<1> DEFINE new == [state |-> "queued", plan |-> p]
<1>1. /\ job[p].state = "absent" /\ job' = [job EXCEPT ![p] = new]
      /\ UNCHANGED <<settings, place, wanted, rows, scan, apply>>
  BY DEF StartPlan, library
<1>2. PlanTypes'
  <2>1. new \in PlanJobs BY DEF PlanJobs
  <2>2. job' \in [PlanIds \cup Requests -> PlanJobs] BY <1>1, <2>1 DEF PlansInv, PlanTypes
  <2>3. QED BY <1>1, <2>2 DEF PlansInv, PlanTypes, rows
<1>3. job'[p] = new /\ \A j \in PlanIds \cup Requests : j # p => job'[j] = job[j]
  BY <1>1 DEF PlansInv, PlanTypes
<1>4. \A r \in Requests : r # p BY PlansAssumption
<1>5. ScanStepOf(p) BY <1>1, <1>3, <1>4 DEF ScanStepOf, Active, Finished
<1>6. scan[p].pc = "none" BY <1>1 DEF PlansInv, UnbegunIsEmpty
<1>7. QED BY <1>1, <1>2, <1>3, <1>5, <1>6, ScanStepKeeps

LEMMA BeginScanKeeps == ASSUME PlansInv, NEW p \in PlanIds, BeginScan(p) PROVE PlansInv'
<1> DEFINE s == [pc |-> "actors", version |-> settings, actors |-> Actors, partial |-> FALSE,
                 titles |-> {}, current |-> Nothing, found |-> [f \in Files |-> 0], missing |-> {}]
<1>1. /\ job[p].state = "queued" /\ job' = [job EXCEPT ![p] = Named("running", p)] /\ Scans(p, s)
      /\ UNCHANGED <<settings, place, wanted, rows, apply>>
  BY DEF BeginScan, library
<1>2. s \in Scannings BY DEF Scannings, ScanPcs, PlansInv, PlanTypes
<1>3. /\ scan' \in [PlanIds -> {NoScan} \cup Scannings]
      /\ scan'[p] = s /\ \A q \in PlanIds \ {p} : scan'[q] = scan[q]
  BY <1>1, <1>2, ScansIs DEF PlansInv
<1>4. /\ job' \in [PlanIds \cup Requests -> PlanJobs] /\ job'[p].state = "running"
      /\ \A j \in PlanIds \cup Requests : j # p => job'[j] = job[j]
  BY <1>1, JobIs DEF PlansInv
<1>5. PlanTypes' BY <1>1, <1>3, <1>4 DEF PlansInv, PlanTypes, rows
<1>6. \A r \in Requests : r # p BY PlansAssumption
<1>7. ScanStepOf(p) BY <1>1, <1>3, <1>4, <1>6 DEF ScanStepOf, Active, Finished
<1>8. ScanSound(p)'
  <2>1. plan[p] = NoPlan BY <1>1 DEF PlansInv, UnbegunIsEmpty
  <2>2. settings \in Nat BY VersionsAreNumbers DEF PlansInv, PlanTypes
  <2>3. QED BY <1>1, <1>3, <1>4, <2>1, <2>2 DEF ScanSound, rows, Finished
<1>9. ScanCounts(p)' BY <1>3 DEF ScanCounts
<1>10. QED BY <1>4, <1>5, <1>7, <1>8, <1>9, ScanStepKeeps

(* A scan that stops, its job as it is or failed.                           *)
LEMMA StoppedKeeps ==
    ASSUME PlansInv, NEW p \in PlanIds, UNCHANGED <<settings, place, wanted, rows, apply>>,
           scan' = scan \/ Scans(p, NoScan),
           job' = job \/ (job[p].state \notin Finished /\ job' = [job EXCEPT ![p] = Named("failed", p)])
    PROVE  PlansInv'
<1>1. /\ scan' \in [PlanIds -> {NoScan} \cup Scannings]
      /\ scan'[p] = scan[p] \/ scan'[p].pc = "none"
      /\ \A q \in PlanIds \ {p} : scan'[q] = scan[q]
  <2>1. CASE scan' = scan BY <2>1 DEF PlansInv, PlanTypes
  <2>2. CASE Scans(p, NoScan) BY <2>2, ScansIs DEF PlansInv, NoScan
  <2>3. QED BY <2>1, <2>2
<1>2. /\ job' \in [PlanIds \cup Requests -> PlanJobs]
      /\ job'[p].state = job[p].state \/ (job[p].state \notin Finished /\ job'[p].state = "failed")
      /\ \A j \in PlanIds \cup Requests : j # p => job'[j] = job[j]
  <2>1. CASE job' = job BY <2>1 DEF PlansInv, PlanTypes
  <2>2. CASE job[p].state \notin Finished /\ job' = [job EXCEPT ![p] = Named("failed", p)]
    BY <2>2, JobIs DEF PlansInv
  <2>3. QED BY <2>1, <2>2
<1>3. PlanTypes' BY <1>1, <1>2 DEF PlansInv, PlanTypes, rows
<1>4. \A r \in Requests : r # p BY PlansAssumption
<1>5. ScanStepOf(p) BY <1>1, <1>2, <1>4 DEF ScanStepOf, Active
<1>6. ASSUME scan'[p].pc # "none" PROVE ScanSound(p)' /\ ScanCounts(p)'
  <2>1. scan'[p] = scan[p] /\ ScanSound(p) /\ ScanCounts(p) BY <1>1, <1>6, AtWork
  <2>2. job'[p].state \notin Finished \cup {"absent", "queued"} BY <1>2, <2>1 DEF ScanSound, Finished
  <2>3. \A t : Counted(p, t) => Counted(p, t)' BY <2>1 DEF Counted
  <2>4. ScanSound(p)' BY <2>1, <2>2 DEF ScanSound, rows
  <2>5. ScanCounts(p)' BY <2>1, <2>3 DEF ScanCounts
  <2>6. QED BY <2>4, <2>5
<1>7. ASSUME job'[p].state \in {"absent", "queued"}
      PROVE job[p].state \in {"absent", "queued"} /\ scan'[p].pc = "none"
  BY <1>1, <1>2, <1>7 DEF PlansInv, UnbegunIsEmpty
<1>8. job'[p].state = "completed" => job[p].state = "completed" BY <1>2
<1>9. QED BY <1>3, <1>5, <1>6, <1>7, <1>8, ScanStepKeeps

LEMMA StopScanKeeps == ASSUME PlansInv, NEW p \in PlanIds, StopScan(p) PROVE PlansInv'
BY StoppedKeeps DEF StopScan, library

LEMMA RecheckSettingsKeeps == ASSUME PlansInv, NEW p \in PlanIds, RecheckSettings(p) PROVE PlansInv'
<1>1. scan[p].pc = "queue" /\ scan[p].missing = {} /\ UNCHANGED <<settings, place, wanted, rows, apply>>
  BY DEF RecheckSettings, ScanAt, library
<1>2. scan[p] \in Scannings /\ ScanSound(p) /\ ScanCounts(p) BY <1>1, AtWork
<1>3. CASE settings # scan[p].version
  BY <1>1, <1>2, <1>3, StoppedKeeps DEF RecheckSettings, ScanSound
<1>4. CASE settings = scan[p].version
  <2> DEFINE s == [scan[p] EXCEPT !.pc = "save"]
  <2>1. Scans(p, s) /\ UNCHANGED job BY <1>4 DEF RecheckSettings
  <2>2. s \in Scannings BY <1>2 DEF Scannings, ScanPcs
  <2>3. /\ s.pc = "save" /\ s.version = scan[p].version /\ s.found = scan[p].found /\ s.partial = scan[p].partial
        /\ s.actors = scan[p].actors /\ s.titles = scan[p].titles /\ s.missing = {}
    BY <1>1, <1>2 DEF Scannings
  <2>4. /\ scan' \in [PlanIds -> {NoScan} \cup Scannings]
        /\ scan'[p] = s /\ \A q \in PlanIds \ {p} : scan'[q] = scan[q]
    BY <2>1, <2>2, ScansIs DEF PlansInv
  <2>5. PlanTypes' BY <1>1, <2>1, <2>4 DEF PlansInv, PlanTypes, rows
  <2>6. ScanStepOf(p) BY <1>1, <2>1, <2>4 DEF ScanStepOf, Active
  <2>7. ScanSound(p)'
    <3>1. \A f \in Files : scan[p].found[f] \in {0} \cup Versions BY <1>2 DEF Scannings
    <3>2. settings \in Nat /\ \A v \in {0} \cup Versions : v \in Nat
      BY VersionsAreNumbers DEF PlansInv, PlanTypes
    <3>3. ASSUME NEW f \in Files, scan[p].found[f] # 0 PROVE scan[p].found[f] = settings
      <4>1. settings <= scan[p].found[f] /\ scan[p].found[f] <= settings BY <1>2, <1>4, <3>3 DEF ScanSound
      <4>2. scan[p].found[f] \in Nat BY <3>1, <3>2
      <4>3. QED BY <3>2, <4>1, <4>2
    <3>4. plan[p] = NoPlan /\ job[p].state \notin Finished \cup {"absent", "queued"} BY <1>1, <1>2 DEF ScanSound
    <3>5. QED BY <1>1, <1>4, <2>1, <2>3, <2>4, <3>2, <3>3, <3>4 DEF ScanSound, rows
  <2>8. \A t : Counted(p, t) => Counted(p, t)' BY <1>1, <2>3, <2>4 DEF Counted
  <2>9. ScanCounts(p)' BY <1>1, <1>2, <2>3, <2>4, <2>8 DEF ScanCounts
  <2>10. job'[p].state \notin {"absent", "queued"} /\ job'[p].state # "completed"
    BY <1>2, <2>1 DEF ScanSound, Finished
  <2>11. QED BY <2>5, <2>6, <2>7, <2>9, <2>10, ScanStepKeeps
<1>5. QED BY <1>3, <1>4

LEMMA FinishScanKeeps == ASSUME PlansInv, NEW p \in PlanIds, FinishScan(p) PROVE PlansInv'
<1> DEFINE end == IF scan[p].partial THEN "partial_failed" ELSE "completed"
<1>1. /\ scan[p].pc = "finish" /\ Scans(p, NoScan)
      /\ job' = IF ~Active(p) THEN job ELSE [job EXCEPT ![p] = Named(end, p)]
      /\ UNCHANGED <<settings, place, wanted, rows, apply>>
  BY DEF FinishScan, ScanAt, library
<1>2. scan[p] \in Scannings /\ ScanSound(p) /\ ScanCounts(p) BY <1>1, AtWork
<1>3. CASE ~Active(p) BY <1>1, <1>3, StoppedKeeps
<1>4. CASE Active(p)
  <2>1. end \in {"partial_failed", "completed"} OBVIOUS
  <2>2. /\ job' \in [PlanIds \cup Requests -> PlanJobs] /\ job'[p].state = end
        /\ \A j \in PlanIds \cup Requests : j # p => job'[j] = job[j]
    BY <1>1, <1>4, <2>1, JobIs DEF PlansInv
  <2>3. /\ scan' \in [PlanIds -> {NoScan} \cup Scannings]
        /\ scan'[p].pc = "none" /\ \A q \in PlanIds \ {p} : scan'[q] = scan[q]
    BY <1>1, ScansIs DEF PlansInv, NoScan
  <2>4. PlanTypes' BY <1>1, <2>2, <2>3 DEF PlansInv, PlanTypes, rows
  <2>5. \A r \in Requests : r # p BY PlansAssumption
  <2>6. ScanStepOf(p) BY <1>1, <2>1, <2>2, <2>3, <2>5 DEF ScanStepOf, Active, Finished
  <2>7. ASSUME job'[p].state = "completed"
        PROVE  \A a \in Actors : \A t \in ListedBy[a] : t \in wanted' \/ \E f \in Files : VideoTitle[f] = t
    <3>1. ~scan[p].partial BY <2>2, <2>7
    <3>2. \A a \in Actors : \A t \in ListedBy[a] : Counted(p, t) BY <1>1, <1>2, <3>1 DEF ScanCounts
    <3>3. scan[p].titles = {} /\ scan[p].missing = {} BY <1>1, <1>2 DEF ScanCounts
    <3>4. QED BY <1>1, <3>2, <3>3 DEF Counted
  <2>8. QED BY <2>1, <2>2, <2>3, <2>4, <2>6, <2>7, ScanStepKeeps
<1>5. QED BY <1>3, <1>4

-----------------------------------------------------------------------------
(* Steps that leave everything as it is.                                    *)
LEMMA LeftKeeps ==
    ASSUME PlansInv, PlanTypes', PurgedAreStale', ScansLeft, PlansLeft, AppliesLeft, JournalsLeft, PlacesLeft
    PROVE  PlansInv'
<1>1. TakenUpSound'
  <2>1. SUFFICES ASSUME NEW a \in Appliers, apply'[a].at # Nothing PROVE TakenUp(a)' BY DEF TakenUpSound
  <2>2. apply'[a] = apply[a] BY <2>1 DEF AppliesLeft
  <2>3. QED BY <2>1, <2>2, PlacesKeep
<1>2. PlacesKnown' BY DEF PlansInv, PlacesKnown, PlacesLeft
<1>3. settings' \in Versions BY DEF PlanTypes
<1>4. ScansSound' /\ UnbegunIsEmpty' /\ CompletedAccounts' BY <1>3, ScansKeep
<1>5. PlanOfOneConfig' BY PlansKeep
<1>6. AppliesSound' /\ OneMoves' BY AppliesKeep
<1>7. JournalsSound' BY JournalsKeep
<1>8. StagedIsReported' BY StagedKeep
<1>9. QED BY <1>1, <1>2, <1>4, <1>5, <1>6, <1>7, <1>8 DEF PlansInv

(* The rows of the plans are those they were.                               *)
LEMMA SamePlansLeft ==
    ASSUME PlansInv, UNCHANGED <<plan, journal>>, FinishedStay, orphaned \subseteq orphaned',
           \A p \in purging' : p \in purging \/ ~Needed(p)
    PROVE  PlansLeft /\ StoredStay /\ JournalsLeft
<1>1. PlansLeft /\ StoredStay BY DEF PlansLeft, StoredStay
<1>2. \A c \in journal : plan[c[1]] # NoPlan
  <2>1. \A c \in journal : c[1] \in PlanIds /\ c[2] \in Files /\ c = <<c[1], c[2]>>
    BY DEF PlansInv, PlanTypes
  <2>2. QED BY <2>1 DEF PlansInv, JournalsSound, JournalSound
<1>3. QED BY <1>1, <1>2 DEF JournalsLeft

LEMMA SettingsAreNat == ASSUME PlansInv PROVE settings \in Nat /\ settings <= settings
BY VersionsAreNumbers DEF PlansInv, PlanTypes

(* An apply ends, waits or goes on to nothing, and its job ends with it.    *)
LEMMA EndedKeeps ==
    ASSUME PlansInv, UNCHANGED <<settings, place, wanted, rows, scan>>, PlanTypes',
           \A p \in PlanIds : job'[p] = job[p],
           \A a \in Appliers : apply'[a] = apply[a] \/ (apply'[a].pc = "none" /\ apply'[a].at = Nothing),
           \A r \in Requests : job'[r].plan = job[r].plan /\ (Active(r)' => Active(r))
    PROVE  PlansInv'
<1>1. FinishedStay BY DEF FinishedStay
<1>2. PlansLeft /\ StoredStay /\ JournalsLeft BY <1>1, SamePlansLeft DEF rows
<1>3. ScansLeft BY SettingsAreNat DEF ScansLeft, rows
<1>4. AppliesLeft BY <1>1, <1>2 DEF AppliesLeft, rows
<1>5. PlacesLeft BY DEF PlacesLeft, rows
<1>6. PurgedAreStale' BY DEF PlansInv, PurgedAreStale, rows
<1>7. QED BY <1>2, <1>3, <1>4, <1>5, <1>6, LeftKeeps

LEMMA EndJobKeeps == ASSUME PlansInv, NEW j \in PlanIds \cup Requests, EndJob(j) PROVE PlansInv'
<1>1. /\ job[j].state \in {"running", "queued"} /\ job' = [job EXCEPT ![j] = Named("failed", j)]
      /\ UNCHANGED <<settings, place, wanted, rows, scan, apply>>
  BY DEF EndJob, library
<1>2. CASE j \in PlanIds BY <1>1, <1>2, StoppedKeeps DEF Finished
<1>3. CASE j \in Requests
  <2>1. /\ job' \in [PlanIds \cup Requests -> PlanJobs]
        /\ job'[j].state = "failed" /\ job'[j].plan = job[j].plan
        /\ \A k \in PlanIds \cup Requests : k # j => job'[k] = job[k]
    BY <1>1, JobIs DEF PlansInv
  <2>2. PlanTypes' BY <1>1, <2>1 DEF PlansInv, PlanTypes, rows
  <2>3. \A p \in PlanIds : job'[p] = job[p] BY <1>3, <2>1, PlansAssumption
  <2>4. \A r \in Requests : job'[r].plan = job[r].plan /\ (Active(r)' => Active(r))
    BY <1>3, <2>1 DEF Active
  <2>5. QED BY <1>1, <2>2, <2>3, <2>4, EndedKeeps
<1>4. QED BY <1>2, <1>3

LEMMA SavePlanKeeps == ASSUME PlansInv, NEW p \in PlanIds, SavePlan(p) PROVE PlansInv'
<1> DEFINE s == [scan[p] EXCEPT !.pc = "finish"]
           new == [version |-> scan[p].version, fresh |-> TRUE, found |-> scan[p].found]
<1>1. /\ scan[p].pc = "save" /\ plan' = [plan EXCEPT ![p] = new] /\ Scans(p, s)
      /\ UNCHANGED <<settings, place, wanted, answer, journal, purging, delivered, orphaned, job, apply>>
  BY DEF SavePlan, ScanAt, library
<1>2. scan[p] \in Scannings /\ ScanSound(p) /\ ScanCounts(p) BY <1>1, AtWork
<1>3. /\ s \in Scannings /\ s.pc = "finish" /\ s.version = scan[p].version /\ s.found = scan[p].found
      /\ s.partial = scan[p].partial /\ s.actors = scan[p].actors /\ s.titles = scan[p].titles
      /\ s.missing = scan[p].missing
  BY <1>2 DEF Scannings, ScanPcs
<1>4. /\ scan' \in [PlanIds -> {NoScan} \cup Scannings]
      /\ scan'[p] = s /\ \A q \in PlanIds \ {p} : scan'[q] = scan[q]
  BY <1>1, <1>3, ScansIs DEF PlansInv
<1>5. new \in [version : Versions, fresh : BOOLEAN, found : [Files -> {0} \cup Versions]]
  BY <1>2 DEF Scannings
<1>6. /\ plan' \in [PlanIds -> {NoPlan} \cup [version : Versions, fresh : BOOLEAN, found : [Files -> {0} \cup Versions]]]
      /\ plan'[p] = new /\ \A q \in PlanIds \ {p} : plan'[q] = plan[q]
  BY <1>1, <1>5 DEF PlansInv, PlanTypes
<1>7. PlanTypes' BY <1>1, <1>4, <1>6 DEF PlansInv, PlanTypes
<1>8. plan[p] = NoPlan /\ job[p].state \notin Finished \cup {"absent", "queued"} BY <1>1, <1>2 DEF ScanSound
<1>9. p \notin purging /\ \A f \in Files : <<p, f>> \notin journal
  BY <1>8 DEF PlansInv, PurgedAreStale, JournalsSound, JournalSound
<1>10. ScansSound'
  <2>1. SUFFICES ASSUME NEW q \in PlanIds, scan'[q].pc # "none" PROVE ScanSound(q)' /\ ScanCounts(q)'
    BY DEF ScansSound
  <2>2. CASE q = p
    <3>1. \A t : Counted(p, t) => Counted(p, t)' BY <1>1, <1>3, <1>4 DEF Counted
    <3>2. ScanCounts(p)' BY <1>1, <1>2, <1>3, <1>4, <3>1 DEF ScanCounts
    <3>3. ScanSound(p)' BY <1>1, <1>2, <1>3, <1>4 DEF ScanSound
    <3>4. QED BY <2>2, <3>2, <3>3
  <2>3. CASE q # p
    <3>1. scan'[q] = scan[q] /\ plan'[q] = plan[q] BY <1>4, <1>6, <2>3
    <3>2. ScanSound(q) /\ ScanCounts(q) BY <2>1, <3>1, AtWork
    <3>3. \A t : Counted(q, t) => Counted(q, t)' BY <1>1, <3>1 DEF Counted
    <3>4. ScanCounts(q)' BY <3>1, <3>2, <3>3 DEF ScanCounts
    <3>5. ScanSound(q)' BY <1>1, <3>1, <3>2 DEF ScanSound
    <3>6. QED BY <3>4, <3>5
  <2>4. QED BY <2>2, <2>3
<1>11. UnbegunIsEmpty' BY <1>1, <1>4, <1>6, <1>8 DEF PlansInv, UnbegunIsEmpty
<1>12. CompletedAccounts' BY <1>1 DEF PlansInv, CompletedAccounts
<1>13. PlanOfOneConfig'
  <2>1. \A f \in Files : scan[p].found[f] \in {0, scan[p].version} BY <1>1, <1>2 DEF ScanSound
  <2>2. \A f \in Files : new.found[f] # 0 => new.found[f] = new.version BY <2>1
  <2>3. QED BY <1>6, <2>2 DEF PlansInv, PlanOfOneConfig, Candidates
<1>14. FinishedStay /\ StoredStay BY <1>1, <1>6, <1>8 DEF FinishedStay, StoredStay
<1>15. AppliesLeft BY <1>1, <1>14 DEF AppliesLeft, Active
<1>16. JournalsLeft
  <2>1. \A c \in journal : c[1] \in PlanIds /\ c[2] \in Files /\ c = <<c[1], c[2]>>
    BY DEF PlansInv, PlanTypes
  <2>2. \A c \in journal : c[1] # p /\ plan[c[1]] # NoPlan
    BY <1>8, <2>1 DEF PlansInv, JournalsSound, JournalSound
  <2>3. \A c \in journal : plan'[c[1]] # NoPlan BY <1>6, <2>1, <2>2
  <2>4. QED BY <1>1, <1>14, <2>3 DEF JournalsLeft
<1>17. PlacesLeft BY <1>1, <1>6, <1>9 DEF PlacesLeft
<1>18. TakenUpSound'
  <2>1. SUFFICES ASSUME NEW a \in Appliers, apply[a].at # Nothing PROVE TakenUp(a)' BY <1>1 DEF TakenUpSound
  <2>2. QED BY <1>1, <2>1, <1>17, PlacesKeep
<1>19. PlacesKnown' BY <1>1 DEF PlansInv, PlacesKnown
<1>20. PurgedAreStale' BY <1>1, <1>6, <1>9 DEF PlansInv, PurgedAreStale, PlanTypes
<1>21. QED BY <1>7, <1>10, <1>11, <1>12, <1>13, <1>15, <1>16, <1>17, <1>18, <1>19, <1>20,
              AppliesKeep, JournalsKeep, StagedKeep DEF PlansInv

LEMMA ExpireKeeps == ASSUME PlansInv, NEW p \in PlanIds, Expire(p) PROVE PlansInv'
<1> DEFINE new == [plan[p] EXCEPT !.fresh = FALSE]
<1>1. /\ plan[p] # NoPlan /\ plan' = [plan EXCEPT ![p] = new]
      /\ UNCHANGED <<settings, place, wanted, answer, journal, purging, delivered, orphaned, job, scan, apply>>
  BY DEF Expire, library
<1>2. plan[p] \in [version : Versions, fresh : BOOLEAN, found : [Files -> {0} \cup Versions]]
  BY <1>1, NewIsKnown DEF PlansInv
<1>3. /\ new \in [version : Versions, fresh : BOOLEAN, found : [Files -> {0} \cup Versions]]
      /\ new.version = plan[p].version /\ new.found = plan[p].found /\ new.fresh = FALSE
  BY <1>2
<1>4. new # NoPlan
  <2>1. NoPlan.version = 0 /\ new.version # 0 BY <1>3, VersionsAreNumbers DEF NoPlan
  <2>2. QED BY <2>1
<1>5. plan'[p] = new /\ \A q \in PlanIds \ {p} : plan'[q] = plan[q] BY <1>1 DEF PlansInv, PlanTypes
<1>6. PlanTypes' BY <1>1, <1>3 DEF PlansInv, PlanTypes
<1>7. PlansLeft BY <1>1, <1>3, <1>5 DEF PlansLeft
<1>8. FinishedStay /\ StoredStay BY <1>1, <1>3, <1>5 DEF FinishedStay, StoredStay
<1>9. ScansLeft BY <1>1, <1>5, SettingsAreNat DEF ScansLeft
<1>10. AppliesLeft BY <1>1, <1>8 DEF AppliesLeft, Active
<1>11. JournalsLeft
  <2>1. \A c \in journal : c[1] \in PlanIds /\ c[2] \in Files /\ c = <<c[1], c[2]>>
    BY DEF PlansInv, PlanTypes
  <2>2. \A c \in journal : plan[c[1]] # NoPlan BY <2>1 DEF PlansInv, JournalsSound, JournalSound
  <2>3. \A c \in journal : plan'[c[1]] # NoPlan BY <1>4, <1>5, <2>1, <2>2
  <2>4. QED BY <1>1, <1>8, <2>3 DEF JournalsLeft
<1>12. PlacesLeft BY <1>1, <1>3, <1>5 DEF PlacesLeft
<1>13. PurgedAreStale' BY <1>1, <1>3, <1>4, <1>5 DEF PlansInv, PurgedAreStale, PlanTypes
<1>14. QED BY <1>6, <1>7, <1>9, <1>10, <1>11, <1>12, <1>13, LeftKeeps

LEMMA PurgeFindsKeeps == ASSUME PlansInv, PurgeFinds PROVE PlansInv'
<1>1. /\ purging' = {p \in PlanIds : plan[p] # NoPlan /\ ~plan[p].fresh /\ ~Needed(p)}
      /\ UNCHANGED <<settings, place, wanted, plan, answer, journal, delivered, orphaned, job, scan, apply>>
  BY DEF PurgeFinds, library
<1>2. PlanTypes' BY <1>1 DEF PlansInv, PlanTypes
<1>3. FinishedStay BY <1>1 DEF FinishedStay
<1>4. \A p \in purging' : ~Needed(p) BY <1>1
<1>5. PlansLeft /\ StoredStay /\ JournalsLeft BY <1>1, <1>3, <1>4, SamePlansLeft
<1>6. ScansLeft BY <1>1, SettingsAreNat DEF ScansLeft
<1>7. AppliesLeft BY <1>1, <1>3, <1>4, <1>5 DEF AppliesLeft, Active
<1>8. PlacesLeft BY <1>1 DEF PlacesLeft
<1>9. PurgedAreStale' BY <1>1 DEF PurgedAreStale
<1>10. QED BY <1>2, <1>5, <1>6, <1>7, <1>8, <1>9, LeftKeeps

LEMMA DieKeeps == ASSUME PlansInv, Die PROVE PlansInv'
<1>1. /\ scan' = [p \in PlanIds |-> NoScan]
      /\ apply' = [a \in Appliers |-> IF apply[a].pc = "queued" THEN apply[a] ELSE NoApply]
      /\ UNCHANGED <<settings, place, wanted, rows, job>>
  BY DEF Die, library
<1>2. NoApply \in Applyings /\ NoApply.pc = "none" /\ NoApply.at = Nothing BY DEF NoApply, Applyings
<1>3. PlanTypes'
  <2>1. apply' \in [Appliers -> Applyings] BY <1>1, <1>2 DEF PlansInv, PlanTypes
  <2>2. QED BY <1>1, <2>1 DEF PlansInv, PlanTypes, rows
<1>4. \A a \in Appliers : apply'[a] = apply[a] \/ (apply'[a].pc = "none" /\ apply'[a].at = Nothing)
  BY <1>1, <1>2
<1>5. \A p \in PlanIds : scan'[p].pc = "none" BY <1>1 DEF NoScan
<1>6. FinishedStay BY <1>1 DEF FinishedStay
<1>7. PlansLeft /\ StoredStay /\ JournalsLeft BY <1>1, <1>6, SamePlansLeft DEF rows
<1>8. ScansLeft BY <1>1, <1>5, SettingsAreNat DEF ScansLeft, rows
<1>9. AppliesLeft BY <1>1, <1>4, <1>6, <1>7 DEF AppliesLeft, rows, Active
<1>10. PlacesLeft BY <1>1 DEF PlacesLeft, rows
<1>11. PurgedAreStale' BY <1>1 DEF PlansInv, PurgedAreStale, rows
<1>12. QED BY <1>3, <1>7, <1>8, <1>9, <1>10, <1>11, LeftKeeps

-----------------------------------------------------------------------------
(* Steps that move files, change the settings or delete plans.              *)

(* A staging directory that comes into force is new: nothing waits in it.   *)
LEMMA SaveSettingsKeeps == ASSUME PlansInv, NeverReturned, SaveSettings PROVE PlansInv'
<1>1. /\ settings' = settings + 1 /\ settings + 1 \in Versions
      /\ UNCHANGED <<place, wanted, rows, job, scan, apply>>
  BY DEF SaveSettings, library
<1>2. settings \in Nat /\ settings \in Versions BY VersionsAreNumbers DEF PlansInv, PlanTypes
<1>3. ASSUME NEW f \in Files, place[f] = Staging[settings'] PROVE place[f] = Staging[settings]
  <2>1. PICK v \in 1 .. settings : place[f] = Staging[v]
    BY <1>1, <1>3, PlansAssumption DEF PlansInv, PlacesKnown
  <2>2. v \in Versions /\ v <= settings /\ settings <= settings + 1 BY <1>2, VersionsAreNumbers
  <2>3. Staging[v] = Staging[settings + 1] BY <1>1, <1>3, <2>1
  <2>4. Staging[settings] = Staging[v] BY <1>1, <1>2, <2>2, <2>3 DEF NeverReturned
  <2>5. QED BY <2>1, <2>4
<1>4. \A f, q : Reported(f, q) => Reported(f, q)' BY <1>1 DEF Reported, rows, Target
<1>5. StagedIsReported' BY <1>1, <1>3, <1>4 DEF PlansInv, StagedIsReported
<1>6. TakenUpSound'
  <2>1. SUFFICES ASSUME NEW a \in Appliers, apply[a].at # Nothing PROVE TakenUp(a)' BY <1>1 DEF TakenUpSound
  <2>2. TakenUp(a) /\ apply[a] \in Applyings BY <2>1 DEF PlansInv, TakenUpSound, PlanTypes
  <2>3. apply[a].at \in Files BY <2>1, <2>2 DEF Applyings
  <2>4. QED BY <1>1, <1>3, <1>4, <2>2, <2>3 DEF TakenUp, rows, Target
<1>7. PlacesKnown'
  <2>1. \A v \in 1 .. settings : v \in 1 .. (settings + 1) BY <1>2
  <2>2. QED BY <1>1, <2>1 DEF PlansInv, PlacesKnown
<1>8. PlanTypes' BY <1>1 DEF PlansInv, PlanTypes, rows
<1>9. FinishedStay BY <1>1 DEF FinishedStay
<1>10. PlansLeft /\ StoredStay /\ JournalsLeft BY <1>1, <1>9, SamePlansLeft DEF rows
<1>11. ScansLeft BY <1>1, <1>2 DEF ScansLeft, rows
<1>12. AppliesLeft BY <1>1, <1>9, <1>10 DEF AppliesLeft, rows, Active
<1>13. PurgedAreStale' BY <1>1 DEF PlansInv, PurgedAreStale, rows
<1>14. settings' \in Versions BY <1>1
<1>15. QED BY <1>5, <1>6, <1>7, <1>8, <1>10, <1>11, <1>12, <1>13, <1>14,
              ScansKeep, PlansKeep, AppliesKeep, JournalsKeep DEF PlansInv

LEMMA ArchiveFileKeeps == ASSUME PlansInv, NEW f \in Files, ArchiveFile(f) PROVE PlansInv'
<1>1. /\ place' = [place EXCEPT ![f] = "brand"]
      /\ UNCHANGED <<settings, wanted, rows, job, scan, apply>>
  BY DEF ArchiveFile
<1>2. settings \in Versions /\ place \in [Files -> {"brand", "extra"} \cup {Staging[v] : v \in Versions}]
  BY DEF PlansInv, PlanTypes, PlacesKnown
<1>3. place'[f] # Staging[settings] BY <1>1, <1>2, PlansAssumption
<1>4. \A g \in Files \ {f} : place'[g] = place[g] BY <1>1, <1>2
<1>5. \A g \in Files \ {f} : \A q : Reported(g, q) => Reported(g, q)' BY <1>1, <1>4 DEF Reported, rows, Target
<1>6. StagedIsReported' BY <1>1, <1>3, <1>4, <1>5 DEF PlansInv, StagedIsReported
<1>7. TakenUpSound'
  <2>1. SUFFICES ASSUME NEW a \in Appliers, apply[a].at # Nothing PROVE TakenUp(a)' BY <1>1 DEF TakenUpSound
  <2>2. TakenUp(a) /\ apply[a] \in Applyings BY <2>1 DEF PlansInv, TakenUpSound, PlanTypes
  <2>3. apply[a].at \in Files BY <2>1, <2>2 DEF Applyings
  <2>4. CASE apply[a].at = f BY <1>1, <1>3, <2>2, <2>4 DEF TakenUp, rows, Target
  <2>5. CASE apply[a].at # f BY <1>1, <1>4, <1>5, <2>2, <2>3, <2>5 DEF TakenUp, rows, Target
  <2>6. QED BY <2>4, <2>5
<1>8. PlacesKnown' BY <1>1, <1>2 DEF PlansInv, PlacesKnown
<1>9. PlanTypes' BY <1>1 DEF PlansInv, PlanTypes, rows
<1>10. FinishedStay BY <1>1 DEF FinishedStay
<1>11. PlansLeft /\ StoredStay /\ JournalsLeft BY <1>1, <1>10, SamePlansLeft DEF rows
<1>12. ScansLeft BY <1>1, SettingsAreNat DEF ScansLeft, rows
<1>13. AppliesLeft BY <1>1, <1>10, <1>11 DEF AppliesLeft, rows, Active
<1>14. PurgedAreStale' BY <1>1 DEF PlansInv, PurgedAreStale, rows
<1>15. settings' \in Versions BY <1>1, <1>2
<1>16. QED BY <1>6, <1>7, <1>8, <1>9, <1>11, <1>12, <1>13, <1>14, <1>15,
              ScansKeep, PlansKeep, AppliesKeep, JournalsKeep DEF PlansInv

LEMMA PurgeKeeps == ASSUME PlansInv, Purge PROVE PlansInv'
<1> DEFINE forgot(j) == IF job[j].plan \in purging THEN [job[j] EXCEPT !.plan = Nothing] ELSE job[j]
<1>1. /\ purging' = {}
      /\ plan' = [p \in PlanIds |-> IF p \in purging THEN NoPlan ELSE plan[p]]
      /\ answer' = [p \in PlanIds |-> IF p \in purging THEN Unanswered ELSE answer[p]]
      /\ journal' = {c \in journal : c[1] \notin purging}
      /\ job' = [j \in DOMAIN job |-> forgot(j)]
      /\ UNCHANGED <<settings, place, wanted, delivered, orphaned, scan, apply>>
  BY DEF Purge, library
<1>2. DOMAIN job = PlanIds \cup Requests /\ \A j \in PlanIds \cup Requests : job[j] \in PlanJobs
  BY DEF PlansInv, PlanTypes
<1>3. \A j \in PlanIds \cup Requests :
          /\ job'[j] \in PlanJobs /\ job'[j].state = job[j].state
          /\ job'[j].plan = job[j].plan \/ job[j].plan \in purging
  <2>1. SUFFICES ASSUME NEW j \in PlanIds \cup Requests
        PROVE  /\ job'[j] \in PlanJobs /\ job'[j].state = job[j].state
               /\ job'[j].plan = job[j].plan \/ job[j].plan \in purging
    OBVIOUS
  <2>2. job'[j] = forgot(j) /\ job[j] \in PlanJobs BY <1>1, <1>2
  <2>3. QED BY <2>2 DEF PlanJobs
<1>4. \A p \in PlanIds : plan'[p] = IF p \in purging THEN NoPlan ELSE plan[p] BY <1>1
<1>5. purging \subseteq PlanIds BY DEF PlansInv, PlanTypes
<1>6. PlanTypes'
  <2>1. job' \in [PlanIds \cup Requests -> PlanJobs]
    <3>1. job' = [j \in PlanIds \cup Requests |-> job'[j]] BY <1>1, <1>2
    <3>2. QED BY <1>3, <3>1
  <2>2. Unanswered \in [Files -> {"none", "moved", "kept"}] BY DEF Unanswered
  <2>3. answer' \in [PlanIds -> [Files -> {"none", "moved", "kept"}]] BY <1>1, <2>2 DEF PlansInv, PlanTypes
  <2>4. plan' \in [PlanIds -> {NoPlan} \cup [version : Versions, fresh : BOOLEAN, found : [Files -> {0} \cup Versions]]]
    BY <1>1 DEF PlansInv, PlanTypes
  <2>5. QED BY <1>1, <2>1, <2>3, <2>4 DEF PlansInv, PlanTypes
<1>7. FinishedStay BY <1>3 DEF FinishedStay
<1>8. StoredStay
  <2>1. SUFFICES ASSUME NEW p \in PlanIds, plan'[p] # NoPlan PROVE plan[p] # NoPlan /\ plan'[p].found = plan[p].found
    BY DEF StoredStay
  <2>2. QED BY <1>4, <2>1
<1>9. PlansLeft BY <1>4 DEF PlansLeft
<1>10. ScansLeft BY <1>1, <1>3, <1>4, SettingsAreNat DEF ScansLeft
<1>11. AppliesLeft
  <2>1. \A r \in Requests : /\ job'[r].plan = job[r].plan \/ (job[r].plan \in purging /\ plan'[job[r].plan] = NoPlan)
                            /\ Active(r)' => Active(r)
    BY <1>3, <1>4, <1>5 DEF Active
  <2>2. QED BY <1>1, <1>7, <1>8, <2>1 DEF AppliesLeft
<1>12. \A c \in journal : c[1] \in PlanIds /\ c[2] \in Files /\ c = <<c[1], c[2]>> /\ plan[c[1]] # NoPlan
  <2>1. \A c \in journal : c[1] \in PlanIds /\ c[2] \in Files /\ c = <<c[1], c[2]>>
    BY DEF PlansInv, PlanTypes
  <2>2. QED BY <2>1 DEF PlansInv, JournalsSound, JournalSound
<1>13. JournalsLeft BY <1>1, <1>4, <1>7, <1>8, <1>12 DEF JournalsLeft
<1>14. \A p \in PlanIds, f \in Files : <<p, f>> \in journal =>
           f \in orphaned \/ (<<p, f>> \in journal' /\ Target(p, f)' = Target(p, f))
  <2>1. SUFFICES ASSUME NEW p \in PlanIds, NEW f \in Files, <<p, f>> \in journal, f \notin orphaned
        PROVE <<p, f>> \in journal' /\ Target(p, f)' = Target(p, f)
    OBVIOUS
  <2>2. p \notin purging BY <2>1 DEF PlansInv, JournalsSound, JournalSound
  <2>3. QED BY <1>1, <1>4, <2>1, <2>2 DEF Target
<1>15. ASSUME NEW f \in Files, NEW q, Reported(f, q) PROVE Reported(f, q)'
  BY <1>1, <1>14, <1>15 DEF Reported
<1>16. StagedIsReported' BY <1>1, <1>15 DEF PlansInv, StagedIsReported
<1>17. TakenUpSound'
  <2>1. SUFFICES ASSUME NEW a \in Appliers, apply[a].at # Nothing PROVE TakenUp(a)' BY <1>1 DEF TakenUpSound
  <2>2. TakenUp(a) /\ apply[a] \in Applyings BY <2>1 DEF PlansInv, TakenUpSound, PlanTypes
  <2> DEFINE f == apply[a].at
             p == apply[a].plan
  <2>3. f \in Files BY <2>1, <2>2 DEF Applyings
  <2>4. p \in PlanIds BY <2>2 DEF TakenUp, PlansInv, AppliesSound, ApplySound
  <2>5. f \in orphaned \/ (<<p, f>> \in journal' /\ Staging[plan'[p].found[f]] = apply[a].to)
    BY <1>14, <2>2, <2>3, <2>4 DEF TakenUp, Target
  <2>6. apply[a].how = "move" /\ place[f] = Staging[settings] => Reported(f, p)'
    BY <1>1, <1>15, <2>2, <2>3 DEF TakenUp
  <2>7. QED BY <1>1, <2>2, <2>5, <2>6 DEF TakenUp, Target
<1>18. PlacesKnown' BY <1>1 DEF PlansInv, PlacesKnown
<1>19. PurgedAreStale' BY <1>1 DEF PurgedAreStale
<1>20. settings' \in Versions BY <1>6 DEF PlanTypes
<1>21. QED BY <1>6, <1>9, <1>10, <1>11, <1>13, <1>16, <1>17, <1>18, <1>19, <1>20,
              ScansKeep, PlansKeep, AppliesKeep, JournalsKeep DEF PlansInv

-----------------------------------------------------------------------------
(* The steps of one apply.                                                  *)
LEMMA AppliesIs ==
    ASSUME PlanTypes, NEW a \in Appliers, NEW w \in Applyings, Applies(a, w)
    PROVE  /\ apply' \in [Appliers -> Applyings]
           /\ apply'[a] = w /\ \A b \in Appliers \ {a} : apply'[b] = apply[b]
BY DEF PlanTypes, Applies

ApplyStepOf(a) ==
    /\ \A b \in Appliers \ {a} : apply'[b] = apply[b]
    /\ \A p \in PlanIds : job'[p] = job[p]
    /\ \A r \in Requests \ {a} : job'[r] = job[r]
    /\ apply'[a].pc # "none" => ApplySound(a)'
    /\ apply'[a].pc = "moving" => apply[a].pc = "moving" \/ \A b \in Appliers : apply[b].pc # "moving"

(* It leaves the other applies, and what is theirs, as they are.            *)
LEMMA ApplyStepKeeps ==
    ASSUME PlansInv, NEW a \in Appliers, ApplyStepOf(a), UNCHANGED <<plan, purging>>
    PROVE  AppliesSound' /\ OneMoves' /\ FinishedStay
<1>1. AppliesSound'
  <2>1. SUFFICES ASSUME NEW b \in Appliers, b # a, apply'[b].pc # "none" PROVE ApplySound(b)'
    BY DEF AppliesSound, ApplyStepOf
  <2>2. apply'[b] = apply[b] /\ ApplySound(b) BY <2>1 DEF ApplyStepOf, PlansInv, AppliesSound
  <2>3. job'[apply[b].plan] = job[apply[b].plan] BY <2>2 DEF ApplyStepOf, ApplySound
  <2>4. b \in Requests => job'[b] = job[b] BY <2>1 DEF ApplyStepOf
  <2>5. QED BY <2>2, <2>3, <2>4 DEF ApplySound, Candidates, Active
<1>2. OneMoves' BY DEF PlansInv, OneMoves, ApplyStepOf
<1>3. FinishedStay BY DEF FinishedStay, ApplyStepOf
<1>4. QED BY <1>1, <1>2, <1>3

LEMMA QuietApplyKeeps ==
    ASSUME PlansInv, NEW a \in Appliers, ApplyStepOf(a), PlanTypes', apply'[a].at = Nothing,
           UNCHANGED <<settings, place, wanted, rows, scan>>
    PROVE  PlansInv'
<1>1. UNCHANGED <<plan, answer, journal, purging, delivered, orphaned>> BY DEF rows
<1>2. AppliesSound' /\ OneMoves' /\ FinishedStay BY <1>1, ApplyStepKeeps
<1>3. PlansLeft /\ StoredStay /\ JournalsLeft BY <1>1, <1>2, SamePlansLeft
<1>4. ScansLeft BY <1>1, SettingsAreNat DEF ScansLeft, ApplyStepOf
<1>5. PlacesLeft BY <1>1 DEF PlacesLeft
<1>6. TakenUpSound'
  <2>1. SUFFICES ASSUME NEW b \in Appliers, apply'[b].at # Nothing PROVE TakenUp(b)' BY DEF TakenUpSound
  <2>2. b # a /\ apply'[b] = apply[b] BY <2>1 DEF ApplyStepOf
  <2>3. QED BY <2>1, <2>2, <1>5, PlacesKeep
<1>7. PlacesKnown' BY DEF PlansInv, PlacesKnown
<1>8. PurgedAreStale' BY <1>1 DEF PlansInv, PurgedAreStale
<1>9. settings' \in Versions BY DEF PlanTypes
<1>10. QED BY <1>2, <1>3, <1>4, <1>5, <1>6, <1>7, <1>8, <1>9, ScansKeep, PlansKeep, JournalsKeep, StagedKeep
           DEF PlansInv

(* An apply that is not at work has taken up no file.                       *)
LEMMA NotMoving == ASSUME PlansInv, NEW a \in Appliers, apply[a].pc # "moving" PROVE apply[a].at = Nothing
BY DEF PlansInv, TakenUpSound, TakenUp

(* An apply that asks for a plan.                                           *)
LEMMA AskedKeeps ==
    ASSUME PlansInv, NEW a \in Appliers, NEW p \in PlanIds, MayApply(p), NEW C \in SUBSET Candidates(p),
           NEW how \in {"asked", "called"}, a \notin Requests \/ how = "asked",
           Applies(a, [NoApply EXCEPT !.pc = how, !.plan = p, !.left = C]),
           UNCHANGED <<settings, place, wanted, rows, job, scan>>
    PROVE  PlansInv'
<1> DEFINE w == [NoApply EXCEPT !.pc = how, !.plan = p, !.left = C]
<1>1. w.pc = how /\ w.plan = p /\ w.left = C /\ w.at = Nothing BY DEF NoApply
<1>2. w \in Applyings
  <2>1. NoApply \in Applyings BY DEF NoApply, Applyings
  <2>2. C \subseteq Files BY DEF Candidates
  <2>3. QED BY <2>1, <2>2 DEF Applyings
<1>3. /\ apply' \in [Appliers -> Applyings]
      /\ apply'[a] = w /\ \A b \in Appliers \ {a} : apply'[b] = apply[b]
  BY <1>2, AppliesIs DEF PlansInv
<1>4. PlanTypes' BY <1>3 DEF PlansInv, PlanTypes, rows
<1>5. ApplySound(a)' BY <1>1, <1>3 DEF ApplySound, MayApply, Candidates, rows
<1>6. ApplyStepOf(a) BY <1>1, <1>3, <1>5 DEF ApplyStepOf
<1>7. QED BY <1>1, <1>3, <1>4, <1>6, QuietApplyKeeps

LEMMA RequestApplyKeeps ==
    ASSUME PlansInv, NEW r \in Requests, NEW p \in PlanIds, RequestApply(r, p) PROVE PlansInv'
<1>1. PICK C \in (SUBSET Candidates(p)) \ {{}} : Applies(r, [NoApply EXCEPT !.pc = "asked", !.plan = p, !.left = C])
  BY DEF RequestApply
<1>2. r \in Appliers /\ MayApply(p) /\ UNCHANGED <<settings, place, wanted, rows, job, scan>>
  BY DEF RequestApply, library, Appliers
<1>3. QED BY <1>1, <1>2, AskedKeeps

LEMMA CallApplyKeeps ==
    ASSUME PlansInv, NEW c \in Callers, NEW p \in PlanIds, CallApply(c, p) PROVE PlansInv'
<1>1. PICK C \in (SUBSET Candidates(p)) \ {{}} : Applies(c, [NoApply EXCEPT !.pc = "called", !.plan = p, !.left = C])
  BY DEF CallApply
<1>2. c \in Appliers /\ c \notin Requests /\ MayApply(p) /\ UNCHANGED <<settings, place, wanted, rows, job, scan>>
  BY PlansAssumption DEF CallApply, library, Appliers
<1>3. QED BY <1>1, <1>2, AskedKeeps

(* The job of a request.                                                    *)
LEMMA RequestJobIs ==
    ASSUME PlanTypes, NEW r \in Requests,
           NEW state \in {"absent", "queued", "running", "failed", "completed", "partial_failed"},
           job' = [job EXCEPT ![r] = Named(state, r)]
    PROVE  /\ job' \in [PlanIds \cup Requests -> PlanJobs]
           /\ job'[r].state = state /\ job'[r].plan = job[r].plan
           /\ \A p \in PlanIds : job'[p] = job[p]
           /\ \A q \in Requests \ {r} : job'[q] = job[q]
BY ZenonT(40), JobIs, PlansAssumption

LEMMA EnqueueApplyKeeps == ASSUME PlansInv, NEW r \in Requests, EnqueueApply(r) PROVE PlansInv'
<1> DEFINE w == [apply[r] EXCEPT !.pc = "queued"]
           p == apply[r].plan
<1>1. /\ apply[r].pc = "asked" /\ Applies(r, w) /\ job' = [job EXCEPT ![r] = [state |-> "queued", plan |-> p]]
      /\ UNCHANGED <<settings, place, wanted, rows, scan>>
  BY DEF EnqueueApply, library
<1>2. r \in Appliers /\ apply[r] \in Applyings BY DEF PlansInv, PlanTypes, Appliers
<1>3. ApplySound(r) /\ apply[r].at = Nothing BY <1>1, <1>2, NotMoving DEF PlansInv, AppliesSound
<1>4. /\ w \in Applyings /\ w.pc = "queued" /\ w.plan = p /\ w.left = apply[r].left /\ w.at = Nothing
  BY <1>2, <1>3 DEF Applyings
<1>5. /\ apply' \in [Appliers -> Applyings]
      /\ apply'[r] = w /\ \A b \in Appliers \ {r} : apply'[b] = apply[b]
  BY <1>1, <1>2, <1>4, AppliesIs DEF PlansInv
<1>6. p \in PlanIds BY <1>3 DEF ApplySound
<1>7. [state |-> "queued", plan |-> p] \in PlanJobs BY <1>6 DEF PlanJobs
<1>8. /\ job' \in [PlanIds \cup Requests -> PlanJobs] /\ job'[r].plan = p
      /\ \A q \in PlanIds : job'[q] = job[q]
      /\ \A q \in Requests \ {r} : job'[q] = job[q]
  BY <1>1, <1>7, PlansAssumption DEF PlansInv, PlanTypes
<1>9. PlanTypes' BY <1>1, <1>5, <1>8 DEF PlansInv, PlanTypes, rows
<1>10. ApplySound(r)' BY <1>1, <1>3, <1>4, <1>5, <1>6, <1>8 DEF ApplySound, Candidates, rows
<1>11. ApplyStepOf(r) BY <1>4, <1>5, <1>8, <1>10 DEF ApplyStepOf
<1>12. QED BY <1>1, <1>2, <1>4, <1>5, <1>9, <1>11, QuietApplyKeeps

LEMMA ClaimApplyKeeps == ASSUME PlansInv, NEW r \in Requests, ClaimApply(r) PROVE PlansInv'
<1>1. /\ apply[r].pc = "queued" /\ job[r].state = "queued"
      /\ UNCHANGED <<settings, place, wanted, rows, scan>>
  BY DEF ClaimApply, library
<1>2. r \in Appliers /\ apply[r] \in Applyings BY DEF PlansInv, PlanTypes, Appliers
<1>3. ApplySound(r) /\ apply[r].at = Nothing BY <1>1, <1>2, NotMoving DEF PlansInv, AppliesSound
<1>4. ASSUME NEW w \in Applyings, Applies(r, w), w.at = Nothing,
             NEW state \in {"running", "failed"}, job' = [job EXCEPT ![r] = Named(state, r)],
             w.pc = "none" \/ (w.pc = "called" /\ w.plan = apply[r].plan /\ w.left = apply[r].left)
      PROVE  PlansInv'
  <2>1. /\ apply' \in [Appliers -> Applyings]
        /\ apply'[r] = w /\ \A b \in Appliers \ {r} : apply'[b] = apply[b]
    BY <1>2, <1>4, AppliesIs DEF PlansInv
  <2>2. /\ job' \in [PlanIds \cup Requests -> PlanJobs] /\ job'[r].plan = job[r].plan
        /\ \A q \in PlanIds : job'[q] = job[q]
        /\ \A q \in Requests \ {r} : job'[q] = job[q]
    BY <1>4, RequestJobIs DEF PlansInv
  <2>3. PlanTypes' BY <1>1, <2>1, <2>2 DEF PlansInv, PlanTypes, rows
  <2>4. w.pc = "called" => ApplySound(r)'
    BY <1>1, <1>3, <1>4, <2>1, <2>2 DEF ApplySound, Candidates, rows
  <2>5. ApplyStepOf(r) BY <1>4, <2>1, <2>2, <2>4 DEF ApplyStepOf
  <2>6. QED BY <1>1, <1>2, <1>4, <2>1, <2>3, <2>5, QuietApplyKeeps
<1>5. CASE job[r].plan = Nothing
  <2>1. NoApply \in Applyings /\ NoApply.pc = "none" /\ NoApply.at = Nothing BY DEF NoApply, Applyings
  <2>2. Applies(r, NoApply) /\ job' = [job EXCEPT ![r] = Named("failed", r)] BY <1>5 DEF ClaimApply
  <2>3. QED BY <1>4, <2>1, <2>2
<1>6. CASE job[r].plan # Nothing
  <2> DEFINE w == [apply[r] EXCEPT !.pc = "called"]
  <2>1. w \in Applyings /\ w.pc = "called" /\ w.plan = apply[r].plan /\ w.left = apply[r].left /\ w.at = Nothing
    BY <1>2, <1>3 DEF Applyings
  <2>2. Applies(r, w) /\ job' = [job EXCEPT ![r] = Named("running", r)] BY <1>6 DEF ClaimApply
  <2>3. QED BY <1>4, <2>1, <2>2
<1>7. QED BY <1>5, <1>6

(* The job of an apply that ends, if it has one.                            *)
EndsWith(a, state) == job' = IF a \in Requests /\ Active(a) THEN [job EXCEPT ![a] = Named(state, a)] ELSE job

LEMMA EndedApplyKeeps ==
    ASSUME PlansInv, NEW a \in Appliers, NEW state \in {"failed", "completed"}, EndsWith(a, state),
           Applies(a, NoApply), UNCHANGED <<settings, place, wanted, rows, scan>>
    PROVE  PlansInv'
<1>1. NoApply \in Applyings /\ NoApply.pc = "none" /\ NoApply.at = Nothing BY DEF NoApply, Applyings
<1>2. /\ apply' \in [Appliers -> Applyings]
      /\ apply'[a] = NoApply /\ \A b \in Appliers \ {a} : apply'[b] = apply[b]
  BY <1>1, AppliesIs DEF PlansInv
<1>3. /\ job' \in [PlanIds \cup Requests -> PlanJobs]
      /\ \A q \in PlanIds : job'[q] = job[q]
      /\ \A q \in Requests \ {a} : job'[q] = job[q]
  <2>1. CASE a \in Requests /\ Active(a)
    <3>1. job' = [job EXCEPT ![a] = Named(state, a)] BY <2>1 DEF EndsWith
    <3>2. QED BY <2>1, <3>1, RequestJobIs DEF PlansInv
  <2>2. CASE ~(a \in Requests /\ Active(a)) BY <2>2 DEF EndsWith, PlansInv, PlanTypes
  <2>3. QED BY <2>1, <2>2
<1>4. PlanTypes' BY <1>2, <1>3 DEF PlansInv, PlanTypes, rows
<1>5. ApplyStepOf(a) BY <1>1, <1>2, <1>3 DEF ApplyStepOf
<1>6. QED BY <1>1, <1>2, <1>4, <1>5, QuietApplyKeeps

LEMMA EndApplyKeeps == ASSUME PlansInv, NEW a \in Appliers, EndApply(a) PROVE PlansInv'
BY EndedApplyKeeps DEF EndApply, EndsWith, library

LEMMA BeginApplyKeeps == ASSUME PlansInv, NEW a \in Appliers, BeginApply(a) PROVE PlansInv'
<1> DEFINE p == apply[a].plan
<1>1. /\ apply[a].pc = "called" /\ \A b \in Appliers : apply[b].pc # "moving"
      /\ UNCHANGED <<settings, place, wanted, rows, scan>>
  BY DEF BeginApply, library
<1>2. CASE ~Applicable(p)
  <2>1. Applies(a, NoApply) /\ EndsWith(a, "failed") BY <1>2 DEF BeginApply, EndsWith
  <2>2. QED BY <1>1, <2>1, EndedApplyKeeps
<1>3. CASE Applicable(p)
  <2> DEFINE w == [apply[a] EXCEPT !.pc = "moving"]
  <2>1. Applies(a, w) /\ UNCHANGED job BY <1>3 DEF BeginApply
  <2>2. apply[a] \in Applyings /\ ApplySound(a) /\ apply[a].at = Nothing
    BY <1>1, NotMoving DEF PlansInv, PlanTypes, AppliesSound
  <2>3. w \in Applyings /\ w.pc = "moving" /\ w.plan = p /\ w.left = apply[a].left /\ w.at = Nothing
    BY <2>2 DEF Applyings
  <2>4. /\ apply' \in [Appliers -> Applyings]
        /\ apply'[a] = w /\ \A b \in Appliers \ {a} : apply'[b] = apply[b]
    BY <2>1, <2>3, AppliesIs DEF PlansInv
  <2>5. PlanTypes' BY <1>1, <2>1, <2>4 DEF PlansInv, PlanTypes, rows
  <2>6. plan[p] # NoPlan /\ plan[p].fresh /\ p \notin purging BY <1>3 DEF Applicable, PlansInv, PurgedAreStale
  <2>7. a \in Requests => job[a].plan = p BY <1>1, <2>2, <2>6 DEF ApplySound
  <2>8. ApplySound(a)' BY <1>1, <2>1, <2>2, <2>3, <2>4, <2>6, <2>7 DEF ApplySound, Candidates, rows
  <2>9. ApplyStepOf(a) BY <1>1, <2>1, <2>3, <2>4, <2>8 DEF ApplyStepOf
  <2>10. QED BY <1>1, <2>3, <2>4, <2>5, <2>9, QuietApplyKeeps
<1>4. QED BY <1>2, <1>3

-----------------------------------------------------------------------------
(* An apply at its files.                                                   *)
LEMMA Moving ==
    ASSUME PlansInv, NEW a \in Appliers, apply[a].at # Nothing
    PROVE  /\ apply[a] \in Applyings /\ TakenUp(a) /\ ApplySound(a)
           /\ apply[a].at \in Files /\ apply[a].plan \in PlanIds /\ apply[a].pc = "moving"
           /\ \A b \in Appliers \ {a} : apply[b].pc # "moving" /\ apply[b].at = Nothing
<1>1. apply[a] \in Applyings /\ TakenUp(a) /\ apply[a].pc = "moving" BY DEF PlansInv, PlanTypes, TakenUpSound, TakenUp
<1>2. ApplySound(a) BY <1>1 DEF PlansInv, AppliesSound
<1>3. apply[a].at \in Files BY <1>1 DEF Applyings
<1>4. apply[a].plan \in PlanIds BY <1>2 DEF ApplySound
<1>5. \A b \in Appliers \ {a} : apply[b].pc # "moving" BY <1>1 DEF PlansInv, OneMoves
<1>6. QED BY <1>1, <1>2, <1>3, <1>4, <1>5, NotMoving

(* The plan, its files and its job stay; the apply goes on from where it was. *)
LEMMA StillSound ==
    ASSUME PlansInv, NEW a \in Appliers, apply[a].pc = "moving", NEW w \in Applyings, Applies(a, w),
           w.pc = "moving", w.plan = apply[a].plan, w.left \subseteq apply[a].left,
           UNCHANGED <<plan, job, purging>>
    PROVE  /\ apply' \in [Appliers -> Applyings]
           /\ apply'[a] = w /\ \A b \in Appliers \ {a} : apply'[b] = apply[b]
           /\ ApplyStepOf(a) /\ AppliesSound' /\ OneMoves' /\ FinishedStay
<1>1. /\ apply' \in [Appliers -> Applyings]
      /\ apply'[a] = w /\ \A b \in Appliers \ {a} : apply'[b] = apply[b]
  BY AppliesIs DEF PlansInv
<1>2. ApplySound(a) BY DEF PlansInv, AppliesSound
<1>3. ApplySound(a)' BY <1>1, <1>2 DEF ApplySound, Candidates, Active
<1>4. ApplyStepOf(a) BY <1>1, <1>3 DEF ApplyStepOf
<1>5. QED BY <1>1, <1>4, ApplyStepKeeps

LEMMA UnsettledKeeps == ASSUME PlansInv, NEW a \in Appliers, Unsettled(a) PROVE PlansInv'
<1> DEFINE w == [apply[a] EXCEPT !.at = Nothing, !.to = Nothing, !.how = "none"]
<1>1. apply[a].at # Nothing /\ Applies(a, w) /\ UNCHANGED <<settings, place, wanted, rows, job, scan>>
  BY DEF Unsettled, Leaves, library
<1>2. apply[a] \in Applyings /\ apply[a].pc = "moving" BY <1>1, Moving
<1>3. w \in Applyings /\ w.pc = "moving" /\ w.plan = apply[a].plan /\ w.left = apply[a].left /\ w.at = Nothing
  BY <1>2 DEF Applyings
<1>4. apply' \in [Appliers -> Applyings] /\ apply'[a] = w /\ ApplyStepOf(a)
  BY <1>1, <1>2, <1>3, StillSound DEF rows
<1>5. PlanTypes' BY <1>1, <1>4 DEF PlansInv, PlanTypes, rows
<1>6. QED BY <1>1, <1>3, <1>4, <1>5, QuietApplyKeeps

LEMMA TakeCandidateKeeps == ASSUME PlansInv, NEW a \in Appliers, TakeCandidate(a) PROVE PlansInv'
<1> DEFINE p == apply[a].plan
<1>1. /\ apply[a].pc = "moving" /\ apply[a].at = Nothing
      /\ UNCHANGED <<settings, place, wanted, plan, answer, purging, delivered, job, scan>>
  BY DEF TakeCandidate, library
<1>2. apply[a] \in Applyings /\ ApplySound(a) BY <1>1 DEF PlansInv, PlanTypes, AppliesSound
<1>3. p \in PlanIds /\ job[p].state \in Finished BY <1>2 DEF ApplySound
<1>4. ASSUME NEW f \in apply[a].left, Applies(a, [apply[a] EXCEPT !.left = @ \ {f}]), UNCHANGED <<journal, orphaned>>
      PROVE  PlansInv'
  <2> DEFINE w == [apply[a] EXCEPT !.left = @ \ {f}]
  <2>1. /\ w \in Applyings /\ w.pc = "moving" /\ w.plan = apply[a].plan /\ w.left \subseteq apply[a].left
        /\ w.at = Nothing
    BY <1>1, <1>2 DEF Applyings
  <2>2. apply' \in [Appliers -> Applyings] /\ apply'[a] = w /\ ApplyStepOf(a)
    BY <1>1, <1>4, <2>1, StillSound
  <2>3. PlanTypes' BY <1>1, <1>4, <2>2 DEF PlansInv, PlanTypes
  <2>4. QED BY <1>1, <1>4, <2>1, <2>2, <2>3, QuietApplyKeeps DEF rows
<1>5. ASSUME NEW f \in apply[a].left, plan[p] # NoPlan,
             Applies(a, [apply[a] EXCEPT !.left = @ \ {f}, !.at = f, !.to = Target(p, f),
                            !.how = IF <<p, f>> \in journal THEN "recover" ELSE "move"]),
             journal' = journal \cup {<<p, f>>},
             orphaned' = IF p \in purging /\ ~(a \in Requests /\ Active(a)) THEN orphaned \cup {f} ELSE orphaned
      PROVE  PlansInv'
  <2> DEFINE how == IF <<p, f>> \in journal THEN "recover" ELSE "move"
             w == [apply[a] EXCEPT !.left = @ \ {f}, !.at = f, !.to = Target(p, f), !.how = how]
  <2>1. f \in Files /\ f \in Candidates(p) BY <1>2, <1>5 DEF Applyings, ApplySound
  <2>2. Target(p, f) \in {Staging[v] : v \in Versions}
    <3>1. plan[p] \in [version : Versions, fresh : BOOLEAN, found : [Files -> {0} \cup Versions]]
      BY <1>3, <1>5, NewIsKnown DEF PlansInv
    <3>2. plan[p].found[f] \in Versions BY <2>1, <3>1 DEF Candidates
    <3>3. QED BY <3>2 DEF Target
  <2>3. /\ w \in Applyings /\ w.pc = "moving" /\ w.plan = p /\ w.left \subseteq apply[a].left
        /\ w.at = f /\ w.to = Target(p, f) /\ w.how = how
    BY <1>1, <1>2, <2>1, <2>2 DEF Applyings
  <2>4. /\ apply' \in [Appliers -> Applyings]
        /\ apply'[a] = w /\ \A b \in Appliers \ {a} : apply'[b] = apply[b]
        /\ AppliesSound' /\ OneMoves' /\ FinishedStay
    BY <1>1, <1>5, <2>3, StillSound
  <2>5. PlanTypes'
    <3>1. journal' \subseteq PlanIds \X Files BY <1>3, <1>5, <2>1 DEF PlansInv, PlanTypes
    <3>2. QED BY <1>1, <2>4, <3>1 DEF PlansInv, PlanTypes
  <2>6. journal \subseteq journal' /\ orphaned \subseteq orphaned' BY <1>5
  <2>7. PlacesLeft BY <1>1, <2>6 DEF PlacesLeft
  <2>8. p \in purging => f \in orphaned'
    <3>1. a \in Requests /\ Active(a) => p \notin purging BY <1>1, <1>2 DEF ApplySound
    <3>2. QED BY <1>5, <3>1
  <2>9. JournalsSound'
    <3>1. SUFFICES ASSUME NEW q \in PlanIds, NEW g \in Files, <<q, g>> \in journal' PROVE JournalSound(q, g)'
      BY DEF JournalsSound
    <3>2. CASE q = p /\ g = f BY <1>1, <1>3, <1>5, <2>1, <2>8, <3>2 DEF JournalSound, Candidates
    <3>3. CASE ~(q = p /\ g = f)
      <4>1. <<q, g>> \in journal BY <1>5, <3>1, <3>3
      <4>2. JournalSound(q, g) BY <4>1 DEF PlansInv, JournalsSound
      <4>3. QED BY <1>1, <2>6, <4>2 DEF JournalSound, Candidates
    <3>4. QED BY <3>2, <3>3
  <2>10. TakenUp(a)'
    <3>1. <<p, f>> \in journal' /\ Staging[plan'[p].found[f]] = w.to BY <1>1, <1>5, <2>3 DEF Target
    <3>2. ASSUME how = "move", place[f] = Staging[settings] PROVE Reported(f, p)'
      <4>1. <<p, f>> \notin journal BY <3>2
      <4>2. Reported(f, Nothing) BY <2>1, <3>2 DEF PlansInv, StagedIsReported
      <4>3. Reported(f, p) BY <4>1, <4>2 DEF Reported
      <4>4. PICK q : q = p OBVIOUS
      <4>5. Reported(f, q)' BY <2>1, <2>7, <4>3, <4>4, ReportsLeft
      <4>6. f \in delivered' \cup orphaned' \/ \E o \in PlanIds \ {p} : <<o, f>> \in journal' /\ Target(o, f)' = place'[f]
        BY <4>4, <4>5 DEF Reported
      <4>7. p = apply'[a].plan BY <2>3, <2>4
      <4>8. QED BY <4>6, <4>7 DEF Reported
    <3>3. QED BY <1>1, <2>3, <2>4, <3>1, <3>2 DEF TakenUp, Target
  <2>11. TakenUpSound'
    <3>1. \A b \in Appliers \ {a} : apply[b].pc # "moving" BY <1>1 DEF PlansInv, OneMoves
    <3>2. \A b \in Appliers \ {a} : apply'[b].at = Nothing BY <2>4, <3>1, NotMoving
    <3>3. QED BY <2>10, <3>2 DEF TakenUpSound
  <2>12. PlansLeft BY <1>1 DEF PlansLeft
  <2>13. ScansLeft BY <1>1, SettingsAreNat DEF ScansLeft
  <2>14. PlacesKnown' /\ PurgedAreStale' BY <1>1 DEF PlansInv, PlacesKnown, PurgedAreStale
  <2>15. settings' \in Versions BY <2>5 DEF PlanTypes
  <2>16. QED BY <2>4, <2>5, <2>7, <2>9, <2>11, <2>12, <2>13, <2>14, <2>15, ScansKeep, PlansKeep, StagedKeep
             DEF PlansInv
<1>6. QED
  <2>1. PICK f \in apply[a].left :
            IF plan[p] = NoPlan \/ answer[p][f] # "none"
            THEN /\ Applies(a, [apply[a] EXCEPT !.left = @ \ {f}])
                 /\ UNCHANGED <<journal, orphaned>>
            ELSE /\ Applies(a, [apply[a] EXCEPT !.left = @ \ {f}, !.at = f, !.to = Target(p, f),
                                   !.how = IF <<p, f>> \in journal THEN "recover" ELSE "move"])
                 /\ journal' = journal \cup {<<p, f>>}
                 /\ orphaned' = IF p \in purging /\ ~(a \in Requests /\ Active(a)) THEN orphaned \cup {f} ELSE orphaned
    BY DEF TakeCandidate
  <2>2. CASE plan[p] = NoPlan \/ answer[p][f] # "none" BY <1>4, <2>1, <2>2
  <2>3. CASE ~(plan[p] = NoPlan \/ answer[p][f] # "none") BY <1>5, <2>1, <2>3
  <2>4. QED BY <2>2, <2>3

(* A delivery, or the end of a journal: what it leaves as it is.            *)
LEMMA SettledKeeps ==
    ASSUME PlansInv, PlanTypes', NEW p \in PlanIds, NEW f \in Files,
           UNCHANGED <<settings, wanted, plan, purging, orphaned, job, scan>>,
           delivered \subseteq delivered', journal \ {<<p, f>>} \subseteq journal', journal' \subseteq journal,
           place' \in {place, [place EXCEPT ![f] = Staging[settings]]},
           place'[f] = Staging[settings] => Reported(f, Nothing)',
           AppliesSound', OneMoves', TakenUpSound'
    PROVE  PlansInv'
<1>0. place \in [Files -> {"brand", "extra"} \cup {Staging[v] : v \in Versions}] BY DEF PlansInv, PlacesKnown
<1>1. FinishedStay BY DEF FinishedStay
<1>2. PlansLeft /\ StoredStay BY DEF PlansLeft, StoredStay
<1>3. JournalsLeft
  <2>1. \A c \in journal : c[1] \in PlanIds /\ c[2] \in Files /\ c = <<c[1], c[2]>>
    BY DEF PlansInv, PlanTypes
  <2>2. \A c \in journal : plan[c[1]] # NoPlan BY <2>1 DEF PlansInv, JournalsSound, JournalSound
  <2>3. QED BY <1>1, <1>2, <2>2 DEF JournalsLeft
<1>4. ScansLeft BY SettingsAreNat DEF ScansLeft
<1>5. StagedIsReported'
  <2>1. SUFFICES ASSUME NEW g \in Files, g # f, place'[g] = Staging[settings'] PROVE Reported(g, Nothing)'
    BY DEF StagedIsReported
  <2>2. place'[g] = place[g] BY <1>0, <2>1
  <2>3. Reported(g, Nothing) BY <2>1, <2>2 DEF PlansInv, StagedIsReported
  <2>4. QED BY <2>1, <2>2, <2>3 DEF Reported, Target
<1>6. PlacesKnown'
  <2>1. settings \in Versions /\ settings \in 1 .. settings BY VersionsAreNumbers DEF PlansInv, PlanTypes
  <2>2. QED BY <1>0, <2>1 DEF PlansInv, PlacesKnown
<1>7. PurgedAreStale' BY DEF PlansInv, PurgedAreStale
<1>8. settings' \in Versions BY DEF PlanTypes
<1>9. QED BY <1>2, <1>3, <1>4, <1>5, <1>6, <1>7, <1>8, ScansKeep, PlansKeep, JournalsKeep DEF PlansInv

LEMMA DeliverKeeps == ASSUME PlansInv, NEW a \in Appliers, Deliver(a) PROVE PlansInv'
<1> DEFINE f == apply[a].at
           p == apply[a].plan
           w == [apply[a] EXCEPT !.how = "moved"]
<1>1. /\ f # Nothing /\ apply[a].to = Staging[settings] /\ place' = [place EXCEPT ![f] = Staging[settings]]
      /\ Applies(a, w)
      /\ UNCHANGED <<settings, wanted, plan, answer, journal, purging, delivered, orphaned, job, scan>>
  BY DEF Deliver, Deliverable, Moves, rows
<1>2. /\ apply[a] \in Applyings /\ TakenUp(a) /\ f \in Files /\ p \in PlanIds /\ apply[a].pc = "moving"
      /\ \A b \in Appliers \ {a} : apply[b].pc # "moving" /\ apply[b].at = Nothing
  BY <1>1, Moving
<1>3. /\ w \in Applyings /\ w.pc = "moving" /\ w.plan = p /\ w.left = apply[a].left /\ w.at = f
      /\ w.to = apply[a].to /\ w.how = "moved"
  BY <1>2 DEF Applyings
<1>4. /\ apply' \in [Appliers -> Applyings]
      /\ apply'[a] = w /\ \A b \in Appliers \ {a} : apply'[b] = apply[b]
      /\ AppliesSound' /\ OneMoves'
  BY <1>1, <1>2, <1>3, StillSound
<1>5. PlanTypes' BY <1>1, <1>4 DEF PlansInv, PlanTypes
<1>6. f \in orphaned \/ (<<p, f>> \in journal /\ Staging[plan[p].found[f]] = apply[a].to)
  BY <1>2 DEF TakenUp, Target
<1>7. place'[f] = Staging[settings] BY <1>1, <1>2 DEF PlansInv, PlacesKnown
<1>8. PICK g \in Files : g = f BY <1>2
<1>9. Reported(g, Nothing)'
  <2>1. p # Nothing BY <1>2, PlansAssumption
  <2>2. CASE f \in orphaned BY <1>1, <1>8, <2>2 DEF Reported
  <2>3. CASE f \notin orphaned
    <3>1. PICK q \in PlanIds : q = p BY <1>2
    <3>2. <<q, g>> \in journal' /\ Staging[plan'[q].found[g]] = place'[g] /\ q # Nothing
      BY <1>1, <1>6, <1>7, <1>8, <2>1, <2>3, <3>1
    <3>3. QED BY <3>2 DEF Reported, Target
  <2>4. QED BY <2>2, <2>3
<1>10. TakenUpSound'
  <2>1. TakenUp(a)' BY <1>1, <1>2, <1>3, <1>4, <1>6 DEF TakenUp, Target
  <2>2. QED BY <1>2, <1>4, <2>1 DEF TakenUpSound
<1>11. PICK q \in PlanIds : q = p BY <1>2
<1>12. /\ place' = [place EXCEPT ![g] = Staging[settings]] /\ journal \ {<<q, g>>} \subseteq journal'
       /\ journal' \subseteq journal /\ delivered \subseteq delivered'
  BY <1>1, <1>8
<1>13. QED BY <1>1, <1>4, <1>5, <1>9, <1>10, <1>12, SettledKeeps

(* What is settled as moved is delivered; else its journal just ends.       *)
LEMMA AnswersIs ==
    ASSUME PlansInv, NEW p \in PlanIds, NEW f \in Files, NEW v \in {"moved", "kept"}, Answers(p, f, v)
    PROVE  /\ answer' \in [PlanIds -> [Files -> {"none", "moved", "kept"}]]
           /\ delivered \subseteq delivered'
           /\ journal \ {<<p, f>>} \subseteq journal' /\ journal' \subseteq journal
           /\ plan[p] # NoPlan /\ v = "moved" => f \in delivered'
<1>1. CASE plan[p] = NoPlan BY <1>1 DEF Answers, PlansInv, PlanTypes
<1>2. CASE plan[p] # NoPlan
  <2>1. /\ answer' = [answer EXCEPT ![p] = [answer[p] EXCEPT ![f] = v]]
        /\ delivered' = IF v = "moved" THEN delivered \cup {f} ELSE delivered
        /\ journal' = journal \ {<<p, f>>}
    BY <1>2 DEF Answers
  <2>2. answer[p] \in [Files -> {"none", "moved", "kept"}] BY DEF PlansInv, PlanTypes
  <2>3. [answer[p] EXCEPT ![f] = v] \in [Files -> {"none", "moved", "kept"}] BY <2>2
  <2>4. answer' \in [PlanIds -> [Files -> {"none", "moved", "kept"}]] BY <2>1, <2>3 DEF PlansInv, PlanTypes
  <2>5. QED BY <2>1, <2>4
<1>3. QED BY <1>1, <1>2

LEMMA AnswerKeeps == ASSUME PlansInv, NEW a \in Appliers, Answer(a) PROVE PlansInv'
<1> DEFINE w == [apply[a] EXCEPT !.at = Nothing, !.to = Nothing, !.how = "none"]
           v == CASE apply[a].how = "moved" -> "moved"
                  [] apply[a].how = "recover" -> Recovered(apply[a].at, apply[a].to)
                  [] apply[a].how = "move" -> "kept"
<1>1. /\ apply[a].at # Nothing /\ Applies(a, w) /\ Answers(apply[a].plan, apply[a].at, v)
      /\ UNCHANGED <<settings, place, wanted, plan, purging, orphaned, job, scan>>
  BY DEF Answer, Leaves, library
<1>2. /\ apply[a] \in Applyings /\ TakenUp(a) /\ apply[a].at \in Files /\ apply[a].plan \in PlanIds
      /\ apply[a].pc = "moving"
      /\ \A b \in Appliers \ {a} : apply[b].pc # "moving" /\ apply[b].at = Nothing
  BY <1>1, Moving
<1>3. PICK p \in PlanIds : p = apply[a].plan BY <1>2
<1>4. PICK f \in Files : f = apply[a].at BY <1>2
<1>5. apply[a].how \in {"move", "recover", "moved"} BY <1>2 DEF TakenUp, Applyings
<1>6. v \in {"moved", "kept"} BY <1>5 DEF Recovered
<1>7. /\ w \in Applyings /\ w.pc = "moving" /\ w.plan = p /\ w.left = apply[a].left /\ w.at = Nothing
  BY <1>2, <1>3 DEF Applyings
<1>8. /\ apply' \in [Appliers -> Applyings]
      /\ apply'[a] = w /\ \A b \in Appliers \ {a} : apply'[b] = apply[b]
      /\ AppliesSound' /\ OneMoves'
  BY <1>1, <1>2, <1>3, <1>7, StillSound
<1>9. /\ answer' \in [PlanIds -> [Files -> {"none", "moved", "kept"}]]
      /\ delivered \subseteq delivered'
      /\ journal \ {<<p, f>>} \subseteq journal' /\ journal' \subseteq journal
      /\ plan[p] # NoPlan /\ v = "moved" => f \in delivered'
  BY <1>1, <1>3, <1>4, <1>6, AnswersIs
<1>10. PlanTypes' BY <1>1, <1>8, <1>9 DEF PlansInv, PlanTypes
<1>11. TakenUpSound' BY <1>2, <1>7, <1>8 DEF TakenUpSound
<1>12. f \in orphaned \/ (<<p, f>> \in journal /\ Target(p, f) = apply[a].to) BY <1>2, <1>3, <1>4 DEF TakenUp
<1>13. ASSUME place[f] = Staging[settings] PROVE Reported(f, Nothing)'
  <2>1. CASE f \in orphaned BY <1>1, <2>1 DEF Reported
  <2>2. CASE f \notin orphaned /\ v = "moved"
    <3>1. plan[p] # NoPlan BY <1>12, <2>2 DEF PlansInv, JournalsSound, JournalSound
    <3>2. QED BY <1>9, <2>2, <3>1 DEF Reported
  <2>3. CASE f \notin orphaned /\ v # "moved"
    <3>1. Reported(f, p)
      <4>1. CASE apply[a].how = "move" BY <1>2, <1>3, <1>4, <1>13, <4>1 DEF TakenUp
      <4>2. CASE apply[a].how = "recover"
        <5>1. Recovered(f, apply[a].to) # "moved" BY <1>4, <2>3, <4>2
        <5>2. apply[a].to # Staging[settings] BY <1>13, <5>1 DEF Recovered
        <5>3. Reported(f, Nothing) BY <1>13 DEF PlansInv, StagedIsReported
        <5>4. Target(p, f) # place[f] BY <1>12, <1>13, <2>3, <5>2
        <5>5. QED BY <5>3, <5>4 DEF Reported
      <4>3. apply[a].how # "moved" BY <2>3
      <4>4. QED BY <1>5, <4>1, <4>2, <4>3
    <3>2. CASE f \in delivered BY <1>9, <3>2 DEF Reported
    <3>3. CASE f \notin delivered
      <4>1. PICK q \in PlanIds \ {p} : <<q, f>> \in journal /\ Target(q, f) = place[f]
        BY <2>3, <3>1, <3>3 DEF Reported
      <4>2. <<q, f>> \in journal' /\ q # Nothing BY <1>9, <4>1, PlansAssumption
      <4>3. Target(q, f)' = place'[f] BY <1>1, <4>1 DEF Target
      <4>4. QED BY <4>2, <4>3 DEF Reported
    <3>4. QED BY <3>2, <3>3
  <2>4. QED BY <2>1, <2>2, <2>3
<1>14. QED BY <1>1, <1>8, <1>9, <1>10, <1>11, <1>13, SettledKeeps

LEMMA ReconcileKeeps == ASSUME PlansInv, NEW p \in PlanIds, NEW f \in Files, Reconcile(p, f) PROVE PlansInv'
<1>1. /\ <<p, f>> \in journal /\ \A a \in Appliers : apply[a].at = Nothing
      /\ UNCHANGED <<settings, wanted, plan, purging, orphaned, job, scan, apply>>
  BY DEF Reconcile
<1>2. plan[p] # NoPlan BY <1>1 DEF PlansInv, JournalsSound, JournalSound
<1>3. AppliesSound' /\ OneMoves' /\ TakenUpSound'
  BY <1>1 DEF PlansInv, AppliesSound, OneMoves, TakenUpSound, ApplySound, Candidates, Active
<1>4. ASSUME NEW v \in {"moved", "kept"}, Answers(p, f, v),
             place' \in {place, [place EXCEPT ![f] = Staging[settings]]},
             v = "moved" \/ (place' = place /\ ~(Target(p, f) = Staging[settings] /\ place[f] = Target(p, f)))
      PROVE  PlansInv'
  <2>1. /\ answer' \in [PlanIds -> [Files -> {"none", "moved", "kept"}]]
        /\ delivered \subseteq delivered'
        /\ journal \ {<<p, f>>} \subseteq journal' /\ journal' \subseteq journal
        /\ v = "moved" => f \in delivered'
    BY <1>2, <1>4, AnswersIs
  <2>2. PlanTypes' BY <1>1, <2>1 DEF PlansInv, PlanTypes
  <2>3. ASSUME place'[f] = Staging[settings] PROVE Reported(f, Nothing)'
    <3>1. CASE v = "moved" BY <2>1, <3>1 DEF Reported
    <3>2. CASE v # "moved"
      <4>1. place[f] = Staging[settings] /\ Target(p, f) # place[f] BY <1>4, <2>3, <3>2
      <4>2. Reported(f, Nothing) BY <4>1 DEF PlansInv, StagedIsReported
      <4>3. CASE f \in delivered \cup orphaned BY <1>1, <2>1, <4>3 DEF Reported
      <4>4. CASE f \notin delivered \cup orphaned
        <5>1. PICK q \in PlanIds : <<q, f>> \in journal /\ Target(q, f) = place[f]
          BY <4>2, <4>4 DEF Reported
        <5>2. <<q, f>> \in journal' /\ q # Nothing BY <2>1, <4>1, <5>1, PlansAssumption
        <5>3. Target(q, f)' = place'[f] BY <1>1, <1>4, <3>2, <5>1 DEF Target
        <5>4. QED BY <5>2, <5>3 DEF Reported
      <4>5. QED BY <4>3, <4>4
    <3>3. QED BY <3>1, <3>2
  <2>4. QED BY <1>1, <1>3, <1>4, <2>1, <2>2, <2>3, SettledKeeps
<1>5. CASE Deliverable(f, Target(p, f))
  <2>1. place' = [place EXCEPT ![f] = Staging[settings]] /\ Answers(p, f, "moved")
    BY <1>5 DEF Reconcile, Deliverable
  <2>2. QED BY <1>4, <2>1
<1>6. CASE ~Deliverable(f, Target(p, f))
  <2>1. place' = place /\ Answers(p, f, Recovered(f, Target(p, f))) BY <1>6 DEF Reconcile
  <2>2. Recovered(f, Target(p, f)) \in {"moved", "kept"} BY DEF Recovered
  <2>3. Recovered(f, Target(p, f)) = "moved"
           \/ ~(Target(p, f) = Staging[settings] /\ place[f] = Target(p, f))
    BY DEF Recovered
  <2>4. QED BY <1>4, <2>1, <2>2, <2>3
<1>7. QED BY <1>5, <1>6

-----------------------------------------------------------------------------
LEMMA PlansNextKeeps == ASSUME PlansInv, NeverReturned, [PlansNext]_plansVars PROVE PlansInv'
<1>1. CASE UNCHANGED plansVars
  <2>1. /\ UNCHANGED <<settings, place, wanted, rows, scan, apply>> /\ UNCHANGED job
    BY <1>1 DEF plansVars, rows
  <2>2. PlanTypes' BY <2>1 DEF PlansInv, PlanTypes, rows
  <2>3. QED BY <2>1, <2>2, EndedKeeps DEF Active
<1>2. ASSUME NEW p \in PlanIds, StartPlan(p) \/ ScanSteps(p) \/ Expire(p) PROVE PlansInv'
  BY <1>2, StartPlanKeeps, BeginScanKeeps, ListActorKeeps, ActorsListedKeeps, LookInBrandKeeps, LookInOthersKeeps,
     LookFailsKeeps, TitlesLookedUpKeeps, QueueMissingKeeps, RecheckSettingsKeeps, SavePlanKeeps, FinishScanKeeps,
     StopScanKeeps, ExpireKeeps, Zenon DEF ScanSteps
<1>3. ASSUME NEW r \in Requests, EnqueueApply(r) \/ ClaimApply(r) \/ \E p \in PlanIds : RequestApply(r, p)
      PROVE  PlansInv'
  BY <1>3, EnqueueApplyKeeps, ClaimApplyKeeps, RequestApplyKeeps, Zenon
<1>4. ASSUME NEW a \in Appliers, ApplySteps(a) PROVE PlansInv'
  BY <1>4, BeginApplyKeeps, TakeCandidateKeeps, DeliverKeeps, AnswerKeeps, UnsettledKeeps, EndApplyKeeps, Zenon
  DEF ApplySteps
<1>5. QED
  <2>1. CASE PlansNext
    BY <2>1, <1>2, <1>3, <1>4, CallApplyKeeps, ReconcileKeeps, EndJobKeeps, ArchiveFileKeeps, SaveSettingsKeeps,
       PurgeFindsKeeps, PurgeKeeps, DieKeeps, Zenon DEF PlansNext
  <2>2. QED BY <1>1, <2>1

(* A stored plan is of one configuration and its scan accounts for every    *)
(* title; no file waits in the staging directory unreported, and only a     *)
(* finished scan's files move (save_plan, apply_plan, reconcile_moves): for *)
(* any libraries, plans, callers and settings, as long as a staging         *)
(* directory that was given up is not returned to.                          *)
THEOREM PlansStayAccounted == PlansSpec /\ NeverReturned => []PlansAccounted
<1>1. SUFFICES ASSUME NeverReturned PROVE PlansSpec => []PlansAccounted BY Zenon DEF NeverReturned
<1>2. PlansInit => PlansInv BY PlansInvAtFirst
<1>3. PlansInv /\ [PlansNext]_plansVars => PlansInv' BY <1>1, PlansNextKeeps
<1>4. PlansInv => PlansAccounted
  <2>1. SUFFICES ASSUME PlansInv PROVE PlansAccounted OBVIOUS
  <2>2. MovedIsReported BY <2>1 DEF PlansInv, StagedIsReported, Reported, MovedIsReported
  <2>3. OnlyFinishedPlansMove
    <3>1. \A c \in journal : c[1] \in PlanIds /\ c[2] \in Files /\ c = <<c[1], c[2]>>
      BY <2>1 DEF PlansInv, PlanTypes
    <3>2. QED BY <2>1, <3>1 DEF PlansInv, JournalsSound, JournalSound, OnlyFinishedPlansMove
  <2>4. QED BY <2>1, <2>2, <2>3 DEF PlansInv, PlansAccounted
<1>5. QED BY <1>2, <1>3, <1>4, PTL DEF PlansSpec

-----------------------------------------------------------------------------
(* Planning inside CloudDrive: the listings show what the scan has seen, and *)
(* every title it is through with stands as they showed.                    *)

CloudLooks == [pc : {"rest", "title", "mapping", "planned"}, left : Seq(Videos), todo : SUBSET Mappings,
               existing : SUBSET VideoPaths, listing : [ListedDirs -> (SUBSET VideoPaths) \cup {Unlisted}]]
TitleStates == {"none", "missing", "scan_failed", "exists", "additional_found"}
CloudPlans == [candidates : SUBSET Mappings, conflicts : SUBSET Mappings, state : [Videos -> TitleStates]]

PlanningTypes ==
    /\ onCloud \subseteq VideoPaths /\ look \in CloudLooks /\ planned \in CloudPlans

(* What is there was seen there, and what is not was seen to be away.       *)
SeenSince == onCloud \subseteq held /\ VideoPaths \ onCloud \subseteq free

ListingsSeen ==
    \A d \in ListedDirs : IsListed(d) =>
        /\ look.listing[d] \subseteq held
        /\ \A p \in VideoPaths : p[1] = d /\ p \notin look.listing[d] => p \in free

CandidateSound(m) ==
    /\ TargetOf[m] \in held \ Misnamed
    /\ m \notin planned.conflicts => Dest(m) \in free

CandidatesSound == \A m \in planned.candidates : CandidateSound(m)

WasStaged(v) == \E m \in Of(v) : TargetOf[m] # NoTarget /\ Dest(m) \in held

TitleDone(v) ==
    /\ planned.state[v] = "additional_found" <=> planned.candidates \intersect Of(v) # {}
    /\ planned.state[v] = "exists" => WasStaged(v)
    /\ planned.state[v] = "missing" <=> Of(v) = {}

TitlesDone == \A v \in Videos : TitleDone(v) \/ \E i \in 1 .. Len(look.left) : look.left[i] = v

AtTitle ==
    look.pc = "mapping" =>
        /\ look.left # <<>> /\ Of(NextVideo) # {} /\ look.todo \subseteq Of(NextVideo)
        /\ look.existing # {} => WasStaged(NextVideo)

PlannedIsWhole ==
    look.pc = "planned" =>
        /\ look.left = <<>>
        /\ \A m \in planned.candidates \ planned.conflicts, k \in planned.candidates : k # m => Dest(k) # Dest(m)

PlanningInv ==
    /\ PlanningTypes
    /\ look.pc # "rest" => /\ SeenSince /\ ListingsSeen /\ CandidatesSound
                           /\ TitlesDone /\ AtTitle /\ PlannedIsWhole

(* The first of a sequence, and the others.                                 *)
LEMMA FirstOrLater ==
    ASSUME NEW S, NEW s \in Seq(S), s # <<>>
    PROVE  /\ Head(s) \in S /\ Tail(s) \in Seq(S) /\ Head(s) = s[1] /\ 1 \in 1 .. Len(s)
           /\ \A i \in 1 .. Len(s) : s[i] = Head(s) \/ \E j \in 1 .. Len(Tail(s)) : Tail(s)[j] = s[i]
<1>1. Len(s) \in Nat /\ Len(s) > 0 BY SMT
<1>2. Head(s) \in S /\ Tail(s) \in Seq(S) /\ Head(s) = s[1] /\ 1 \in 1 .. Len(s) BY <1>1, SMT
<1>3. Len(Tail(s)) = Len(s) - 1 /\ \A j \in 1 .. Len(Tail(s)) : Tail(s)[j] = s[j + 1] BY <1>1, SMT
<1>4. ASSUME NEW i \in 1 .. Len(s), i # 1 PROVE \E j \in 1 .. Len(Tail(s)) : Tail(s)[j] = s[i]
  <2>1. i - 1 \in 1 .. Len(Tail(s)) /\ Tail(s)[i - 1] = s[i] BY <1>1, <1>3, <1>4, SMT
  <2>2. QED BY <2>1
<1>5. QED BY <1>2, <1>4

LEMMA PathsAreKnown ==
    ASSUME NEW m \in Mappings, TargetOf[m] # NoTarget
    PROVE  /\ TargetOf[m] \in VideoPaths /\ Dest(m) \in VideoPaths /\ TargetOf[m][1] \in ListedDirs
           /\ Dest(m)[1] = StagingOf[VideoOf[m]] /\ StagingOf[VideoOf[m]] \in ListedDirs
<1>1. TargetOf[m] \in VideoPaths /\ Dest(m) \in VideoPaths BY DEF VideoPaths, Targets
<1>2. QED BY <1>1 DEF ListedDirs, Dest

LEMMA EmptyIsPlan == Empty \in CloudPlans
BY DEF Empty, CloudPlans, TitleStates

LEMMA NotBegunIsLook == NotBegun \in CloudLooks
<1>1. << >> \in Seq(Videos) OBVIOUS
<1>2. QED BY <1>1 DEF NotBegun, CloudLooks

(* Who else is at CloudDrive adds to what was seen.                         *)
LEMMA MoreSeen ==
    ASSUME PlanningInv, UNCHANGED <<look, planned>>, onCloud' \subseteq VideoPaths,
           held \subseteq held', free \subseteq free', onCloud' \subseteq held', VideoPaths \ onCloud' \subseteq free'
    PROVE  PlanningInv'
<1>1. PlanningTypes' BY DEF PlanningInv, PlanningTypes
<1>2. \A v \in Videos : WasStaged(v) => WasStaged(v)' BY DEF WasStaged
<1>3. ASSUME look.pc # "rest"
      PROVE  (SeenSince /\ ListingsSeen /\ CandidatesSound /\ TitlesDone /\ AtTitle /\ PlannedIsWhole)'
  <2>1. SeenSince' BY DEF SeenSince
  <2>2. ListingsSeen' BY <1>3 DEF PlanningInv, ListingsSeen, IsListed
  <2>3. CandidatesSound' BY <1>3 DEF PlanningInv, CandidatesSound, CandidateSound
  <2>4. TitlesDone' BY <1>2, <1>3 DEF PlanningInv, TitlesDone, TitleDone
  <2>5. AtTitle'
    <3>1. look.pc = "mapping" => NextVideo \in Videos
      BY <1>3, FirstOrLater DEF PlanningInv, AtTitle, PlanningTypes, CloudLooks, NextVideo
    <3>2. QED BY <1>2, <1>3, <3>1 DEF PlanningInv, AtTitle, NextVideo
  <2>6. PlannedIsWhole' BY <1>3 DEF PlanningInv, PlannedIsWhole
  <2>7. QED BY <2>1, <2>2, <2>3, <2>4, <2>5, <2>6
<1>4. QED BY <1>1, <1>3 DEF PlanningInv

LEMMA OthersKeep ==
    ASSUME PlanningInv, NEW after \in SUBSET VideoPaths, Changes(after) PROVE PlanningInv'
<1>1. look.pc # "rest" => SeenSince BY DEF PlanningInv
<1>2. /\ UNCHANGED <<look, planned>> /\ onCloud' = after
      /\ held' = held \cup after /\ free' = free \cup (VideoPaths \ after)
  BY DEF Changes
<1>3. QED BY <1>2, MoreSeen

LEMMA BeginCloudScanKeeps == ASSUME PlanningInv, BeginCloudScan PROVE PlanningInv'
<1> DEFINE l == [NotBegun EXCEPT !.pc = "title", !.left = Order]
<1>1. /\ look' = l /\ planned' = Empty /\ held' = onCloud /\ free' = VideoPaths \ onCloud /\ onCloud' = onCloud
  BY DEF BeginCloudScan
<1>2. /\ l \in CloudLooks /\ l.pc = "title" /\ l.left = Order
      /\ l.listing = [d \in ListedDirs |-> Unlisted]
  BY NotBegunIsLook, PlanningAssumption DEF CloudLooks, NotBegun
<1>3. PlanningTypes' BY <1>1, <1>2, EmptyIsPlan DEF PlanningInv, PlanningTypes
<1>4. SeenSince' BY <1>1 DEF SeenSince
<1>5. ListingsSeen' BY <1>1, <1>2 DEF ListingsSeen, IsListed
<1>6. CandidatesSound' BY <1>1 DEF CandidatesSound, Empty
<1>7. TitlesDone'
  <2>1. SUFFICES ASSUME NEW v \in Videos PROVE \E i \in 1 .. Len(Order) : Order[i] = v
    BY <1>1, <1>2 DEF TitlesDone
  <2>2. PICK i \in DOMAIN Order : Order[i] = v BY DEF Videos
  <2>3. DOMAIN Order = 1 .. Len(Order) BY PlanningAssumption
  <2>4. QED BY <2>2, <2>3
<1>8. AtTitle' /\ PlannedIsWhole' BY <1>1, <1>2 DEF AtTitle, PlannedIsWhole
<1>9. QED BY <1>3, <1>4, <1>5, <1>6, <1>7, <1>8 DEF PlanningInv

(* The first title is done with: the next is taken.                         *)
LEMMA NextTitle ==
    ASSUME PlanningInv, look.pc \in {"title", "mapping"}, look.left # <<>>,
           look' = [look EXCEPT !.pc = "title", !.left = Tail(@)], UNCHANGED <<onCloud, held, free>>,
           planned' \in CloudPlans, CandidatesSound', NEW u \in Videos, u = NextVideo, TitleDone(u)',
           \A v \in Videos : v # u /\ TitleDone(v) => TitleDone(v)'
    PROVE  PlanningInv'
<1>1. look \in CloudLooks /\ look.left \in Seq(Videos) BY DEF PlanningInv, PlanningTypes, CloudLooks
<1>2. /\ NextVideo \in Videos /\ Tail(look.left) \in Seq(Videos)
      /\ \A i \in 1 .. Len(look.left) : look.left[i] = NextVideo
            \/ \E j \in 1 .. Len(Tail(look.left)) : Tail(look.left)[j] = look.left[i]
  BY <1>1, FirstOrLater DEF NextVideo
<1>3. /\ look' \in CloudLooks /\ look'.pc = "title" /\ look'.left = Tail(look.left)
      /\ look'.listing = look.listing
  BY <1>1, <1>2 DEF CloudLooks
<1>4. PlanningTypes' BY <1>3 DEF PlanningInv, PlanningTypes
<1>5. SeenSince /\ ListingsSeen /\ TitlesDone BY DEF PlanningInv
<1>6. SeenSince' /\ ListingsSeen' BY <1>3, <1>5 DEF SeenSince, ListingsSeen, IsListed
<1>7. TitlesDone'
  <2>1. SUFFICES ASSUME NEW v \in Videos
        PROVE TitleDone(v)' \/ \E i \in 1 .. Len(look'.left) : look'.left[i] = v
    BY DEF TitlesDone
  <2>2. CASE v = u BY <2>2
  <2>3. CASE v # u
    <3>1. CASE TitleDone(v) BY <2>3, <3>1
    <3>2. CASE ~TitleDone(v)
      <4>1. PICK i \in 1 .. Len(look.left) : look.left[i] = v BY <1>5, <3>2 DEF TitlesDone
      <4>2. QED BY <1>2, <1>3, <2>3, <4>1
    <3>3. QED BY <3>1, <3>2
  <2>4. QED BY <2>2, <2>3
<1>8. AtTitle' /\ PlannedIsWhole' BY <1>3 DEF AtTitle, PlannedIsWhole
<1>9. QED BY <1>4, <1>6, <1>7, <1>8 DEF PlanningInv

(* Nothing of another title was planned or concluded.                       *)
LEMMA OthersDone ==
    ASSUME planned' \in CloudPlans, planned \in CloudPlans, held' = held, NEW u \in Videos,
           \A v \in Videos : v # u => planned'.state[v] = planned.state[v],
           \A m \in Mappings : VideoOf[m] # u => (m \in planned'.candidates <=> m \in planned.candidates),
           NEW v \in Videos, v # u, TitleDone(v)
    PROVE  TitleDone(v)'
<1>1. planned'.candidates \intersect Of(v) = planned.candidates \intersect Of(v) BY DEF Of
<1>2. QED BY <1>1 DEF TitleDone, WasStaged

LEMMA AtNextTitle ==
    ASSUME PlanningInv, look.pc \in {"title", "mapping"}, look.pc = "title" => look.left # <<>>
    PROVE  /\ look \in CloudLooks /\ planned \in CloudPlans /\ look.left # <<>> /\ NextVideo \in Videos
           /\ SeenSince /\ ListingsSeen /\ CandidatesSound /\ TitlesDone /\ AtTitle
BY FirstOrLater DEF PlanningInv, PlanningTypes, CloudLooks, NextVideo, AtTitle

LEMMA TakeTitleKeeps == ASSUME PlanningInv, TakeTitle PROVE PlanningInv'
<1>1. look.pc = "title" /\ look.left # <<>> /\ UNCHANGED <<onCloud, held, free>> BY DEF TakeTitle
<1>2. /\ look \in CloudLooks /\ planned \in CloudPlans /\ NextVideo \in Videos
      /\ SeenSince /\ ListingsSeen /\ CandidatesSound /\ TitlesDone
  BY <1>1, AtNextTitle
<1>3. PICK u \in Videos : u = NextVideo BY <1>2
<1>4. CASE Of(u) = {}
  <2> DEFINE pl == [planned EXCEPT !.state[u] = "missing"]
  <2>1. look' = [look EXCEPT !.left = Tail(@)] /\ planned' = pl BY <1>3, <1>4 DEF TakeTitle
  <2>2. look' = [look EXCEPT !.pc = "title", !.left = Tail(@)] BY <1>1, <1>2, <2>1 DEF CloudLooks
  <2>3. /\ pl.candidates = planned.candidates /\ pl.conflicts = planned.conflicts
        /\ pl.state = [planned.state EXCEPT ![u] = "missing"]
    BY <1>2 DEF CloudPlans
  <2>4. [planned.state EXCEPT ![u] = "missing"] \in [Videos -> TitleStates] BY <1>2 DEF CloudPlans, TitleStates
  <2>5. pl \in CloudPlans BY <1>2, <2>4 DEF CloudPlans
  <2>6. CandidatesSound' BY <1>1, <1>2, <2>1, <2>3 DEF CandidatesSound, CandidateSound
  <2>7. pl.state[u] = "missing" /\ \A v \in Videos : v # u => pl.state[v] = planned.state[v]
    BY <1>2, <2>3 DEF CloudPlans
  <2>8. TitleDone(u)' BY <1>4, <2>1, <2>7 DEF TitleDone
  <2>9. \A v \in Videos : v # u /\ TitleDone(v) => TitleDone(v)'
    BY <1>1, <1>2, <2>1, <2>3, <2>5, <2>7, OthersDone
  <2>10. QED BY <1>1, <1>3, <2>1, <2>2, <2>5, <2>6, <2>8, <2>9, NextTitle
<1>5. CASE Of(u) # {}
  <2> DEFINE l == [look EXCEPT !.pc = "mapping", !.todo = Of(u), !.existing = {}]
  <2>1. look' = l /\ planned' = planned BY <1>3, <1>5 DEF TakeTitle
  <2>2. /\ l \in CloudLooks /\ l.pc = "mapping" /\ l.left = look.left /\ l.todo = Of(u) /\ l.existing = {}
        /\ l.listing = look.listing
    BY <1>2 DEF CloudLooks, Of
  <2>3. PlanningTypes' BY <1>1, <1>2, <2>1, <2>2 DEF PlanningInv, PlanningTypes
  <2>4. SeenSince' /\ ListingsSeen' BY <1>1, <1>2, <2>1, <2>2 DEF SeenSince, ListingsSeen, IsListed
  <2>5. CandidatesSound' BY <1>1, <1>2, <2>1 DEF CandidatesSound, CandidateSound
  <2>6. TitlesDone' BY <1>1, <1>2, <2>1, <2>2 DEF TitlesDone, TitleDone, WasStaged
  <2>7. AtTitle' BY <1>1, <1>3, <1>5, <2>1, <2>2 DEF AtTitle, NextVideo
  <2>8. PlannedIsWhole' BY <2>1, <2>2 DEF PlannedIsWhole
  <2>9. QED BY <2>3, <2>4, <2>5, <2>6, <2>7, <2>8 DEF PlanningInv
<1>6. QED BY <1>4, <1>5

LEMMA ListDirectoryKeeps == ASSUME PlanningInv, ListDirectory PROVE PlanningInv'
<1>1. look.pc = "mapping" /\ UNCHANGED <<onCloud, planned, held, free>> BY DEF ListDirectory
<1>2. /\ look \in CloudLooks /\ planned \in CloudPlans /\ NextVideo \in Videos
      /\ SeenSince /\ ListingsSeen /\ CandidatesSound /\ TitlesDone /\ AtTitle
  BY <1>1, AtNextTitle
<1>3. PICK d \in Wanted : ~IsListed(d) /\ look' = [look EXCEPT !.listing[d] = {p \in onCloud : p[1] = d}]
  BY DEF ListDirectory
<1> DEFINE there == {p \in onCloud : p[1] = d}
           l == [look EXCEPT !.listing = [look.listing EXCEPT ![d] = there]]
<1>4. look' = l BY <1>3
<1>5. onCloud \subseteq VideoPaths BY DEF PlanningInv, PlanningTypes
<1>6. [look.listing EXCEPT ![d] = there] \in [ListedDirs -> (SUBSET VideoPaths) \cup {Unlisted}]
  BY <1>2, <1>5 DEF CloudLooks
<1>7. /\ l \in CloudLooks /\ l.pc = "mapping" /\ l.left = look.left /\ l.todo = look.todo
      /\ l.existing = look.existing
      /\ \A e \in ListedDirs : l.listing[e] = look.listing[e] \/ (e = d /\ l.listing[e] = there)
  BY <1>1, <1>2, <1>6 DEF CloudLooks
<1>8. PlanningTypes' BY <1>1, <1>2, <1>4, <1>5, <1>7 DEF PlanningTypes
<1>9. SeenSince' BY <1>1, <1>2 DEF SeenSince
<1>10. ListingsSeen'
  <2>1. SUFFICES ASSUME NEW e \in ListedDirs, l.listing[e] # Unlisted
        PROVE  /\ l.listing[e] \subseteq held
               /\ \A p \in VideoPaths : p[1] = e /\ p \notin l.listing[e] => p \in free
    BY <1>1, <1>4 DEF ListingsSeen, IsListed
  <2>2. CASE l.listing[e] = look.listing[e] BY <1>2, <2>1, <2>2 DEF ListingsSeen, IsListed
  <2>3. CASE e = d /\ l.listing[e] = there BY <1>2, <2>3 DEF SeenSince
  <2>4. QED BY <1>7, <2>2, <2>3
<1>11. CandidatesSound' BY <1>1, <1>2 DEF CandidatesSound, CandidateSound
<1>12. TitlesDone' BY <1>1, <1>2, <1>4, <1>7 DEF TitlesDone, TitleDone, WasStaged
<1>13. AtTitle' BY <1>1, <1>2, <1>4, <1>7 DEF AtTitle, NextVideo, WasStaged
<1>14. PlannedIsWhole' BY <1>4, <1>7 DEF PlannedIsWhole
<1>15. QED BY <1>8, <1>9, <1>10, <1>11, <1>12, <1>13, <1>14 DEF PlanningInv

LEMMA ListingFailsKeeps == ASSUME PlanningInv, ListingFails PROVE PlanningInv'
<1>1. look.pc = "mapping" /\ UNCHANGED <<onCloud, held, free>> BY DEF ListingFails
<1>2. /\ look \in CloudLooks /\ planned \in CloudPlans /\ NextVideo \in Videos /\ look.left # <<>>
      /\ CandidatesSound /\ TitlesDone /\ AtTitle
  BY <1>1, AtNextTitle
<1>3. PICK u \in Videos : u = NextVideo BY <1>2
<1> DEFINE pl == [planned EXCEPT !.candidates = {m \in @ : VideoOf[m] # u},
                           !.conflicts = {m \in @ : VideoOf[m] # u}, !.state[u] = "scan_failed"]
<1>4. look' = [look EXCEPT !.pc = "title", !.left = Tail(@)] /\ planned' = pl BY <1>3 DEF ListingFails
<1>5. /\ pl.candidates = {m \in planned.candidates : VideoOf[m] # u}
      /\ pl.conflicts = {m \in planned.conflicts : VideoOf[m] # u}
      /\ pl.state = [planned.state EXCEPT ![u] = "scan_failed"]
  BY <1>2 DEF CloudPlans
<1>6. [planned.state EXCEPT ![u] = "scan_failed"] \in [Videos -> TitleStates] BY <1>2 DEF CloudPlans, TitleStates
<1>7. pl \in CloudPlans BY <1>2, <1>5, <1>6 DEF CloudPlans
<1>8. CandidatesSound' BY <1>1, <1>2, <1>4, <1>5 DEF CandidatesSound, CandidateSound
<1>9. pl.state[u] = "scan_failed" /\ \A v \in Videos : v # u => pl.state[v] = planned.state[v]
  BY <1>2, <1>5 DEF CloudPlans
<1>10. TitleDone(u)'
  <2>1. Of(u) # {} BY <1>1, <1>2, <1>3 DEF AtTitle
  <2>2. pl.candidates \intersect Of(u) = {} BY <1>5 DEF Of
  <2>3. QED BY <1>4, <1>9, <2>1, <2>2 DEF TitleDone
<1>11. \A v \in Videos : v # u /\ TitleDone(v) => TitleDone(v)'
  BY <1>1, <1>2, <1>4, <1>5, <1>7, <1>9, OthersDone
<1>12. QED BY <1>1, <1>2, <1>3, <1>4, <1>7, <1>8, <1>10, <1>11, NextTitle

LEMMA ConcludeTitleKeeps == ASSUME PlanningInv, ConcludeTitle PROVE PlanningInv'
<1>1. look.pc = "mapping" /\ UNCHANGED <<onCloud, held, free>> BY DEF ConcludeTitle
<1>2. /\ look \in CloudLooks /\ planned \in CloudPlans /\ NextVideo \in Videos /\ look.left # <<>>
      /\ CandidatesSound /\ TitlesDone /\ AtTitle
  BY <1>1, AtNextTitle
<1>3. PICK u \in Videos : u = NextVideo BY <1>2
<1> DEFINE state == IF \E m \in planned.candidates : VideoOf[m] = u THEN "additional_found"
                    ELSE IF look.existing # {} THEN "exists" ELSE "scan_failed"
           pl == [planned EXCEPT !.state[u] = state]
<1>4. look' = [look EXCEPT !.pc = "title", !.left = Tail(@)] /\ planned' = pl BY <1>3 DEF ConcludeTitle
<1>5. /\ pl.candidates = planned.candidates /\ pl.conflicts = planned.conflicts
      /\ pl.state = [planned.state EXCEPT ![u] = state]
  BY <1>2 DEF CloudPlans
<1>6. [planned.state EXCEPT ![u] = state] \in [Videos -> TitleStates] BY <1>2 DEF CloudPlans, TitleStates
<1>7. pl \in CloudPlans BY <1>2, <1>5, <1>6 DEF CloudPlans
<1>8. CandidatesSound' BY <1>1, <1>2, <1>4, <1>5 DEF CandidatesSound, CandidateSound
<1>9. pl.state[u] = state /\ \A v \in Videos : v # u => pl.state[v] = planned.state[v]
  BY <1>2, <1>5 DEF CloudPlans
<1>10. TitleDone(u)'
  <2>1. Of(u) # {} /\ (look.existing # {} => WasStaged(u)) BY <1>1, <1>2, <1>3 DEF AtTitle
  <2>2. planned.candidates \subseteq Mappings BY <1>2 DEF CloudPlans
  <2>3. planned.candidates \intersect Of(u) # {} <=> \E m \in planned.candidates : VideoOf[m] = u
    BY <2>2 DEF Of
  <2>4. pl.state[u] = "exists" => WasStaged(u)' BY <1>1, <1>9, <2>1 DEF WasStaged
  <2>5. QED BY <1>4, <1>5, <1>9, <2>1, <2>3, <2>4 DEF TitleDone
<1>11. \A v \in Videos : v # u /\ TitleDone(v) => TitleDone(v)'
  BY <1>1, <1>2, <1>4, <1>5, <1>7, <1>9, OthersDone
<1>12. QED BY <1>1, <1>2, <1>3, <1>4, <1>7, <1>8, <1>10, <1>11, NextTitle

LEMMA ConsiderKeeps == ASSUME PlanningInv, NEW m \in Mappings, Consider(m) PROVE PlanningInv'
<1> DEFINE there == TargetOf[m] # NoTarget /\ TargetOf[m] \in look.listing[TargetOf[m][1]]
           taken == TargetOf[m] # NoTarget /\ Dest(m) \in look.listing[StagingOf[NextVideo]]
           fits == there /\ TargetOf[m] \notin Misnamed
           existing == IF taken /\ ~there THEN look.existing \cup {Dest(m)} ELSE look.existing
           candidates == IF fits THEN planned.candidates \cup {m} ELSE planned.candidates
           conflicts == IF fits /\ taken THEN planned.conflicts \cup {m} ELSE planned.conflicts
           l == [look EXCEPT !.todo = look.todo \ {m}, !.existing = existing]
           pl == [planned EXCEPT !.candidates = candidates, !.conflicts = conflicts]
<1>1. /\ look.pc = "mapping" /\ m \in look.todo /\ IsListed(StagingOf[NextVideo])
      /\ TargetOf[m] # NoTarget => IsListed(TargetOf[m][1])
      /\ look' = l /\ planned' = pl
      /\ UNCHANGED <<onCloud, held, free>>
  BY DEF Consider
<1>2. /\ look \in CloudLooks /\ planned \in CloudPlans /\ NextVideo \in Videos /\ look.left # <<>>
      /\ SeenSince /\ ListingsSeen /\ CandidatesSound /\ TitlesDone /\ AtTitle
  BY <1>1, AtNextTitle
<1>3. m \in Of(NextVideo) /\ VideoOf[m] = NextVideo BY <1>1, <1>2 DEF AtTitle, Of
<1>4. /\ TargetOf[m] # NoTarget => Dest(m) \in VideoPaths
      /\ existing \subseteq VideoPaths
  BY <1>2, PathsAreKnown DEF CloudLooks
<1>5. /\ l \in CloudLooks /\ l.pc = "mapping" /\ l.left = look.left /\ l.todo = look.todo \ {m}
      /\ l.existing = existing /\ l.listing = look.listing
  BY <1>1, <1>2, <1>4 DEF CloudLooks
<1>6. /\ pl \in CloudPlans /\ pl.candidates = candidates /\ pl.conflicts = conflicts /\ pl.state = planned.state
  BY <1>2 DEF CloudPlans
<1>7. PlanningTypes' BY <1>1, <1>5, <1>6 DEF PlanningInv, PlanningTypes
<1>8. SeenSince' /\ ListingsSeen' BY <1>1, <1>2, <1>5 DEF SeenSince, ListingsSeen, IsListed
<1>9. there => TargetOf[m] \in held
  BY <1>1, <1>2, PathsAreKnown DEF ListingsSeen
<1>10. TargetOf[m] # NoTarget /\ ~taken => Dest(m) \in free
  BY <1>1, <1>2, <1>3, PathsAreKnown DEF ListingsSeen
<1>11. taken => Dest(m) \in held
  BY <1>1, <1>2, <1>3, PathsAreKnown DEF ListingsSeen
<1>12. CandidatesSound'
  <2>1. SUFFICES ASSUME NEW k \in candidates PROVE CandidateSound(k)' BY <1>1, <1>6 DEF CandidatesSound
  <2>2. CASE k \in planned.candidates
    <3>1. CandidateSound(k) BY <1>2, <2>2 DEF CandidatesSound
    <3>2. QED BY <1>1, <1>6, <3>1 DEF CandidateSound
  <2>3. CASE k \notin planned.candidates
    <3>1. k = m /\ fits BY <2>1, <2>3
    <3>2. m \notin conflicts => ~taken BY <3>1
    <3>3. QED BY <1>1, <1>6, <1>9, <1>10, <3>1, <3>2 DEF CandidateSound
  <2>4. QED BY <2>2, <2>3
<1>13. PICK u \in Videos : u = NextVideo BY <1>2
<1>14. \A v \in Videos : v # u /\ TitleDone(v) => TitleDone(v)'
  <2>1. \A k \in Mappings : VideoOf[k] # u => (k \in candidates <=> k \in planned.candidates) BY <1>3, <1>13
  <2>2. \A v \in Videos : v # u => pl.state[v] = planned.state[v] BY <1>6
  <2>3. planned' \in CloudPlans /\ held' = held /\ planned'.candidates = candidates /\ planned'.state = planned.state
    BY <1>1, <1>6
  <2>4. QED BY <1>2, <2>1, <2>3, OthersDone
<1>15. TitlesDone'
  <2>1. SUFFICES ASSUME NEW v \in Videos PROVE TitleDone(v)' \/ \E i \in 1 .. Len(look.left) : look.left[i] = v
    BY <1>1, <1>5 DEF TitlesDone
  <2>2. CASE v = u
    <3>1. look.left \in Seq(Videos) BY <1>2 DEF CloudLooks
    <3>2. 1 \in 1 .. Len(look.left) /\ look.left[1] = NextVideo BY <1>2, <3>1, FirstOrLater DEF NextVideo
    <3>3. QED BY <1>13, <2>2, <3>2
  <2>3. CASE v # u BY <1>2, <1>14, <2>3 DEF TitlesDone
  <2>4. QED BY <2>2, <2>3
<1>16. AtTitle'
  <2>1. WasStaged(u) => WasStaged(u)' BY <1>1 DEF WasStaged
  <2>2. taken => WasStaged(u) BY <1>3, <1>11, <1>13 DEF WasStaged
  <2>3. existing # {} => WasStaged(u)' BY <1>1, <1>2, <1>13, <2>1, <2>2 DEF AtTitle
  <2>4. Of(u) # {} /\ look.todo \ {m} \subseteq Of(u) BY <1>1, <1>2, <1>13 DEF AtTitle
  <2>5. u = Head(look'.left) /\ look'.left # <<>> /\ look'.todo = look.todo \ {m} /\ look'.existing = existing
    BY <1>1, <1>2, <1>5, <1>13 DEF NextVideo
  <2>6. look'.existing # {} => \E k \in Of(u) : TargetOf[k] # NoTarget /\ Dest(k) \in held'
    BY <2>3, <2>5 DEF WasStaged
  <2>7. QED BY <2>4, <2>5, <2>6 DEF AtTitle, NextVideo, WasStaged
<1>17. PlannedIsWhole' BY <1>1, <1>5 DEF PlannedIsWhole
<1>18. QED BY <1>7, <1>8, <1>12, <1>15, <1>16, <1>17 DEF PlanningInv

LEMMA MarkDuplicatesKeeps == ASSUME PlanningInv, MarkDuplicates PROVE PlanningInv'
<1> DEFINE l == [look EXCEPT !.pc = "planned"]
           pl == [planned EXCEPT !.conflicts = planned.conflicts \cup Duplicates]
<1>1. /\ look.pc = "title" /\ look.left = <<>> /\ look' = l /\ planned' = pl
      /\ UNCHANGED <<onCloud, held, free>>
  BY DEF MarkDuplicates
<1>2. /\ look \in CloudLooks /\ planned \in CloudPlans
      /\ SeenSince /\ ListingsSeen /\ CandidatesSound /\ TitlesDone
  BY <1>1 DEF PlanningInv, PlanningTypes
<1>3. l \in CloudLooks /\ l.pc = "planned" /\ l.left = <<>> /\ l.listing = look.listing
  BY <1>1, <1>2 DEF CloudLooks
<1>4. Duplicates \subseteq Mappings BY <1>2 DEF Duplicates, CloudPlans
<1>5. /\ pl \in CloudPlans /\ pl.candidates = planned.candidates /\ pl.state = planned.state
      /\ pl.conflicts = planned.conflicts \cup Duplicates
  BY <1>2, <1>4 DEF CloudPlans
<1>6. PlanningTypes' BY <1>1, <1>3, <1>5 DEF PlanningInv, PlanningTypes
<1>7. SeenSince' /\ ListingsSeen' BY <1>1, <1>2, <1>3 DEF SeenSince, ListingsSeen, IsListed
<1>8. CandidatesSound' BY <1>1, <1>2, <1>5 DEF CandidatesSound, CandidateSound
<1>9. TitlesDone' BY <1>1, <1>2, <1>3, <1>5 DEF TitlesDone, TitleDone, WasStaged
<1>10. AtTitle' BY <1>1, <1>3 DEF AtTitle
<1>11. PlannedIsWhole'
  <2>1. \A m \in planned.candidates \ (planned.conflicts \cup Duplicates), k \in planned.candidates :
            k # m => Dest(k) # Dest(m)
    BY DEF Duplicates
  <2>2. QED BY <1>1, <1>3, <1>5, <2>1 DEF PlannedIsWhole, Dest
<1>12. QED BY <1>6, <1>7, <1>8, <1>9, <1>10, <1>11 DEF PlanningInv

LEMMA PlanningNextKeeps == ASSUME PlanningInv, [PlanningNext]_planningVars PROVE PlanningInv'
<1> USE DEF PlanningNext
<1>1. CASE UNCHANGED planningVars
  <2>1. UNCHANGED <<onCloud, look, planned, held, free>> BY <1>1 DEF planningVars
  <2>2. QED BY <2>1 DEF PlanningInv, PlanningTypes, SeenSince, ListingsSeen, IsListed, CandidatesSound, CandidateSound,
                   TitlesDone, TitleDone, WasStaged, AtTitle, NextVideo, PlannedIsWhole
<1>2. CASE SaveCloudPlan
  <2>1. /\ look' = [look EXCEPT !.pc = "rest"] /\ UNCHANGED <<onCloud, planned>> BY <1>2 DEF SaveCloudPlan
  <2>2. look \in CloudLooks BY DEF PlanningInv, PlanningTypes
  <2>3. look' \in CloudLooks /\ look'.pc = "rest" BY <2>1, <2>2 DEF CloudLooks
  <2>4. QED BY <2>1, <2>3 DEF PlanningInv, PlanningTypes
<1>3. ASSUME NEW m \in Mappings, TargetOf[m] # NoTarget, MovedByOther(m) PROVE PlanningInv'
  <2>1. Dest(m) \in VideoPaths /\ onCloud \subseteq VideoPaths
    BY <1>3, PathsAreKnown DEF PlanningInv, PlanningTypes
  <2>2. PICK after \in SUBSET VideoPaths : after = (onCloud \ {TargetOf[m]}) \union {Dest(m)} BY <2>1
  <2>3. Changes(after) BY <1>3, <2>2 DEF MovedByOther
  <2>4. QED BY <2>3, OthersKeep
<1>4. ASSUME NEW v \in Videos, Archived(v) PROVE PlanningInv'
  <2>1. PICK p \in onCloud : Changes(onCloud \ {p}) BY <1>4 DEF Archived
  <2>2. PICK after \in SUBSET VideoPaths : after = onCloud \ {p} BY DEF PlanningInv, PlanningTypes
  <2>3. Changes(after) BY <2>1, <2>2
  <2>4. QED BY <2>3, OthersKeep
<1>5. ASSUME NEW p \in Arrivals, Arrives(p) PROVE PlanningInv'
  <2>1. p \in VideoPaths /\ onCloud \subseteq VideoPaths BY DEF PlanningInv, PlanningTypes, VideoPaths
  <2>2. PICK after \in SUBSET VideoPaths : after = onCloud \union {p} BY <2>1
  <2>3. Changes(after) BY <1>5, <2>2 DEF Arrives
  <2>4. QED BY <2>3, OthersKeep
<1>6. QED
  BY <1>1, <1>2, <1>3, <1>4, <1>5, BeginCloudScanKeeps, TakeTitleKeeps, ListDirectoryKeeps, ListingFailsKeeps,
     ConcludeTitleKeeps, MarkDuplicatesKeeps, ConsiderKeeps, Zenon

(* A plan of cloud moves holds what its scan saw, and accounts for every    *)
(* title (_scan_cloud_additional, _mark_duplicate_destination_conflicts):   *)
(* for any titles, strm files and listings, whoever moves videos meanwhile. *)
THEOREM CloudPlansAsSeen == PlanningSpec => []PlannedAsSeen
<1>1. PlanningInit => PlanningInv
  <2>1. SUFFICES ASSUME PlanningInit PROVE PlanningInv OBVIOUS
  <2>2. look.pc = "rest" BY <2>1 DEF PlanningInit, NotBegun
  <2>3. PlanningTypes BY <2>1, NotBegunIsLook, EmptyIsPlan DEF PlanningInit, PlanningTypes
  <2>4. QED BY <2>2, <2>3 DEF PlanningInv
<1>2. PlanningInv /\ [PlanningNext]_planningVars => PlanningInv' BY PlanningNextKeeps
<1>3. PlanningInv => PlannedAsSeen
  <2>1. SUFFICES ASSUME PlanningInv, look.pc = "planned" PROVE PlannedAsSeen BY DEF PlannedAsSeen
  <2>2. look.left = <<>> /\ CandidatesSound /\ TitlesDone BY <2>1 DEF PlanningInv, PlannedIsWhole
  <2>3. \A v \in Videos : TitleDone(v)
    <3>1. Len(look.left) = 0 BY <2>2
    <3>2. QED BY <2>2, <3>1 DEF TitlesDone
  <2>4. \A m \in planned.candidates \ planned.conflicts : \A k \in planned.candidates \ {m} : Dest(k) # Dest(m)
    BY <2>1 DEF PlanningInv, PlannedIsWhole
  <2>5. QED BY <2>2, <2>3, <2>4 DEF PlannedAsSeen, TitleDone, WasStaged, CandidatesSound, CandidateSound
<1>4. QED BY <1>1, <1>2, <1>3, PTL DEF PlanningSpec

-----------------------------------------------------------------------------
(* The migrations: what the titles are, and what each section became of.    *)

Titles == [id : Spellings, avid : Spellings, dir : Dirs \cup {EmptyText, NotThere}]
Releases == {3, 5, 6, 7, 8, 9, 12, 13, 18}

MigrationTypes ==
    /\ version \in Releases
    /\ failed \subseteq Spellings /\ titles \subseteq Titles
    /\ attempts \subseteq [avid : Spellings, of : Spellings]
    /\ old \in Old
    /\ version = 3 => titles = {} /\ attempts = {}

OneKeyEach == \A t, o \in titles : t.avid = o.avid => t = o

AttemptsKept == \A a \in attempts : \E t \in titles : t.id = a.of /\ t.avid = a.avid

KeysPadded ==
    version >= 13 => \A t \in titles :
        t.avid = Padded(t.avid) \/ \E o \in titles : o # t /\ Padded(o.avid) = Padded(t.avid)

CloudSection ==
    IF old.clouddrive = NotThere THEN NotThere
    ELSE [dir |-> IF version >= 8 THEN NoKey ELSE old.clouddrive.dir,
          named |-> IF version >= 6 THEN FALSE ELSE old.clouddrive.named]

ArchiveSection ==
    IF old.archive = NotThere THEN NotThere
    ELSE [interval |-> IF version >= 9 /\ old.archive.interval = 300 THEN 1800 ELSE old.archive.interval,
          local |-> IF version >= 7 THEN FALSE ELSE old.archive.local]

RssSection ==
    IF version < 8 \/ old.rss = NotThere THEN old.rss ELSE [categories |-> Categories(old)]

SectionsKept == sections = [clouddrive |-> CloudSection, archive |-> ArchiveSection, rss |-> RssSection]

NamesAdmitted ==
    /\ admitted = [pipelines |-> admitted.pipelines, stages |-> admitted.stages, merges |-> admitted.merges]
    /\ PipelineName \ {"playlists"} \subseteq admitted.pipelines
    /\ JobStage \ {"submitting"} \subseteq admitted.stages
    /\ version >= 12 => "submitting" \in admitted.stages
    /\ version >= 18 => "playlists" \in admitted.pipelines /\ MergeState \subseteq admitted.merges

MigrationsInv ==
    /\ MigrationTypes /\ OneKeyEach /\ AttemptsKept /\ KeysPadded /\ SectionsKept /\ NamesAdmitted

(* The padded spelling is one, and padding it again changes nothing.        *)
LEMMA PaddedIsSpelling ==
    ASSUME NEW a \in Spellings PROVE Padded(a) \in Spellings /\ Padded(Padded(a)) = Padded(a)
<1>1. a \in [brand : Brands, number : Numbers, width : 1 .. 4] BY DEF Spellings
<1>2. Digits(a.number) \in 1 .. 4 BY DEF Digits
<1>3. CASE a.brand \notin Catalog BY <1>3 DEF Padded
<1>4. CASE a.brand \in Catalog
  <2> DEFINE w == IF Digits(a.number) >= 3 THEN Digits(a.number) ELSE 3
             b == [a EXCEPT !.width = w]
  <2>1. w \in 1 .. 4 /\ w >= Digits(a.number) BY <1>2
  <2>2. /\ b \in [brand : Brands, number : Numbers, width : 1 .. 4]
        /\ b.brand = a.brand /\ b.number = a.number /\ b.width = w
    BY <1>1, <2>1
  <2>3. Padded(a) = b BY <1>4 DEF Padded
  <2>4. b \in Spellings BY <2>1, <2>2 DEF Spellings
  <2>5. Padded(b) = [b EXCEPT !.width = w] BY <1>4, <2>2 DEF Padded
  <2>6. [b EXCEPT !.width = w] = b BY <2>2
  <2>7. QED BY <2>3, <2>4, <2>5, <2>6
<1>5. QED BY <1>3, <1>4

(* A section with one of its keys set anew.                                 *)
LEMMA CloudKeySet ==
    ASSUME NEW r \in [dir : Dirs \cup {EmptyText, NoKey}, named : BOOLEAN]
    PROVE  /\ \A v \in BOOLEAN : [r EXCEPT !.named = v] = [dir |-> r.dir, named |-> v]
           /\ \A v : [r EXCEPT !.dir = v] = [dir |-> v, named |-> r.named]
OBVIOUS

LEMMA ArchiveKeySet ==
    ASSUME NEW r \in [interval : {300, 600}, local : BOOLEAN]
    PROVE  /\ \A v \in BOOLEAN : [r EXCEPT !.local = v] = [interval |-> r.interval, local |-> v]
           /\ \A v : [r EXCEPT !.interval = v] = [interval |-> v, local |-> r.local]
OBVIOUS

LEMMA MigrationsBegin == ASSUME MigrationsInit PROVE MigrationsInv
<1>1. MigrationTypes BY DEF MigrationsInit, MigrationTypes, Releases
<1>2. OneKeyEach /\ AttemptsKept /\ KeysPadded BY DEF MigrationsInit, OneKeyEach, AttemptsKept, KeysPadded
<1>3. version = 3 /\ old \in Old /\ sections = old BY DEF MigrationsInit
<1>4. old.clouddrive = CloudSection /\ old.archive = ArchiveSection /\ old.rss = RssSection
  BY <1>3 DEF CloudSection, ArchiveSection, RssSection, Old
<1>5. SectionsKept
  <2>1. old = [clouddrive |-> old.clouddrive, archive |-> old.archive, rss |-> old.rss] BY <1>3 DEF Old
  <2>2. QED BY <1>3, <1>4, <2>1 DEF SectionsKept
<1>6. NamesAdmitted BY DEF MigrationsInit, NamesAdmitted, PipelineName, JobStage, MergeState
<1>7. QED BY <1>1, <1>2, <1>5, <1>6 DEF MigrationsInv

(* Titles and their attempts, when a step does not touch them.              *)
LEMMA TitlesKeep ==
    ASSUME MigrationsInv, UNCHANGED <<titles, attempts>>, version' \in Releases, version' < 13 \/ version >= 13
    PROVE  OneKeyEach' /\ AttemptsKept' /\ KeysPadded'
<1>1. version \in Int /\ version' \in Int BY DEF MigrationsInv, MigrationTypes, Releases
<1>2. version' >= 13 => version >= 13 BY <1>1
<1>3. QED BY <1>2 DEF MigrationsInv, OneKeyEach, AttemptsKept, KeysPadded

LEMMA DiscoverKeeps == ASSUME MigrationsInv, Discover PROVE MigrationsInv'
<1>1. version >= 5 /\ UNCHANGED <<version, failed, sections, admitted, old>> BY DEF Discover
<1>2. PICK a \in Spellings, d \in Dirs \cup {NotThere} :
          /\ version >= 13 => a = Padded(a)
          /\ a \notin {t.avid : t \in titles}
          /\ titles' = titles \cup {[id |-> a, avid |-> a, dir |-> d]}
          /\ attempts' = attempts \cup {[avid |-> a, of |-> a]}
  BY DEF Discover
<1> DEFINE new == [id |-> a, avid |-> a, dir |-> d]
<1>3. MigrationTypes' BY <1>1, <1>2 DEF MigrationsInv, MigrationTypes, Titles
<1>4. OneKeyEach'
  <2>1. \A t \in titles : t.avid # a BY <1>2
  <2>2. QED BY <1>2, <2>1 DEF MigrationsInv, OneKeyEach
<1>5. AttemptsKept'
  <2>1. SUFFICES ASSUME NEW b \in attempts' PROVE \E t \in titles' : t.id = b.of /\ t.avid = b.avid
    BY DEF AttemptsKept
  <2>2. CASE b \in attempts BY <1>2, <2>2 DEF MigrationsInv, AttemptsKept
  <2>3. CASE b = [avid |-> a, of |-> a]
    <3>1. new \in titles' /\ new.id = b.of /\ new.avid = b.avid BY <1>2, <2>3
    <3>2. QED BY <3>1
  <2>4. QED BY <1>2, <2>1, <2>2, <2>3
<1>6. KeysPadded' BY <1>1, <1>2 DEF MigrationsInv, KeysPadded
<1>7. SectionsKept' BY <1>1 DEF MigrationsInv, SectionsKept, CloudSection, ArchiveSection, RssSection
<1>8. NamesAdmitted' BY <1>1 DEF MigrationsInv, NamesAdmitted
<1>9. QED BY <1>3, <1>4, <1>5, <1>6, <1>7, <1>8 DEF MigrationsInv

LEMMA CarryFailuresKeeps == ASSUME MigrationsInv, CarryFailures PROVE MigrationsInv'
<1>1. /\ version = 3 /\ version' = 5 /\ failed' = {}
      /\ titles' = {[id |-> a, avid |-> a, dir |-> NotThere] : a \in failed}
      /\ UNCHANGED <<attempts, sections, admitted, old>>
  BY DEF CarryFailures
<1>2. failed \subseteq Spellings /\ attempts = {} BY <1>1 DEF MigrationsInv, MigrationTypes
<1>3. MigrationTypes' BY <1>1, <1>2 DEF MigrationsInv, MigrationTypes, Titles, Releases
<1>4. OneKeyEach' /\ AttemptsKept' /\ KeysPadded' BY <1>1, <1>2 DEF OneKeyEach, AttemptsKept, KeysPadded
<1>5. SectionsKept' BY <1>1 DEF MigrationsInv, SectionsKept, CloudSection, ArchiveSection, RssSection
<1>6. NamesAdmitted' BY <1>1 DEF MigrationsInv, NamesAdmitted
<1>7. QED BY <1>3, <1>4, <1>5, <1>6 DEF MigrationsInv

(* What the sections are, field by field.                                   *)
LEMMA SectionsAre ==
    ASSUME MigrationsInv
    PROVE  /\ sections.clouddrive = CloudSection /\ sections.archive = ArchiveSection /\ sections.rss = RssSection
           /\ old.clouddrive # NotThere =>
                  old.clouddrive \in [dir : Dirs \cup {EmptyText, NoKey}, named : BOOLEAN]
           /\ old.archive # NotThere => old.archive \in [interval : {300, 600}, local : BOOLEAN]
           /\ old.rss # NotThere =>
                  old.rss \in [actor : Labels \cup {EmptyText, NoKey}, rank : Labels \cup {EmptyText, NoKey}]
           /\ sections.clouddrive = NotThere <=> old.clouddrive = NotThere
           /\ version < 9 => (sections.archive = NotThere <=> old.archive = NotThere)
<1>1. sections.clouddrive = CloudSection /\ sections.archive = ArchiveSection /\ sections.rss = RssSection
  BY DEF MigrationsInv, SectionsKept
<1>2. /\ old.clouddrive # NotThere =>
                  old.clouddrive \in [dir : Dirs \cup {EmptyText, NoKey}, named : BOOLEAN]
      /\ old.archive # NotThere => old.archive \in [interval : {300, 600}, local : BOOLEAN]
      /\ old.rss # NotThere =>
             old.rss \in [actor : Labels \cup {EmptyText, NoKey}, rank : Labels \cup {EmptyText, NoKey}]
  BY DEF MigrationsInv, MigrationTypes, Old
<1>3. old.clouddrive # NotThere => CloudSection \in [dir : Dirs \cup {EmptyText, NoKey}, named : BOOLEAN]
  <2> DEFINE dir == IF version >= 8 THEN NoKey ELSE old.clouddrive.dir
             named == IF version >= 6 THEN FALSE ELSE old.clouddrive.named
  <2>1. SUFFICES ASSUME old.clouddrive # NotThere
        PROVE CloudSection \in [dir : Dirs \cup {EmptyText, NoKey}, named : BOOLEAN]
    OBVIOUS
  <2>2. dir \in Dirs \cup {EmptyText, NoKey} /\ named \in BOOLEAN
    <3>1. old.clouddrive \in [dir : Dirs \cup {EmptyText, NoKey}, named : BOOLEAN] BY <1>2, <2>1
    <3>2. old.clouddrive.dir \in Dirs \cup {EmptyText, NoKey} BY <3>1
    <3>3. old.clouddrive.named \in BOOLEAN BY <3>1
    <3>4. dir \in Dirs \cup {EmptyText, NoKey} BY <3>2
    <3>5. CASE version >= 6
      <4>1. named = FALSE BY <3>5
      <4>2. QED BY <3>4, <4>1
    <3>6. CASE ~(version >= 6)
      <4>1. named = old.clouddrive.named BY <3>6
      <4>2. QED BY <3>3, <3>4, <4>1
    <3>7. QED BY <3>5, <3>6
  <2>3. CloudSection = [dir |-> dir, named |-> named] BY <2>1 DEF CloudSection
  <2>4. QED BY <2>2, <2>3
<1>4. old.archive # NotThere /\ version < 9 => ArchiveSection \in [interval : {300, 600}, local : BOOLEAN]
  <2> DEFINE interval == IF version >= 9 /\ old.archive.interval = 300 THEN 1800 ELSE old.archive.interval
             local == IF version >= 7 THEN FALSE ELSE old.archive.local
  <2>1. SUFFICES ASSUME old.archive # NotThere, version < 9
        PROVE ArchiveSection \in [interval : {300, 600}, local : BOOLEAN]
    OBVIOUS
  <2>2. version \in Int BY DEF MigrationsInv, MigrationTypes, Releases
  <2>3. ~(version >= 9) BY <2>1, <2>2
  <2>4. interval \in {300, 600} /\ local \in BOOLEAN
    <3>1. old.archive \in [interval : {300, 600}, local : BOOLEAN] BY <1>2, <2>1
    <3>2. interval = old.archive.interval BY <2>3
    <3>3. old.archive.local \in BOOLEAN BY <3>1
    <3>4. local \in BOOLEAN
      <4>1. CASE version >= 7
        <5>1. local = FALSE BY <4>1
        <5>2. QED BY <5>1
      <4>2. CASE ~(version >= 7)
        <5>1. local = old.archive.local BY <4>2
        <5>2. QED BY <3>3, <5>1
      <4>3. QED BY <4>1, <4>2
    <3>5. interval \in {300, 600} BY <3>1, <3>2
    <3>6. QED BY <3>4, <3>5, Zenon
  <2>5. ArchiveSection = [interval |-> interval, local |-> local] BY <2>1 DEF ArchiveSection
  <2>6. QED BY <2>4, <2>5, Zenon
<1>5. old.clouddrive = NotThere => CloudSection = NotThere BY DEF CloudSection
<1>6. old.archive = NotThere => ArchiveSection = NotThere BY DEF ArchiveSection
<1>7. QED BY <1>1, <1>2, <1>3, <1>4, <1>5, <1>6, MigrationsAssumption

(* A migration that only touches the sections.                              *)
LEMMA SectionStep ==
    ASSUME MigrationsInv, UNCHANGED <<failed, titles, attempts, admitted, old>>, version' \in Releases \ {3},
           version' < 12, version < version', SectionsKept'
    PROVE  MigrationsInv'
<1>1. version \in Int /\ version' \in Int BY DEF MigrationsInv, MigrationTypes, Releases
<1>2. MigrationTypes' BY DEF MigrationsInv, MigrationTypes
<1>3. OneKeyEach' /\ AttemptsKept' /\ KeysPadded' BY <1>1, TitlesKeep
<1>4. NamesAdmitted' BY <1>1 DEF MigrationsInv, NamesAdmitted
<1>5. QED BY <1>2, <1>3, <1>4 DEF MigrationsInv

LEMMA StripCloudKeysKeeps == ASSUME MigrationsInv, StripCloudKeys PROVE MigrationsInv'
<1>1. /\ version = 5 /\ version' = 6 /\ UNCHANGED <<failed, titles, attempts, admitted, old>>
      /\ sections' = IF sections.clouddrive = NotThere THEN sections
                     ELSE [sections EXCEPT !.clouddrive.named = FALSE]
  BY DEF StripCloudKeys
<1>2. /\ sections = [clouddrive |-> CloudSection, archive |-> ArchiveSection, rss |-> RssSection]
      /\ sections.clouddrive = NotThere <=> old.clouddrive = NotThere
  BY SectionsAre DEF MigrationsInv, SectionsKept
<1>3. ArchiveSection' = ArchiveSection /\ RssSection' = RssSection BY <1>1 DEF ArchiveSection, RssSection
<1>4. SectionsKept'
  <2>1. CASE old.clouddrive = NotThere
    <3>1. CloudSection' = CloudSection BY <1>1, <2>1 DEF CloudSection
    <3>2. QED BY <1>1, <1>2, <1>3, <2>1, <3>1 DEF SectionsKept
  <2>2. CASE old.clouddrive # NotThere
    <3>1. CloudSection = [dir |-> old.clouddrive.dir, named |-> old.clouddrive.named]
      BY <1>1, <2>2 DEF CloudSection
    <3>2. CloudSection' = [dir |-> old.clouddrive.dir, named |-> FALSE] BY <1>1, <2>2 DEF CloudSection
    <3>3. [CloudSection EXCEPT !.named = FALSE] = CloudSection'
      <4>1. old.clouddrive \in [dir : Dirs \cup {EmptyText, NoKey}, named : BOOLEAN] BY <2>2, SectionsAre
      <4>2. CloudSection \in [dir : Dirs \cup {EmptyText, NoKey}, named : BOOLEAN] /\ CloudSection.dir = old.clouddrive.dir
        BY <3>1, <4>1
      <4>3. QED BY <3>2, <4>2, CloudKeySet
    <3>4. sections' = [sections EXCEPT !.clouddrive = [CloudSection EXCEPT !.named = FALSE]]
      BY <1>1, <1>2, <2>2
    <3>5. QED BY <1>2, <1>3, <3>3, <3>4 DEF SectionsKept
  <2>3. QED BY <2>1, <2>2
<1>5. QED BY <1>1, <1>4, SectionStep DEF Releases

LEMMA StripArchiveKeysKeeps == ASSUME MigrationsInv, StripArchiveKeys PROVE MigrationsInv'
<1>1. /\ version = 6 /\ version' = 7 /\ UNCHANGED <<failed, titles, attempts, admitted, old>>
      /\ sections' = IF sections.archive = NotThere THEN sections
                     ELSE [sections EXCEPT !.archive.local = FALSE]
  BY DEF StripArchiveKeys
<1>2. /\ sections = [clouddrive |-> CloudSection, archive |-> ArchiveSection, rss |-> RssSection]
      /\ sections.archive = NotThere <=> old.archive = NotThere
  BY <1>1, SectionsAre DEF MigrationsInv, SectionsKept
<1>3. CloudSection' = CloudSection /\ RssSection' = RssSection BY <1>1 DEF CloudSection, RssSection
<1>4. SectionsKept'
  <2>1. CASE old.archive = NotThere
    <3>1. ArchiveSection' = ArchiveSection BY <1>1, <2>1 DEF ArchiveSection
    <3>2. QED BY <1>1, <1>2, <1>3, <2>1, <3>1 DEF SectionsKept
  <2>2. CASE old.archive # NotThere
    <3>1. ArchiveSection = [interval |-> old.archive.interval, local |-> old.archive.local]
      BY <1>1, <2>2 DEF ArchiveSection
    <3>2. ArchiveSection' = [interval |-> old.archive.interval, local |-> FALSE] BY <1>1, <2>2 DEF ArchiveSection
    <3>3. [ArchiveSection EXCEPT !.local = FALSE] = ArchiveSection'
      <4>1. old.archive \in [interval : {300, 600}, local : BOOLEAN] BY <2>2, SectionsAre
      <4>2. ArchiveSection \in [interval : {300, 600}, local : BOOLEAN] /\ ArchiveSection.interval = old.archive.interval
        BY <3>1, <4>1
      <4>3. [ArchiveSection EXCEPT !.local = FALSE] = [interval |-> ArchiveSection.interval, local |-> FALSE]
        BY <4>2, ArchiveKeySet
      <4>4. [interval |-> ArchiveSection.interval, local |-> FALSE] = [interval |-> old.archive.interval, local |-> FALSE]
        BY <4>2
      <4>5. QED BY <3>2, <4>3, <4>4
    <3>4. sections' = [sections EXCEPT !.archive = [ArchiveSection EXCEPT !.local = FALSE]]
      BY <1>1, <1>2, <2>2
    <3>5. QED BY <1>2, <1>3, <3>3, <3>4 DEF SectionsKept
  <2>3. QED BY <2>1, <2>2
<1>5. QED BY <1>1, <1>4, SectionStep DEF Releases

LEMMA RaiseIntervalKeeps == ASSUME MigrationsInv, RaiseInterval PROVE MigrationsInv'
<1>1. /\ version = 8 /\ version' = 9 /\ UNCHANGED <<failed, titles, attempts, admitted, old>>
      /\ sections' = IF sections.archive # NotThere /\ sections.archive.interval = 300
                     THEN [sections EXCEPT !.archive.interval = 1800] ELSE sections
  BY DEF RaiseInterval
<1>2. /\ sections = [clouddrive |-> CloudSection, archive |-> ArchiveSection, rss |-> RssSection]
      /\ sections.archive = NotThere <=> old.archive = NotThere
  BY <1>1, SectionsAre DEF MigrationsInv, SectionsKept
<1>3. CloudSection' = CloudSection /\ RssSection' = RssSection BY <1>1 DEF CloudSection, RssSection
<1>4. SectionsKept'
  <2>1. CASE old.archive = NotThere
    <3>1. ArchiveSection' = ArchiveSection BY <1>1, <2>1 DEF ArchiveSection
    <3>2. QED BY <1>1, <1>2, <1>3, <2>1, <3>1 DEF SectionsKept
  <2>2. CASE old.archive # NotThere
    <3>1. ArchiveSection = [interval |-> old.archive.interval, local |-> FALSE]
      BY <1>1, <2>2 DEF ArchiveSection
    <3>2. ArchiveSection' = [interval |-> IF old.archive.interval = 300 THEN 1800 ELSE old.archive.interval,
                             local |-> FALSE]
      BY <1>1, <2>2 DEF ArchiveSection
    <3>3. CASE old.archive.interval = 300
      <4>1. [ArchiveSection EXCEPT !.interval = 1800] = ArchiveSection'
        <5>1. old.archive \in [interval : {300, 600}, local : BOOLEAN] BY <2>2, SectionsAre
        <5>2. ArchiveSection \in [interval : {300, 600}, local : BOOLEAN] /\ ArchiveSection.local = FALSE
          BY <3>1, <5>1
        <5>3. [ArchiveSection EXCEPT !.interval = 1800] = [interval |-> 1800, local |-> ArchiveSection.local]
          BY <5>2, ArchiveKeySet
        <5>4. PICK l \in BOOLEAN : l = FALSE OBVIOUS
        <5>5. ArchiveSection.local = l BY <5>2, <5>4
        <5> DEFINE raised == IF version' >= 9 /\ old.archive.interval = 300 THEN 1800 ELSE old.archive.interval
                   gone == IF version' >= 7 THEN FALSE ELSE old.archive.local
        <5>6. ArchiveSection' = [interval |-> raised, local |-> gone] BY <1>1, <2>2 DEF ArchiveSection
        <5>7. raised = 1800 BY <1>1, <3>3
        <5>8. gone = l
          <6>1. version' >= 7 BY <1>1
          <6>2. gone = FALSE BY <6>1, Zenon
          <6>3. QED BY <5>4, <6>2
        <5> HIDE DEF raised, gone
        <5>9. QED BY <5>3, <5>5, <5>6, <5>7, <5>8
      <4>2. sections' = [sections EXCEPT !.archive = [ArchiveSection EXCEPT !.interval = 1800]]
        BY <1>1, <1>2, <2>2, <3>1, <3>3
      <4>3. QED BY <1>2, <1>3, <4>1, <4>2 DEF SectionsKept
    <3>4. CASE old.archive.interval # 300
      <4>1. ArchiveSection = ArchiveSection' BY <3>1, <3>2, <3>4
      <4>2. sections' = sections BY <1>1, <1>2, <3>1, <3>4
      <4>3. QED BY <1>2, <1>3, <4>1, <4>2 DEF SectionsKept
    <3>5. QED BY <3>3, <3>4
  <2>3. QED BY <2>1, <2>2
<1>5. QED BY <1>1, <1>4, SectionStep DEF Releases

LEMMA OwnDirectoriesKeeps == ASSUME MigrationsInv, OwnDirectories PROVE MigrationsInv'
<1>1. /\ version = 7 /\ version' = 8 /\ UNCHANGED <<failed, attempts, admitted, old>>
      /\ titles' = {[t EXCEPT !.dir = Inbox(sections)] : t \in titles}
      /\ sections' = [sections EXCEPT
             !.rss = IF sections.rss = NotThere THEN sections.rss ELSE [categories |-> Categories(sections)],
             !.clouddrive = Undirected(sections.clouddrive)]
  BY DEF OwnDirectories
<1>2. /\ sections = [clouddrive |-> CloudSection, archive |-> ArchiveSection, rss |-> RssSection]
      /\ sections.clouddrive = NotThere <=> old.clouddrive = NotThere
      /\ old.clouddrive # NotThere =>
             old.clouddrive \in [dir : Dirs \cup {EmptyText, NoKey}, named : BOOLEAN]
  BY SectionsAre DEF MigrationsInv, SectionsKept
<1>3. sections.rss = old.rss BY <1>1, <1>2 DEF RssSection
<1>4. old.clouddrive # NotThere => sections.clouddrive = [dir |-> old.clouddrive.dir, named |-> FALSE]
  BY <1>1, <1>2 DEF CloudSection
<1>5. Inbox(sections) = Inbox(old) BY <1>2, <1>4 DEF Inbox
<1>6. Categories(sections) = Categories(old) BY <1>3, <1>5 DEF Categories
<1>7. Inbox(sections) \in Dirs \cup {EmptyText, NotThere} BY <1>2, <1>5 DEF Inbox
<1>8. titles \subseteq Titles /\ attempts \subseteq [avid : Spellings, of : Spellings]
  BY DEF MigrationsInv, MigrationTypes
<1> DEFINE moved(t) == [t EXCEPT !.dir = Inbox(sections)]
<1>9. \A t \in titles : /\ moved(t) \in Titles /\ moved(t) \in titles'
                        /\ moved(t).id = t.id /\ moved(t).avid = t.avid
  BY <1>1, <1>7, <1>8 DEF Titles
<1>10. \A o \in titles' : \E t \in titles : o = moved(t) BY <1>1
<1>11. MigrationTypes'
  <2>1. titles' \subseteq Titles BY <1>9, <1>10
  <2>2. QED BY <1>1, <2>1 DEF MigrationsInv, MigrationTypes, Releases
<1>12. OneKeyEach'
  <2>1. SUFFICES ASSUME NEW t \in titles', NEW o \in titles', t.avid = o.avid PROVE t = o BY DEF OneKeyEach
  <2>2. PICK u \in titles : t = moved(u) BY <1>10
  <2>3. PICK v \in titles : o = moved(v) BY <1>10
  <2>4. u.avid = v.avid BY <1>9, <2>1, <2>2, <2>3
  <2>5. QED BY <2>2, <2>3, <2>4 DEF MigrationsInv, OneKeyEach
<1>13. AttemptsKept'
  <2>1. SUFFICES ASSUME NEW a \in attempts PROVE \E t \in titles' : t.id = a.of /\ t.avid = a.avid
    BY <1>1 DEF AttemptsKept
  <2>2. PICK t \in titles : t.id = a.of /\ t.avid = a.avid BY DEF MigrationsInv, AttemptsKept
  <2>3. QED BY <1>9, <2>2
<1>14. KeysPadded' BY <1>1 DEF KeysPadded
<1>15. NamesAdmitted' BY <1>1 DEF MigrationsInv, NamesAdmitted
<1>16. SectionsKept'
  <2>1. ArchiveSection' = ArchiveSection BY <1>1 DEF ArchiveSection
  <2>2. RssSection' = IF old.rss = NotThere THEN old.rss ELSE [categories |-> Categories(old)]
    <3>1. Categories(old)' = Categories(old) BY <1>1 DEF Categories, OldLabels, Inbox
    <3>2. QED BY <1>1, <3>1 DEF RssSection
  <2>3. CloudSection' = Undirected(sections.clouddrive)
    <3>1. CASE old.clouddrive = NotThere BY <1>1, <1>2, <3>1 DEF CloudSection, Undirected
    <3>2. CASE old.clouddrive # NotThere
      <4>1. Undirected(sections.clouddrive) = [sections.clouddrive EXCEPT !.dir = NoKey]
        BY <1>2, <3>2 DEF Undirected
      <4>2. CloudSection' = [dir |-> NoKey, named |-> FALSE] BY <1>1, <3>2 DEF CloudSection
      <4>3. /\ sections.clouddrive \in [dir : Dirs \cup {EmptyText, NoKey}, named : BOOLEAN]
            /\ sections.clouddrive.named = FALSE
        <5>1. old.clouddrive \in [dir : Dirs \cup {EmptyText, NoKey}, named : BOOLEAN] BY <1>2, <3>2
        <5>2. old.clouddrive.dir \in Dirs \cup {EmptyText, NoKey} BY <5>1
        <5>3. sections.clouddrive = [dir |-> old.clouddrive.dir, named |-> FALSE] BY <1>4, <3>2
        <5>4. QED BY <5>2, <5>3
      <4>4. QED BY <4>1, <4>2, <4>3, CloudKeySet
    <3>3. QED BY <3>1, <3>2
  <2>4. QED BY <1>1, <1>2, <1>3, <1>6, <2>1, <2>2, <2>3 DEF SectionsKept
<1>17. QED BY <1>11, <1>12, <1>13, <1>14, <1>15, <1>16 DEF MigrationsInv

(* The migrations after the settings: the sections stay.                    *)
LEMMA SectionsStay ==
    ASSUME MigrationsInv, UNCHANGED <<old, sections>>, version >= 9, version' \in Releases, version' >= 9
    PROVE  SectionsKept'
<1>1. version \in Int /\ version' \in Int BY DEF MigrationsInv, MigrationTypes, Releases
<1>2. version >= 8 /\ version' >= 8 /\ version >= 7 /\ version' >= 7 /\ version >= 6 /\ version' >= 6
      /\ ~(version < 8) /\ ~(version' < 8)
  BY <1>1
<1>3. CloudSection' = CloudSection BY <1>2 DEF CloudSection
<1>4. ArchiveSection' = ArchiveSection BY <1>2 DEF ArchiveSection
<1>5. RssSection' = RssSection BY <1>2 DEF RssSection, Categories, OldLabels, Inbox
<1>6. QED BY <1>3, <1>4, <1>5 DEF MigrationsInv, SectionsKept

LEMMA AdmitSubmittingKeeps == ASSUME MigrationsInv, AdmitSubmitting PROVE MigrationsInv'
<1>1. /\ version = 9 /\ version' = 12 /\ UNCHANGED <<failed, titles, attempts, sections, old>>
      /\ admitted' = [admitted EXCEPT !.stages = @ \cup {"submitting"}]
  BY DEF AdmitSubmitting
<1>2. MigrationTypes' BY <1>1 DEF MigrationsInv, MigrationTypes, Releases
<1>3. OneKeyEach' /\ AttemptsKept' /\ KeysPadded' BY <1>1, TitlesKeep DEF Releases
<1>4. SectionsKept' BY <1>1, SectionsStay DEF Releases
<1>5. /\ admitted'.pipelines = admitted.pipelines /\ admitted'.stages = admitted.stages \cup {"submitting"}
      /\ admitted' = [pipelines |-> admitted'.pipelines, stages |-> admitted'.stages, merges |-> admitted'.merges]
  BY <1>1 DEF MigrationsInv, NamesAdmitted
<1>6. NamesAdmitted' BY <1>1, <1>5 DEF MigrationsInv, NamesAdmitted
<1>7. QED BY <1>2, <1>3, <1>4, <1>6 DEF MigrationsInv

LEMMA AdmitNewPipelinesKeeps == ASSUME MigrationsInv, AdmitNewPipelines PROVE MigrationsInv'
<1>1. /\ version = 13 /\ version' = 18 /\ UNCHANGED <<failed, titles, attempts, sections, old>>
      /\ admitted' = [admitted EXCEPT !.pipelines = @ \cup {"playlists"}, !.merges = MergeState]
  BY DEF AdmitNewPipelines, MergeState
<1>2. MigrationTypes' BY <1>1 DEF MigrationsInv, MigrationTypes, Releases
<1>3. OneKeyEach' /\ AttemptsKept' /\ KeysPadded' BY <1>1, TitlesKeep DEF Releases
<1>4. SectionsKept' BY <1>1, SectionsStay DEF Releases
<1>5. /\ admitted'.pipelines = admitted.pipelines \cup {"playlists"} /\ admitted'.stages = admitted.stages
      /\ admitted'.merges = MergeState
      /\ admitted' = [pipelines |-> admitted'.pipelines, stages |-> admitted'.stages, merges |-> admitted'.merges]
  BY <1>1 DEF MigrationsInv, NamesAdmitted
<1>6. NamesAdmitted' BY <1>1, <1>5 DEF MigrationsInv, NamesAdmitted
<1>7. QED BY <1>2, <1>3, <1>4, <1>6 DEF MigrationsInv

(* A title that is renamed takes its padded key, which only it would.       *)
LEMMA RenamedIs ==
    ASSUME MigrationsInv, NEW t \in titles
    PROVE  /\ Renamed(t) \in Titles /\ Renamed(t).id = t.id
           /\ Padded(Renamed(t).avid) = Padded(t.avid)
           /\ \/ Renamed(t) = t
              \/ /\ Renamed(t).avid = Padded(t.avid)
                 /\ \A o \in titles : o.avid # Padded(t.avid)
                 /\ \A o \in titles : Padded(o.avid) = Padded(t.avid) => o = t
           /\ Renamed(t) = t => Padded(t.avid) = t.avid \/ \E o \in titles : o # t /\ Padded(o.avid) = Padded(t.avid)
<1>1. t \in Titles /\ t.avid \in Spellings BY DEF MigrationsInv, MigrationTypes, Titles
<1>2. Padded(t.avid) \in Spellings /\ Padded(Padded(t.avid)) = Padded(t.avid) BY <1>1, PaddedIsSpelling
<1> DEFINE key == Padded(t.avid)
           untaken == key \notin {o.avid : o \in titles} /\ \A o \in titles : Padded(o.avid) = key => o = t
<1>3. CASE untaken
  <2>1. Renamed(t) = [t EXCEPT !.avid = key] BY <1>3 DEF Renamed
  <2>2. Renamed(t) \in Titles /\ Renamed(t).id = t.id /\ Renamed(t).avid = key BY <1>1, <1>2, <2>1 DEF Titles
  <2>3. Renamed(t) # t BY <1>3, <2>2
  <2>4. QED BY <1>2, <1>3, <2>2, <2>3
<1>4. CASE ~untaken
  <2>1. Renamed(t) = t BY <1>4 DEF Renamed
  <2>2. key = t.avid \/ \E o \in titles : o # t /\ Padded(o.avid) = key
    <3>1. CASE key \in {o.avid : o \in titles}
      <4>1. PICK o \in titles : o.avid = key BY <3>1
      <4>2. Padded(o.avid) = key BY <1>2, <4>1
      <4>3. QED BY <4>1, <4>2
    <3>2. CASE key \notin {o.avid : o \in titles} BY <1>4, <3>2
    <3>3. QED BY <3>1, <3>2
  <2>3. QED BY <1>1, <2>1, <2>2
<1>5. QED BY <1>3, <1>4

LEMMA RenamedApart ==
    ASSUME MigrationsInv, NEW t \in titles, NEW o \in titles, Renamed(t).avid = Renamed(o).avid
    PROVE  t = o
<1>1. CASE Renamed(t) = t /\ Renamed(o) = o BY <1>1 DEF MigrationsInv, OneKeyEach
<1>2. CASE Renamed(t) # t
  <2>1. /\ Renamed(t).avid = Padded(t.avid) /\ \A u \in titles : u.avid # Padded(t.avid)
        /\ \A u \in titles : Padded(u.avid) = Padded(t.avid) => u = t
    BY <1>2, RenamedIs
  <2>2. Renamed(o) # o BY <2>1
  <2>3. Renamed(o).avid = Padded(o.avid) BY <2>2, RenamedIs
  <2>4. QED BY <2>1, <2>3
<1>3. CASE Renamed(o) # o
  <2>1. /\ Renamed(o).avid = Padded(o.avid) /\ \A u \in titles : u.avid # Padded(o.avid)
        /\ \A u \in titles : Padded(u.avid) = Padded(o.avid) => u = o
    BY <1>3, RenamedIs
  <2>2. Renamed(t) # t BY <2>1
  <2>3. Renamed(t).avid = Padded(t.avid) BY <2>2, RenamedIs
  <2>4. QED BY <2>1, <2>3
<1>4. QED BY <1>1, <1>2, <1>3

LEMMA PadKeysKeeps == ASSUME MigrationsInv, PadKeys PROVE MigrationsInv'
<1> DEFINE titleOf(a) == CHOOSE t \in titles : t.avid = a.avid
           kept(a) == [a EXCEPT !.avid = Renamed(titleOf(a)).avid]
<1>1. /\ version = 12 /\ version' = 13 /\ UNCHANGED <<failed, sections, admitted, old>>
      /\ titles' = {Renamed(t) : t \in titles} /\ attempts' = {kept(a) : a \in attempts}
  BY DEF PadKeys
<1>2. titles \subseteq Titles /\ attempts \subseteq [avid : Spellings, of : Spellings]
  BY DEF MigrationsInv, MigrationTypes
<1>3. ASSUME NEW a \in attempts
      PROVE  /\ titleOf(a) \in titles /\ titleOf(a).id = a.of
             /\ kept(a) \in [avid : Spellings, of : Spellings]
             /\ kept(a).of = a.of /\ kept(a).avid = Renamed(titleOf(a)).avid
  <2>1. PICK t \in titles : t.id = a.of /\ t.avid = a.avid BY DEF MigrationsInv, AttemptsKept
  <2>2. titleOf(a) \in titles /\ titleOf(a).avid = a.avid BY <2>1
  <2>3. titleOf(a) = t BY <2>1, <2>2 DEF MigrationsInv, OneKeyEach
  <2>4. Renamed(titleOf(a)).avid \in Spellings BY <2>2, RenamedIs DEF Titles
  <2>5. a \in [avid : Spellings, of : Spellings] BY <1>2
  <2>6. QED BY <2>1, <2>2, <2>3, <2>4, <2>5
<1> HIDE DEF titleOf, kept
<1>4. MigrationTypes'
  <2>1. titles' \subseteq Titles BY <1>1, RenamedIs
  <2>2. attempts' \subseteq [avid : Spellings, of : Spellings]
    <3>1. SUFFICES ASSUME NEW b \in attempts' PROVE b \in [avid : Spellings, of : Spellings] OBVIOUS
    <3>2. PICK a \in attempts : b = kept(a) BY <1>1
    <3>3. QED BY <1>3, <3>2
  <2>3. QED BY <1>1, <2>1, <2>2 DEF MigrationsInv, MigrationTypes, Releases
<1>5. OneKeyEach'
  <2>1. SUFFICES ASSUME NEW t \in titles, NEW o \in titles, Renamed(t).avid = Renamed(o).avid
        PROVE Renamed(t) = Renamed(o)
    BY <1>1 DEF OneKeyEach
  <2>2. t = o BY <2>1, RenamedApart
  <2>3. QED BY <2>2
<1>6. AttemptsKept'
  <2>1. SUFFICES ASSUME NEW b \in attempts' PROVE \E t \in titles' : t.id = b.of /\ t.avid = b.avid
    BY DEF AttemptsKept
  <2>2. PICK a \in attempts : b = kept(a) BY <1>1
  <2>3. PICK t \in titles : t = titleOf(a) /\ t.id = b.of /\ Renamed(t).avid = b.avid BY <1>3, <2>2
  <2>4. Renamed(t).id = b.of BY <2>3, RenamedIs
  <2>5. Renamed(t) \in titles' BY <1>1
  <2>6. QED BY <2>3, <2>4, <2>5
<1>7. KeysPadded'
  <2>1. SUFFICES ASSUME NEW t \in titles
        PROVE \/ Renamed(t).avid = Padded(Renamed(t).avid)
              \/ \E o \in titles : Renamed(o) # Renamed(t) /\ Padded(Renamed(o).avid) = Padded(Renamed(t).avid)
    BY <1>1 DEF KeysPadded
  <2>2. CASE Renamed(t) # t BY <2>2, RenamedIs
  <2>3. CASE Renamed(t) = t /\ Padded(t.avid) = t.avid BY <2>3
  <2>4. CASE Renamed(t) = t /\ Padded(t.avid) # t.avid
    <3>1. PICK o \in titles : o # t /\ Padded(o.avid) = Padded(t.avid) BY <2>4, RenamedIs
    <3>2. Padded(Renamed(o).avid) = Padded(Renamed(t).avid) BY <3>1, RenamedIs
    <3>3. Renamed(o) # Renamed(t) BY <3>1, RenamedApart
    <3>4. QED BY <3>2, <3>3
  <2>5. QED BY <2>2, <2>3, <2>4
<1>8. SectionsKept' BY <1>1, SectionsStay DEF Releases
<1>9. NamesAdmitted' BY <1>1 DEF MigrationsInv, NamesAdmitted
<1>10. QED BY <1>4, <1>5, <1>6, <1>7, <1>8, <1>9 DEF MigrationsInv

LEMMA MigrationsNextKeeps == ASSUME MigrationsInv, [MigrationsNext]_migrationVars PROVE MigrationsInv'
<1>1. CASE UNCHANGED migrationVars
  BY <1>1 DEF migrationVars, MigrationsInv, MigrationTypes, OneKeyEach, AttemptsKept, KeysPadded, SectionsKept,
              CloudSection, ArchiveSection, RssSection, NamesAdmitted
<1>2. CASE MigrationsNext
  BY <1>2, DiscoverKeeps, CarryFailuresKeeps, StripCloudKeysKeeps, StripArchiveKeysKeeps, OwnDirectoriesKeeps,
     RaiseIntervalKeeps, AdmitSubmittingKeeps, PadKeysKeeps, AdmitNewPipelinesKeeps DEF MigrationsNext
<1>3. QED BY <1>1, <1>2

(* The labels an operator used, each once.                                  *)
LEMMA CategoriesAre ==
    ASSUME MigrationsInv, old.rss # NotThere, NEW c, c = Categories(old)
    PROVE  /\ \A i, j \in DOMAIN c : c[i].label \in Labels /\ (c[i].label = c[j].label => i = j)
           /\ Inbox(old) # NotThere =>
                 /\ {c[i].label : i \in DOMAIN c} = {OldLabels(old.rss)[i] : i \in 1 .. 2}
                 /\ c[1].label = OldLabels(old.rss)[1]
                 /\ \A i \in DOMAIN c : c[i].dir = Inbox(old)
<1>1. old.rss \in [actor : Labels \cup {EmptyText, NoKey}, rank : Labels \cup {EmptyText, NoKey}] BY SectionsAre
<1> DEFINE labels == OldLabels(old.rss)
           kept == IF labels[1] = labels[2] THEN <<labels[1]>> ELSE labels
           all == [i \in DOMAIN kept |-> [label |-> kept[i], dir |-> Inbox(old)]]
<1>2. labels[1] \in Labels /\ labels[2] \in Labels /\ labels = <<labels[1], labels[2]>>
  BY <1>1, MigrationsAssumption DEF OldLabels
<1>3. CASE Inbox(old) = NotThere
  <2>1. c = << >> BY <1>3 DEF Categories
  <2>2. DOMAIN c = {} BY <2>1
  <2>3. QED BY <1>3, <2>2
<1>4. CASE Inbox(old) # NotThere /\ labels[1] = labels[2]
  <2>1. kept = <<labels[1]>> /\ c = all BY <1>4 DEF Categories
  <2>2. DOMAIN kept = {1} /\ kept[1] = labels[1] BY <2>1
  <2>3. DOMAIN c = {1} /\ c[1].label = labels[1] /\ c[1].dir = Inbox(old) BY <2>1, <2>2
  <2>4. {labels[i] : i \in 1 .. 2} = {labels[1]} BY <1>4
  <2>5. QED BY <1>2, <1>4, <2>3, <2>4
<1>5. CASE Inbox(old) # NotThere /\ labels[1] # labels[2]
  <2>1. kept = labels /\ c = all BY <1>5 DEF Categories
  <2>2. DOMAIN kept = 1 .. 2 BY <1>2, <2>1
  <2>3. /\ DOMAIN c = 1 .. 2 /\ c[1].label = labels[1] /\ c[2].label = labels[2]
        /\ \A i \in 1 .. 2 : c[i].label = labels[i] /\ c[i].dir = Inbox(old)
    BY <2>1, <2>2
  <2>4. \A i \in 1 .. 2 : i = 1 \/ i = 2 OBVIOUS
  <2>5. QED BY <1>2, <1>5, <2>3, <2>4
<1>6. QED BY <1>3, <1>4, <1>5

(* An upgrade over all the versions keeps what was stored before it: every  *)
(* section validates as before, every label downloads where it did, no      *)
(* title and no attempt is lost and a title takes its catalog spelling      *)
(* where that was free (_MIGRATIONS[4] to [18]): for any titles, labels,    *)
(* directories and stored sections.                                         *)
THEOREM UpgradesKeep == MigrationsSpec => []UpgradeKeeps
<1>1. MigrationsInit => MigrationsInv BY MigrationsBegin
<1>2. MigrationsInv /\ [MigrationsNext]_migrationVars => MigrationsInv' BY MigrationsNextKeeps
<1>3. MigrationsInv => UpgradeKeeps
  <2>1. SUFFICES ASSUME MigrationsInv PROVE UpgradeKeeps OBVIOUS
  <2>2. TitlesSurvive BY <2>1 DEF MigrationsInv, OneKeyEach, AttemptsKept, KeysPadded, TitlesSurvive
  <2>3. SettingsSurvive
    <3>1. SUFFICES ASSUME version = 18 PROVE SettingsSurvive BY DEF SettingsSurvive
    <3>2. /\ sections.clouddrive = CloudSection /\ sections.archive = ArchiveSection /\ sections.rss = RssSection
      BY <2>1, SectionsAre
    <3>3. sections.clouddrive # NotThere => sections.clouddrive.dir = NoKey /\ ~sections.clouddrive.named
      BY <3>1, <3>2 DEF CloudSection
    <3>4. sections.archive # NotThere => ~sections.archive.local
      BY <3>1, <3>2 DEF ArchiveSection
    <3>5. old.archive # NotThere => sections.archive.interval =
              IF old.archive.interval = 300 THEN 1800 ELSE old.archive.interval
      BY <3>1, <3>2 DEF ArchiveSection
    <3>6. old.rss # NotThere => sections.rss = [categories |-> Categories(old)] BY <3>1, <3>2 DEF RssSection
    <3>7. old.rss = NotThere => sections.rss = NotThere BY <3>2 DEF RssSection
    <3>8. sections.rss # NotThere =>
              LET c == sections.rss.categories
              IN  \A i, j \in DOMAIN c : c[i].label \in Labels /\ (c[i].label = c[j].label => i = j)
      BY <2>1, <3>6, <3>7, CategoriesAre
    <3>9. old.rss # NotThere /\ Inbox(old) # NotThere =>
              LET c == sections.rss.categories
              IN  /\ {c[i].label : i \in DOMAIN c} = {OldLabels(old.rss)[i] : i \in 1 .. 2}
                  /\ c[1].label = OldLabels(old.rss)[1]
                  /\ \A i \in DOMAIN c : c[i].dir = Inbox(old)
      BY <2>1, <3>6, CategoriesAre
    <3>10. /\ PipelineName \subseteq admitted.pipelines /\ JobStage \subseteq admitted.stages
           /\ MergeState \subseteq admitted.merges
      BY <2>1, <3>1 DEF MigrationsInv, NamesAdmitted
    <3>11. Accepted(sections) BY <3>3, <3>4, <3>8 DEF Accepted
    <3>12. QED BY <3>5, <3>9, <3>10, <3>11 DEF SettingsSurvive
  <2>4. QED BY <2>2, <2>3 DEF UpgradeKeeps
<1>4. QED BY <1>1, <1>2, <1>3, PTL DEF MigrationsSpec

-----------------------------------------------------------------------------
(* The configuration store: a save that has read the row holds its lock, so *)
(* the row is still what it read, and whoever reads the schema under the    *)
(* migration lock still sees it as it is.                                   *)

Sections == [value : Settings, secret : Secrets \cup {Blank}, version : Nat]

Saves ==
    [at : {"idle"}]
        \cup [at : {"asked"}, value : Settings, secret : Secrets \cup {Blank}, expects : {AnyVersion} \cup Int]
        \cup [at : {"read"}, value : Settings, secret : Secrets \cup {Blank}, expects : {AnyVersion} \cup Int,
              current : Sections]
        \cup [at : {"committed"}, wrote : Sections]

Reads ==
    [at : {"idle", "load"}] \cup [at : {"schema"}, seen : Nat] \cup [at : {"rows"}, seen : Sections]

SaveTypes ==
    /\ sectionRow \in Sections
    /\ save \in [Replicas -> Saves]
    /\ snap \in [Replicas -> Sections]

BootTypes ==
    /\ reading \in [Replicas -> Reads]
    /\ boot \in [Replicas -> {"down", "migrating", "up", "refused"}]

(* A save that has read the row has it locked, and it is what was read.     *)
ReadIsLocked ==
    \A r \in Replicas : save[r].at = "read" =>
        /\ rowLock = r
        /\ save[r].current = sectionRow
        /\ save[r].expects \in {AnyVersion, sectionRow.version}

(* The schema is only read under the migration lock, and only served once   *)
(* it is as new as the process.                                             *)
AppliedInOrder == \A i \in 1 .. Len(applied) : applied[i] = i

SchemaIsKnown ==
    \A r \in Replicas :
        /\ reading[r].at = "schema" => migrator = r /\ reading[r].seen = Len(applied) /\ boot[r] = "migrating"
        /\ reading[r].at \in {"load", "rows"} \/ boot[r] = "up" => Len(applied) >= Release[r]

SaveInv == SaveTypes /\ ReadIsLocked
SchemaInv == BootTypes /\ SchemaIsKnown /\ applied \in Seq(Nat) /\ AppliedInOrder
StoreInv == SaveInv /\ SchemaInv

USE DEF Stored, Unsaved, NoSave, NoRead, schemaVars

(* What a save writes is a section.                                         *)
LEMMA MergedIsASection ==
    ASSUME SaveTypes, NEW r \in Replicas, save[r].at = "read"
    PROVE  Merged(r) \in Sections
<1>1. save[r] \in [at : {"read"}, value : Settings, secret : Secrets \cup {Blank}, expects : {AnyVersion} \cup Int,
                   current : Sections]
  BY DEF SaveTypes, Saves
<1>2. QED
  BY <1>1 DEF Merged, Sections

(* The row is there: the section was saved before.                          *)
LEMMA RowIsThere ==
    ASSUME SaveTypes
    PROVE  sectionRow # Unset /\ Stored = sectionRow
BY ConfigAssumption DEF SaveTypes, Sections

(* Reading the row locks it, when it is what the save names.                *)
LEMMA ReadRowKeeps ==
    ASSUME SaveInv, NEW r \in Replicas, ReadRow(r)
    PROVE  SaveInv'
<1>1. save[r] \in [at : {"asked"}, value : Settings, secret : Secrets \cup {Blank}, expects : {AnyVersion} \cup Int]
  BY DEF SaveInv, SaveTypes, Saves, ReadRow
<1>2. Stored = sectionRow /\ sectionRow # Unset /\ sectionRow' = sectionRow
  BY RowIsThere DEF SaveInv, ReadRow
<1>3. \A o \in Replicas : save[o].at # "read"
  BY ConfigAssumption DEF SaveInv, ReadIsLocked, ReadRow
<1>4. CASE save[r].expects \in {AnyVersion, Stored.version}
  <2>1. /\ save' = [save EXCEPT ![r] = [at |-> "read", value |-> save[r].value, secret |-> save[r].secret,
                                         expects |-> save[r].expects, current |-> sectionRow]]
        /\ rowLock' = r
    BY <1>2, <1>4 DEF ReadRow
  <2>2. SaveTypes'
    BY <1>1, <1>2, <2>1 DEF SaveInv, SaveTypes, Saves, ReadRow
  <2>3. ReadIsLocked'
    BY <1>2, <1>3, <1>4, <2>1 DEF SaveInv, SaveTypes, ReadIsLocked
  <2>4. QED
    BY <2>2, <2>3 DEF SaveInv
<1>5. CASE save[r].expects \notin {AnyVersion, Stored.version}
  <2>1. save' = [save EXCEPT ![r] = NoSave]
    BY <1>5 DEF ReadRow
  <2>2. SaveTypes'
    BY <1>2, <2>1 DEF SaveInv, SaveTypes, Saves, ReadRow
  <2>3. ReadIsLocked'
    BY <1>3, <2>1 DEF SaveInv, SaveTypes, ReadIsLocked
  <2>4. QED
    BY <2>2, <2>3 DEF SaveInv
<1>6. QED
  BY <1>4, <1>5

(* A commit replaces the row, which no other save has read.                 *)
LEMMA CommitSaveKeeps ==
    ASSUME SaveInv, NEW r \in Replicas, CommitSave(r)
    PROVE  SaveInv'
<1>1. Merged(r) \in Sections
  BY MergedIsASection DEF SaveInv, CommitSave
<1>2. \A o \in Replicas \ {r} : save[o].at # "read"
  BY ConfigAssumption DEF SaveInv, ReadIsLocked, CommitSave
<1>3. SaveTypes'
  BY <1>1 DEF SaveInv, SaveTypes, Saves, CommitSave
<1>4. ReadIsLocked'
  BY <1>2 DEF SaveInv, SaveTypes, ReadIsLocked, CommitSave
<1>5. QED
  BY <1>3, <1>4 DEF SaveInv

(* Every other step leaves the row alone, and the saves that have read it.  *)
LEMMA OthersKeepSaves ==
    ASSUME SaveInv, BootTypes,
           \/ \E r \in Replicas : Open(r) \/ Refreshing(r) \/ Save(r) \/ Publish(r) \/ Current(r) \/ Dies(r)
           \/ UNCHANGED configVars
    PROVE  SaveInv'
<1>1. CASE \E r \in Replicas : Open(r) \/ RefreshRead(r) \/ Current(r)
  BY <1>1 DEF SaveInv, SaveTypes, ReadIsLocked, Open, BeginMigration, CommitMigration, RefreshRead, Current
<1>2. ASSUME NEW r \in Replicas, RefreshApply(r) PROVE SaveInv'
  <2>1. reading[r].seen \in Sections
    BY <1>2 DEF BootTypes, Reads, RefreshApply
  <2>2. QED
    BY <1>2, <2>1 DEF SaveInv, SaveTypes, ReadIsLocked, RefreshApply
<1>3. ASSUME NEW r \in Replicas, Save(r) PROVE SaveInv'
  <2>1. PICK v \in Settings, s \in Secrets \cup {Blank}, e \in {AnyVersion} \cup 0 .. snap[r].version :
            save' = [save EXCEPT ![r] = [at |-> "asked", value |-> v, secret |-> s, expects |-> e]]
    BY <1>3 DEF Save
  <2>2. e \in {AnyVersion} \cup Int
    OBVIOUS
  <2>3. QED
    BY <1>3, <2>1, <2>2 DEF SaveInv, SaveTypes, Saves, ReadIsLocked, Save
<1>4. ASSUME NEW r \in Replicas, Publish(r) PROVE SaveInv'
  <2>1. save[r].wrote \in Sections
    BY <1>4 DEF SaveInv, SaveTypes, Saves, Publish
  <2>2. QED
    BY <1>4, <2>1 DEF SaveInv, SaveTypes, Saves, ReadIsLocked, Publish
<1>5. ASSUME NEW r \in Replicas, Dies(r) PROVE SaveInv'
  <2>1. Unsaved \in Sections
    BY ConfigAssumption DEF Sections
  <2>2. SaveTypes'
    BY <1>5, <2>1 DEF SaveInv, SaveTypes, Saves, Dies
  <2>3. ReadIsLocked'
    BY <1>5 DEF SaveInv, SaveTypes, ReadIsLocked, Dies
  <2>4. QED
    BY <2>2, <2>3 DEF SaveInv
<1>6. CASE UNCHANGED configVars
  BY <1>6 DEF SaveInv, SaveTypes, ReadIsLocked, configVars
<1>7. QED
  BY <1>1, <1>2, <1>3, <1>4, <1>5, <1>6 DEF Refreshing

(* Migrations are appended in order, under the lock, to what was read.      *)
LEMMA CommitMigrationKeeps ==
    ASSUME SchemaInv, NEW r \in Replicas, CommitMigration(r)
    PROVE  SchemaInv'
<1>1. /\ reading[r].seen = Len(applied) /\ Len(applied) \in Nat /\ migrator = r
      /\ \A o \in Replicas \ {r} : reading[o].at # "schema"
  BY ConfigAssumption DEF SchemaInv, SchemaIsKnown, CommitMigration
<1>2. CASE reading[r].seen > Release[r]
  BY <1>1, <1>2 DEF SchemaInv, BootTypes, Reads, SchemaIsKnown, AppliedInOrder, CommitMigration
<1>3. CASE ~(reading[r].seen > Release[r])
  <2> DEFINE more == [i \in 1 .. Release[r] - Len(applied) |-> Len(applied) + i]
  <2>1. Release[r] \in Nat /\ Release[r] - Len(applied) \in Nat
    BY <1>1, <1>3, ConfigAssumption
  <2>2. more \in Seq(Nat) /\ Len(more) = Release[r] - Len(applied)
    BY <1>1, <2>1
  <2>3. applied' = applied \o more
    BY <1>1, <1>3 DEF CommitMigration
  <2>4. applied' \in Seq(Nat) /\ Len(applied') = Release[r]
    BY <2>1, <2>2, <2>3 DEF SchemaInv
  <2>5. AppliedInOrder'
    <3>1. ASSUME NEW i \in 1 .. Len(applied') PROVE applied'[i] = i
      <4>1. CASE i <= Len(applied)
        BY <1>1, <2>2, <2>3, <2>4, <3>1, <4>1 DEF SchemaInv, AppliedInOrder
      <4>2. CASE i > Len(applied)
        <5>1. applied'[i] = more[i - Len(applied)]
          BY <1>1, <2>1, <2>2, <2>3, <2>4, <3>1, <4>2 DEF SchemaInv
        <5>2. i - Len(applied) \in 1 .. Release[r] - Len(applied)
          BY <1>1, <2>1, <2>4, <3>1, <4>2
        <5>3. QED
          BY <1>1, <2>1, <5>1, <5>2
      <4>3. QED
        BY <1>1, <2>1, <2>4, <3>1, <4>1, <4>2
    <3>2. QED
      BY <3>1 DEF AppliedInOrder
  <2>6. BootTypes'
    BY <1>3 DEF SchemaInv, BootTypes, Reads, CommitMigration
  <2>7. SchemaIsKnown'
    <3>1. Len(applied') >= Len(applied)
      BY <1>1, <2>1, <2>4
    <3>2. ASSUME NEW o \in Replicas PROVE Release[o] \in Nat
      BY ConfigAssumption
    <3>3. /\ reading' = [reading EXCEPT ![r] = [at |-> "load"]]
          /\ UNCHANGED boot
      BY <1>3 DEF CommitMigration
    <3>4. QED
      BY <1>1, <2>1, <2>4, <3>1, <3>2, <3>3 DEF SchemaInv, BootTypes, SchemaIsKnown
  <2>8. QED
    BY <2>4, <2>5, <2>6, <2>7 DEF SchemaInv
<1>4. QED
  BY <1>2, <1>3

(* Every other step leaves the schema alone, and what was read of it.       *)
LEMMA OthersKeepSchema ==
    ASSUME SchemaInv, SaveTypes,
           \/ \E r \in Replicas :
                 \/ BeginMigration(r) \/ Refreshing(r) \/ Save(r) \/ Saving(r) \/ Current(r) \/ Dies(r)
           \/ UNCHANGED configVars
    PROVE  SchemaInv'
<1>0. Stored \in Sections /\ Len(applied) \in Nat
  BY RowIsThere DEF SchemaInv, SaveTypes
<1>1. ASSUME NEW r \in Replicas, BeginMigration(r) PROVE SchemaInv'
  <2>1. \A o \in Replicas : reading[o].at # "schema"
    BY <1>1, ConfigAssumption DEF BeginMigration, SchemaInv, SchemaIsKnown
  <2>2. QED
    BY <1>0, <1>1, <2>1 DEF SchemaInv, BootTypes, Reads, SchemaIsKnown, AppliedInOrder, BeginMigration
<1>2. ASSUME NEW r \in Replicas, RefreshRead(r) PROVE SchemaInv'
  BY <1>0, <1>2 DEF SchemaInv, BootTypes, Reads, SchemaIsKnown, AppliedInOrder, RefreshRead
<1>3. ASSUME NEW r \in Replicas, RefreshApply(r) PROVE SchemaInv'
  BY <1>0, <1>3 DEF SchemaInv, BootTypes, Reads, SchemaIsKnown, AppliedInOrder, RefreshApply
<1>4. ASSUME NEW r \in Replicas, Dies(r) PROVE SchemaInv'
  BY <1>0, <1>4 DEF SchemaInv, BootTypes, Reads, SchemaIsKnown, AppliedInOrder, Dies
<1>5. CASE \E r \in Replicas : Save(r) \/ Saving(r) \/ Current(r)
  BY <1>5 DEF SchemaInv, BootTypes, SchemaIsKnown, AppliedInOrder, Save, Saving, ReadRow, CommitSave, Publish, Current
<1>6. CASE UNCHANGED configVars
  BY <1>6 DEF SchemaInv, BootTypes, SchemaIsKnown, AppliedInOrder, configVars
<1>7. QED
  BY <1>1, <1>2, <1>3, <1>4, <1>5, <1>6 DEF Refreshing

(* The row, the saves, the schema and the processes agree.                  *)
THEOREM StoreInvHolds == ConfigSpec /\ RowStored => []StoreInv
<1>1. ConfigInit /\ RowStored => StoreInv
  <2>1. SUFFICES ASSUME ConfigInit, RowStored PROVE StoreInv
    OBVIOUS
  <2>2. Unsaved \in Sections /\ [Unsaved EXCEPT !.version = 1] \in Sections
    BY ConfigAssumption DEF Sections
  <2>3. SaveInv
    BY <2>1, <2>2 DEF ConfigInit, SaveInv, SaveTypes, Saves, ReadIsLocked
  <2>4. SchemaInv
    BY <2>1 DEF ConfigInit, SchemaInv, BootTypes, Reads, SchemaIsKnown, AppliedInOrder
  <2>5. QED
    BY <2>3, <2>4 DEF StoreInv
<1>2. StoreInv /\ [ConfigNext]_configVars => StoreInv'
  <2>1. SUFFICES ASSUME StoreInv, [ConfigNext]_configVars PROVE StoreInv'
    OBVIOUS
  <2>2. SaveInv /\ SaveTypes /\ SchemaInv /\ BootTypes
    BY <2>1 DEF StoreInv, SaveInv, SchemaInv
  <2>3. SaveInv'
    BY <2>1, <2>2, ReadRowKeeps, CommitSaveKeeps, OthersKeepSaves DEF ConfigNext, Saving
  <2>4. SchemaInv'
    BY <2>1, <2>2, CommitMigrationKeeps, OthersKeepSchema DEF ConfigNext, Open
  <2>5. QED
    BY <2>3, <2>4 DEF StoreInv
<1>3. QED
  BY <1>1, <1>2, PTL DEF ConfigSpec

(* Whatever is saved, refreshed, restarted or upgraded at other replicas,   *)
(* once a section was saved a save replaces the very row it was checked     *)
(* against (ConfigStore.update), and every migration is recorded once, in   *)
(* order, before its release serves (Database._migrate).                    *)
THEOREM StoreKeepsItsWord == ConfigSpec /\ RowStored => StoreHolds
<1>1. StoreInv => MigratedOnce
  BY DEF StoreInv, SchemaInv, SchemaIsKnown, AppliedInOrder, MigratedOnce
<1> DEFINE Safely(r) ==
      save[r].at = "read" /\ save'[r].at = "committed" =>
          /\ sectionRow'.version = Stored.version + 1
          /\ save[r].expects \in {AnyVersion, Stored.version}
          /\ save[r].secret = Blank => sectionRow'.secret = Stored.secret
<1>2. StoreInv /\ [ConfigNext]_configVars => \A r \in Replicas : Safely(r)
  <2>1. SUFFICES ASSUME StoreInv, [ConfigNext]_configVars, NEW r \in Replicas,
                        save[r].at = "read", save'[r].at = "committed"
                 PROVE  /\ sectionRow'.version = Stored.version + 1
                        /\ save[r].expects \in {AnyVersion, Stored.version}
                        /\ save[r].secret = Blank => sectionRow'.secret = Stored.secret
    OBVIOUS
  <2>2. SaveTypes /\ ReadIsLocked /\ Stored = sectionRow
    BY <2>1, RowIsThere DEF StoreInv, SaveInv
  <2>3. CommitSave(r)
    <3>1. CASE UNCHANGED configVars
      BY <2>1, <3>1 DEF configVars
    <3>2. ASSUME NEW o \in Replicas, Open(o) \/ Refreshing(o) \/ Current(o)
          PROVE  FALSE
      BY <2>1, <3>2 DEF Open, BeginMigration, CommitMigration, Refreshing, RefreshRead, RefreshApply, Current
    <3>3. ASSUME NEW o \in Replicas, Save(o) \/ ReadRow(o) \/ Publish(o) \/ Dies(o)
          PROVE  FALSE
      BY <2>1, <2>2, <3>3 DEF SaveTypes, Save, ReadRow, Publish, Dies
    <3>4. ASSUME NEW o \in Replicas, CommitSave(o)
          PROVE  o = r
      BY <2>1, <2>2, <3>4 DEF SaveTypes, CommitSave
    <3>5. QED
      BY <2>1, <3>1, <3>2, <3>3, <3>4 DEF ConfigNext, Saving
  <2>4. save[r].current = sectionRow /\ save[r].expects \in {AnyVersion, sectionRow.version}
    BY <2>1, <2>2 DEF ReadIsLocked
  <2>5. QED
    BY <2>2, <2>3, <2>4 DEF CommitSave, Merged
<1>3. QED
  BY <1>1, <1>2, StoreInvHolds, PTL DEF ConfigSpec, StoreHolds, SavesOverTheStored

-----------------------------------------------------------------------------
(* Automatic merging: as long as a task is not both queued and ended within *)
(* one round (~Overlap), what a round remembers covers what happens during  *)
(* it: a title that failed stays one that had failed when it began, and     *)
(* only such a title comes to an end meanwhile.                             *)

Views == {"none", "parts", "gap", "both", "whole"}
Scan == [MergeTitles -> Views]

Rounds ==
    [at : {"idle"}]
        \cup [at : {"scan", "settle"}, failed : SUBSET MergeTitles]
        \cup [at : {"walk"}, failed : SUBSET MergeTitles, seen : Scan]
        \cup [at : {"pick", "list", "look"}, next : Nat \ {0}, failed : SUBSET MergeTitles,
              settled : SUBSET MergeTitles, fits : BOOLEAN, seen : Scan]
        \cup [at : {"queue"}, next : Nat \ {0}, failed : SUBSET MergeTitles,
              settled : SUBSET MergeTitles, fits : BOOLEAN, seen : Scan, now : Views]

AutoTypes ==
    /\ cloud \in Scan /\ tree \in Scan
    /\ walk \in [seen : Scan, known : BOOLEAN, old : BOOLEAN]
    /\ task \in [MergeTitles -> [live : {"none", "queued", "failed"}, past : SUBSET {"cancelled", "done"}]]
    /\ room \in BOOLEAN
    /\ round \in Rounds

(* A title that has failed now had failed when the round began.             *)
FailedBefore == round.at # "idle" => Failed \subseteq round.failed

(* A title with a past was settled, or had failed, when the round began.    *)
PastIsKnown ==
    round.at \in {"pick", "list", "look", "queue"} =>
        \A t \in MergeTitles : task[t].past # {} => t \in round.settled \cup round.failed

(* A title is looked at closely only when it was neither.                   *)
PickedIsNew ==
    round.at \in {"list", "look", "queue"} =>
        Candidate \in MergeTitles \ (round.settled \cup round.failed)

AutoInv == AutoTypes /\ FailedBefore /\ PastIsKnown /\ PickedIsNew

USE DEF Failed, Candidate, NoRound, worldVars, memoryVars

(* A step that leaves the tasks and the round alone.                        *)
LEMMA WorldKeeps ==
    ASSUME AutoInv, UNCHANGED <<task, round>>, cloud' \in Scan, tree' \in Scan, room' \in BOOLEAN,
           walk' \in [seen : Scan, known : BOOLEAN, old : BOOLEAN]
    PROVE  AutoInv'
BY DEF AutoInv, AutoTypes, FailedBefore, PastIsKnown, PickedIsNew

(* A task that is created changes how its title stands, and nothing else.   *)
LEMMA CreatedEffect ==
    ASSUME AutoTypes, NEW c, task' = Created(c)
    PROVE  /\ task' \in [MergeTitles -> [live : {"none", "queued", "failed"}, past : SUBSET {"cancelled", "done"}]]
           /\ \A t \in MergeTitles :
                 /\ task'[t].past = task[t].past
                 /\ task'[t].live # task[t].live => t = c /\ task'[t].live = "queued"
<1>1. CASE c \in MergeTitles
  BY <1>1 DEF AutoTypes, Created
<1>2. CASE c \notin MergeTitles
  <2>1. task' = task
    BY <1>2 DEF AutoTypes, Created
  <2>2. QED
    BY <2>1 DEF AutoTypes
<1>3. QED
  BY <1>1, <1>2

(* So does it to the memory of a round.                                     *)
LEMMA CreatedKeeps ==
    ASSUME AutoInv, NEW c, task' = Created(c), round' = round \/ round' = NoRound,
           UNCHANGED <<cloud, tree, walk, room>>
    PROVE  AutoInv'
<1>1. AutoTypes'
  BY CreatedEffect DEF AutoInv, AutoTypes, Rounds
<1>2. FailedBefore' /\ PastIsKnown' /\ PickedIsNew'
  BY CreatedEffect DEF AutoInv, FailedBefore, PastIsKnown, PickedIsNew
<1>3. QED
  BY <1>1, <1>2 DEF AutoInv

(* A round begins with the titles that have failed.                         *)
LEMMA RoundBeginsKeeps ==
    ASSUME AutoInv, RoundBegins
    PROVE  AutoInv'
<1>1. round' = [at |-> "scan", failed |-> Failed] /\ Failed \subseteq MergeTitles
  BY DEF RoundBegins
<1>2. round' \in Rounds
  BY <1>1 DEF Rounds
<1>3. QED
  BY <1>1, <1>2 DEF AutoInv, AutoTypes, FailedBefore, PastIsKnown, PickedIsNew, RoundBegins

(* The scan and its walk remember who had failed.                           *)
LEMMA ScanKeeps ==
    ASSUME AutoInv, RoundScans \/ RoundScanned
    PROVE  AutoInv'
<1>1. CASE RoundScans
  <2>1. round \in [at : {"scan", "settle"}, failed : SUBSET MergeTitles]
    BY <1>1 DEF AutoInv, AutoTypes, Rounds, RoundScans
  <2>2. /\ round' \in [at : {"settle"}, failed : SUBSET MergeTitles]
                        \cup [at : {"walk"}, failed : SUBSET MergeTitles, seen : Scan]
        /\ round'.failed = round.failed
    BY <1>1, <2>1 DEF AutoInv, AutoTypes, RoundScans
  <2>3. round' \in Rounds /\ round'.at \in {"settle", "walk"}
    BY <2>2 DEF Rounds
  <2>4. QED
    BY <1>1, <2>2, <2>3 DEF AutoInv, AutoTypes, FailedBefore, PastIsKnown, PickedIsNew, RoundScans
<1>2. CASE RoundScanned
  <2>1. round \in [at : {"walk"}, failed : SUBSET MergeTitles, seen : Scan]
    BY <1>2 DEF AutoInv, AutoTypes, Rounds, RoundScanned
  <2>2. round' = [at |-> "settle", failed |-> round.failed] /\ round' \in Rounds
    BY <1>2, <2>1 DEF Rounds, RoundScanned
  <2>3. walk' \in [seen : Scan, known : BOOLEAN, old : BOOLEAN]
    BY <1>2, <2>1 DEF RoundScanned
  <2>4. QED
    BY <1>2, <2>2, <2>3 DEF AutoInv, AutoTypes, FailedBefore, PastIsKnown, PickedIsNew, RoundScanned
<1>3. QED
  BY <1>1, <1>2

(* The settled titles are all those with a past.                            *)
LEMMA RoundSettlesKeeps ==
    ASSUME AutoInv, RoundSettles
    PROVE  AutoInv'
<1>1. round.failed \subseteq MergeTitles
  BY DEF AutoInv, AutoTypes, Rounds, RoundSettles
<1>2. round' = [at |-> "pick", next |-> 1, failed |-> round.failed,
                settled |-> Settled, fits |-> room, seen |-> walk.seen]
  BY DEF RoundSettles
<1>3. round' \in Rounds
  BY <1>1, <1>2 DEF AutoInv, AutoTypes, Rounds, Settled
<1>4. QED
  BY <1>2, <1>3 DEF AutoInv, AutoTypes, FailedBefore, PastIsKnown, PickedIsNew, RoundSettles, Settled

(* Passing over a title, and looking at one, leave the memory alone.        *)
LEMMA PickKeeps ==
    ASSUME AutoInv, PassOver \/ Size \/ ListAfresh \/ LookAgain
    PROVE  AutoInv'
<1>1. round \in [at : {"pick", "list", "look"}, next : Nat \ {0}, failed : SUBSET MergeTitles,
                 settled : SUBSET MergeTitles, fits : BOOLEAN, seen : Scan]
  BY DEF AutoInv, AutoTypes, Rounds, PassOver, Size, ListAfresh, LookAgain
<1>2. UNCHANGED <<cloud, tree, walk, task, room>>
  BY DEF PassOver, Size, ListAfresh, LookAgain
<1>3. CASE round' = NoRound
  BY <1>2, <1>3 DEF AutoInv, AutoTypes, Rounds, FailedBefore, PastIsKnown, PickedIsNew
<1>4. CASE round' = [round EXCEPT !.next = @ + 1] /\ round.at = "pick"
  <2>1. round' \in Rounds
    BY <1>1, <1>4 DEF Rounds
  <2>2. round'.at = "pick" /\ round'.failed = round.failed /\ round'.settled = round.settled
    BY <1>1, <1>4
  <2>3. QED
    BY <1>2, <2>1, <2>2, <1>4 DEF AutoInv, AutoTypes, FailedBefore, PastIsKnown, PickedIsNew
<1>5. CASE round' = [round EXCEPT !.at = "list"] /\ round.at = "pick" /\ Eligible(Candidate) /\ Candidate \notin round.failed
          /\ round.next <= Len(MultiPart)
  <2>1. round' \in Rounds
    BY <1>1, <1>5 DEF Rounds
  <2>2. /\ round'.at = "list" /\ round'.failed = round.failed /\ round'.settled = round.settled
        /\ round'.next = round.next
    BY <1>1, <1>5
  <2>3. Candidate \in MergeTitles
    BY <1>1, <1>5, AutoAssumption DEF MergeTitles
  <2>4. QED
    BY <1>2, <2>1, <2>2, <2>3, <1>5 DEF AutoInv, AutoTypes, FailedBefore, PastIsKnown, PickedIsNew, Eligible
<1>6. CASE round' = [round EXCEPT !.at = "pick", !.next = @ + 1] /\ round.at = "list"
  <2>1. round' = [at |-> "pick", next |-> round.next + 1, failed |-> round.failed,
                  settled |-> round.settled, fits |-> round.fits, seen |-> round.seen]
    BY <1>1, <1>6
  <2>2. round' \in Rounds
    BY <1>1, <2>1 DEF Rounds
  <2>3. QED
    BY <1>2, <2>1, <2>2, <1>6 DEF AutoInv, AutoTypes, FailedBefore, PastIsKnown, PickedIsNew
<1>7. CASE round' = [round EXCEPT !.at = "look"] /\ round.at = "list"
  <2>1. round' \in Rounds
    BY <1>1, <1>7 DEF Rounds
  <2>2. /\ round'.at = "look" /\ round'.failed = round.failed /\ round'.settled = round.settled
        /\ round'.next = round.next
    BY <1>1, <1>7
  <2>3. QED
    BY <1>2, <2>1, <2>2, <1>7 DEF AutoInv, AutoTypes, FailedBefore, PastIsKnown, PickedIsNew
<1>8. CASE LookAgain
  <2>1. round' = [at |-> "queue", next |-> round.next, failed |-> round.failed,
                  settled |-> round.settled, fits |-> round.fits, seen |-> round.seen, now |-> tree[Candidate]]
    BY <1>8 DEF LookAgain
  <2>2. tree[Candidate] \in Views
    BY <1>8 DEF AutoInv, AutoTypes, PickedIsNew, LookAgain, Scan
  <2>3. round' \in Rounds
    BY <1>1, <2>1, <2>2 DEF Rounds
  <2>4. QED
    BY <1>2, <1>8, <2>1, <2>3 DEF AutoInv, AutoTypes, FailedBefore, PastIsKnown, PickedIsNew, LookAgain
<1>9. QED
  BY <1>3, <1>4, <1>5, <1>6, <1>7, <1>8 DEF PassOver, Size, ListAfresh

(* The queue takes the title that was looked at, or refuses it.             *)
LEMMA AutoQueuesKeeps ==
    ASSUME AutoInv, AutoQueues
    PROVE  AutoInv'
<1>1. round \in [at : {"queue"}, next : Nat \ {0}, failed : SUBSET MergeTitles,
                 settled : SUBSET MergeTitles, fits : BOOLEAN, seen : Scan, now : Views]
  BY DEF AutoInv, AutoTypes, Rounds, AutoQueues
<1>2. CASE UNCHANGED task
  <2>1. round' = NoRound \/ round' = [at |-> "pick", next |-> round.next + 1, failed |-> round.failed,
                  settled |-> round.settled, fits |-> round.fits, seen |-> round.seen]
    BY DEF AutoQueues
  <2>2. round' \in Rounds
    BY <1>1, <2>1 DEF Rounds
  <2>3. QED
    BY <1>1, <1>2, <2>1, <2>2 DEF AutoInv, AutoTypes, FailedBefore, PastIsKnown, PickedIsNew, AutoQueues
<1>3. CASE task' = Created(Candidate) /\ round' = NoRound
  BY <1>3, CreatedKeeps DEF AutoQueues
<1>4. QED
  BY <1>2, <1>3 DEF AutoQueues

(* The operator's request queues a title, or nothing.                       *)
LEMMA AskQueuesKeeps ==
    ASSUME AutoInv, AskQueues
    PROVE  AutoInv'
<1>1. CASE UNCHANGED task
  BY <1>1, WorldKeeps DEF AskQueues, AutoInv, AutoTypes
<1>2. CASE task' = Created(asked.title)
  BY <1>2, CreatedKeeps DEF AskQueues
<1>3. QED
  BY <1>1, <1>2 DEF AskQueues

(* A task only ends within a round when it had failed before.               *)
LEMMA TasksKeep ==
    ASSUME AutoInv, ~Overlap, NEW t \in MergeTitles,
           CancelTask(t) \/ RetryTask(t) \/ TaskEnds(t)
    PROVE  AutoInv'
<1>1. CASE CancelTask(t)
  BY <1>1 DEF AutoInv, AutoTypes, FailedBefore, PastIsKnown, PickedIsNew, CancelTask, Settling
<1>2. CASE RetryTask(t)
  BY <1>2 DEF AutoInv, AutoTypes, FailedBefore, PastIsKnown, PickedIsNew, RetryTask
<1>3. CASE TaskEnds(t)
  <2>1. round.at = "idle"
    BY <1>3 DEF TaskEnds, Settling
  <2>2. cloud' \in Scan /\ walk' \in [seen : Scan, known : BOOLEAN, old : BOOLEAN]
    BY <1>3 DEF AutoInv, AutoTypes, Scan, Views, TaskEnds
  <2>3. task' \in [MergeTitles -> [live : {"none", "queued", "failed"}, past : SUBSET {"cancelled", "done"}]]
    BY <1>3 DEF AutoInv, AutoTypes, TaskEnds
  <2>4. AutoTypes'
    BY <1>3, <2>2, <2>3 DEF AutoInv, AutoTypes, TaskEnds
  <2>5. QED
    BY <1>3, <2>1, <2>4 DEF AutoInv, FailedBefore, PastIsKnown, PickedIsNew, TaskEnds
<1>4. QED
  BY <1>1, <1>2, <1>3

(* What happens around the loop.                                            *)
LEMMA AroundKeeps ==
    ASSUME AutoInv,
           \/ VolumeFills \/ VolumeEmpties \/ ScanAges \/ AutoRestart
           \/ \E t \in MergeTitles : AskMerge(t) \/ MapTitle(t) \/ CacheAges(t) \/ PartsComplete(t) \/ WholeFiled(t)
    PROVE  AutoInv'
<1>1. CASE AutoRestart
  <2>1. NoWalk \in [seen : Scan, known : BOOLEAN, old : BOOLEAN]
    BY DEF NoWalk, Scan, Views
  <2>2. QED
    BY <1>1, <2>1 DEF AutoInv, AutoTypes, Rounds, FailedBefore, PastIsKnown, PickedIsNew, AutoRestart
<1>2. CASE VolumeFills \/ VolumeEmpties \/ ScanAges \/ \E t \in MergeTitles : AskMerge(t) \/ CacheAges(t)
  BY <1>2, WorldKeeps DEF AutoInv, AutoTypes, VolumeFills, VolumeEmpties, ScanAges, AskMerge, CacheAges
<1>3. ASSUME NEW t \in MergeTitles, MapTitle(t) \/ PartsComplete(t) \/ WholeFiled(t) PROVE AutoInv'
  <2>1. cloud' \in Scan /\ tree' \in Scan
    BY <1>3 DEF AutoInv, AutoTypes, Scan, Views, MapTitle, PartsComplete, WholeFiled
  <2>2. QED
    BY <1>3, <2>1, WorldKeeps DEF AutoInv, AutoTypes, MapTitle, PartsComplete, WholeFiled
<1>4. QED
  BY <1>1, <1>2, <1>3

(* What a round remembers covers what happens during it.                    *)
THEOREM RoundRemembers == AutoSpec /\ ~Overlap => []AutoInv
<1>1. AutoInit => AutoInv
  BY DEF AutoInit, AutoInv, AutoTypes, Scan, Views, Rounds, NoWalk, NoTask, FailedBefore, PastIsKnown, PickedIsNew
<1>2. AutoInv /\ ~Overlap /\ [AutoNext]_autoVars => AutoInv'
  <2>1. SUFFICES ASSUME AutoInv, ~Overlap, [AutoNext]_autoVars PROVE AutoInv'
    OBVIOUS
  <2>2. CASE UNCHANGED autoVars
    BY <2>1, <2>2, WorldKeeps DEF autoVars, AutoInv, AutoTypes
  <2>3. CASE RoundSteps
    BY <2>1, <2>3, RoundBeginsKeeps, ScanKeeps, RoundSettlesKeeps, PickKeeps, AutoQueuesKeeps DEF RoundSteps
  <2>4. CASE \E t \in MergeTitles : CancelTask(t) \/ RetryTask(t) \/ TaskEnds(t)
    BY <2>1, <2>4, TasksKeep
  <2>5. QED
    BY <2>1, <2>2, <2>3, <2>4, AskQueuesKeeps, AroundKeeps DEF AutoNext
<1>3. ~Overlap => [](~Overlap)
  OBVIOUS
<1>4. QED
  BY <1>1, <1>2, <1>3, PTL DEF AutoSpec

(* The loop never queues a title whose task was cancelled, removed or       *)
(* already merged it (AutoMerger.step), as long as a task is not both       *)
(* queued and ended within one round.                                       *)
THEOREM NeverPicked == AutoSpec /\ ~Overlap => NeverPickedAgain
<1>1. ASSUME AutoInv, NEW t \in MergeTitles, AutoQueues, task[t].live = "none", task'[t].live = "queued"
      PROVE  task[t].past = {}
  <2>1. t = Candidate
    BY <1>1 DEF AutoInv, AutoTypes, AutoQueues, Created
  <2>2. QED
    BY <1>1, <2>1 DEF AutoInv, PastIsKnown, PickedIsNew, AutoQueues
<1>2. AutoInv => [\A t \in MergeTitles : AutoQueues /\ task[t].live = "none" /\ task'[t].live = "queued"
          => task[t].past = {}]_autoVars
  BY <1>1
<1>3. QED
  BY <1>2, RoundRemembers, PTL DEF NeverPickedAgain

-----------------------------------------------------------------------------
(* The merge Job: what a worker that starts over finds on the volume.       *)

(* The streams a part, or its staged copy, has.                             *)
Orders == Layouts \cup {ByKind(l) : l \in Layouts}
WorkerFiles == Seq([of : All, as : Orders])

WorkerTypes ==
    /\ part \in [All -> [layout : Layouts, size : 1 .. 2]]
    /\ strays \in SUBSET All /\ inputs \in [All -> Orders] /\ staged \in SUBSET All
    /\ partial \in WorkerFiles /\ output \in WorkerFiles
    /\ pc \in {"check", "probe", "order", "reorder", "concat", "verify", "hash", "report", "ended", "killed"}
    /\ pc \notin {"reorder", "concat"} => ff = "none"

(* The parts the concat is given are of one order once none strays.         *)
Alike == \A i, j \in All : inputs[i] = inputs[j]
OneKind == \A i \in All : ByKind(part[i].layout) = ByKind(part[1].layout)
StraysNamed ==
    /\ pc = "order" => OneKind
    /\ pc = "reorder" =>
          /\ ff # "none" => strays # {}
          /\ \/ strays = {} /\ Alike
             \/ /\ OneKind
                /\ \A i \in All : inputs[i] = IF i \in strays THEN part[i].layout ELSE ByKind(part[i].layout)
    /\ pc \in {"concat", "verify", "hash"} => strays = {} /\ Alike
    /\ pc \in {"probe", "order", "reorder", "concat", "verify", "hash"} => Parts >= 2

(* The file being written holds the first parts as they are given.          *)
PartsWritten ==
    /\ pc \in {"concat", "verify", "hash"} =>
          Len(partial) <= Parts /\ \A i \in DOMAIN partial : partial[i] = [of |-> i, as |-> inputs[i]]
    /\ pc = "hash" => Len(partial) = Parts
    /\ pc = "report" => output # Missing

(* What is still to be staged and to be written has its room.               *)
RoomLeft ==
    /\ pc \in {"probe", "order"} => Fits(Total(All))
    /\ pc \in {"reorder", "concat", "verify"} =>
          Space - Total(staged) - Total(Held(output)) >= Total(All) + Total(strays) + Reserve

WorkerInv == WorkerTypes /\ StraysNamed /\ PartsWritten /\ RoomLeft /\ OutputIsWhole

-----------------------------------------------------------------------------
(* Sums of the sizes of parts.  MapThenSumSet takes one element after the   *)
(* other from a set, by choice: g is such a function for the subsets of S.  *)
Any(s) == CHOOSE x \in s : TRUE
Sums(S, g) == g = [s \in SUBSET S |-> IF s = {} THEN 0 ELSE part[Any(s)].size + g[s \ {Any(s)}]]
Sized(S) == \A x \in S : part[x].size \in Nat

(* Of the sets of a family one loses the property with each element.        *)
LEMMA SmallestIs ==
    ASSUME NEW S, IsFiniteSet(S), NEW B \in SUBSET SUBSET S, B # {}
    PROVE  \E T \in B : \A x \in T : T \ {x} \notin B
<1> DEFINE Sizes == {n \in Nat : \E T \in B : Cardinality(T) = n}
<1>1. \A T \in B : IsFiniteSet(T) /\ Cardinality(T) \in Nat BY FS_Subset, FS_CardinalityType
<1>2. Sizes # {} /\ Sizes \in SUBSET Nat BY <1>1
<1>3. PICK n \in Sizes : \A k \in Sizes : ~ (<<k, n>> \in OpToRel(<, Nat))
  <2> HIDE DEF Sizes
  <2>1. QED BY <1>2, WFMin, NatLessThanWellFounded
<1>4. \A k \in Sizes : ~ (k < n) BY <1>3, Zenon DEF OpToRel
<1>5. PICK T \in B : Cardinality(T) = n BY <1>3
<1>6. ASSUME NEW x \in T, T \ {x} \in B PROVE FALSE
  <2>1. Cardinality(T \ {x}) = n - 1 /\ Cardinality(T \ {x}) \in Nat BY <1>1, <1>5, <1>6, FS_RemoveElement
  <2>2. n - 1 \in Sizes BY <1>6, <2>1
  <2> HIDE DEF Sizes
  <2>3. QED BY <1>1, <1>4, <1>5, <2>2
<1>7. QED BY <1>5, <1>6

(* There is one: with one more element at a time.                           *)
LEMMA SumsExist ==
    ASSUME NEW S, IsFiniteSet(S)
    PROVE  \E g : Sums(S, g)
<1> DEFINE Upto(n) == {T \in SUBSET S : Cardinality(T) <= n}
           Graded(n, g) == g = [s \in Upto(n) |-> IF s = {} THEN 0 ELSE part[Any(s)].size + g[s \ {Any(s)}]]
           Bad == {n \in Nat : ~ \E g : Graded(n, g)}
<1>1. \A T \in SUBSET S : IsFiniteSet(T) /\ Cardinality(T) \in Nat BY FS_Subset, FS_CardinalityType
<1>2. \A T \in SUBSET S : T # {} => Any(T) \in T BY DEF Any
<1>3. Bad = {}
  <2>1. SUFFICES ASSUME Bad # {} PROVE FALSE OBVIOUS
  <2>2. PICK n \in Bad : \A k \in Bad : ~ (<<k, n>> \in OpToRel(<, Nat)) BY <2>1, WFMin, NatLessThanWellFounded
  <2>3. \A k \in Bad : ~ (k < n) BY <2>2, Zenon DEF OpToRel
  <2>4. n \in Nat OBVIOUS
  <2>5. CASE n = 0
    <3> DEFINE g == [s \in Upto(0) |-> 0]
    <3>1. \A s \in Upto(0) : s = {}
      BY <1>1, FS_EmptySet
    <3>2. g = [s \in Upto(0) |-> IF s = {} THEN 0 ELSE part[Any(s)].size + g[s \ {Any(s)}]]
      <4> HIDE DEF g, Upto
      <4>1. QED BY <3>1 DEF g
    <3>3. Graded(0, g) BY <3>2
    <3>4. QED BY <2>5, <3>3
  <2>6. CASE n # 0
    <3>1. n - 1 \in Nat /\ n - 1 < n BY <2>4, <2>6
    <3>2. n - 1 \notin Bad
      <4> HIDE DEF Bad
      <4>1. QED BY <2>3, <3>1
    <3>3. PICK h : Graded(n - 1, h) BY <3>1, <3>2
    <3> DEFINE g == [s \in Upto(n) |-> IF s = {} THEN 0 ELSE part[Any(s)].size + h[s \ {Any(s)}]]
    <3>4. \A s \in Upto(n) : s # {} => s \ {Any(s)} \in Upto(n - 1) /\ s \ {Any(s)} \in Upto(n)
      <4>1. SUFFICES ASSUME NEW s \in Upto(n), s # {} PROVE s \ {Any(s)} \in Upto(n - 1) /\ s \ {Any(s)} \in Upto(n) OBVIOUS
      <4>2. Cardinality(s \ {Any(s)}) = Cardinality(s) - 1 BY <1>1, <1>2, <4>1, FS_RemoveElement
      <4>3. QED BY <1>1, <2>4, <4>1, <4>2
    <3>5. \A t \in Upto(n - 1) : t \in Upto(n)
      BY <1>1, <2>4
    <3>6. \A t \in Upto(n - 1) : h[t] = g[t]
      <4> HIDE DEF Upto
      <4>1. QED BY <3>3, <3>5
    <3>7. g = [s \in Upto(n) |-> IF s = {} THEN 0 ELSE part[Any(s)].size + g[s \ {Any(s)}]]
      <4> HIDE DEF Upto
      <4>1. \A s \in Upto(n) : s # {} => h[s \ {Any(s)}] = g[s \ {Any(s)}] BY <3>4, <3>6
      <4> HIDE DEF g
      <4>2. QED BY <4>1 DEF g
    <3>8. QED
      <4>1. Graded(n, g) BY <3>7
      <4> HIDE DEF g, Graded
      <4>2. QED BY <4>1
  <2>7. QED BY <2>5, <2>6
<1>4. PICK g : Graded(Cardinality(S), g) BY <1>1, <1>3
<1>5. Upto(Cardinality(S)) = SUBSET S BY <1>1, FS_Subset
<1>6. QED BY <1>4, <1>5 DEF Sums

(* Whichever element is taken first, the sum is the same.                   *)
LEMMA SumsAre ==
    ASSUME NEW S, IsFiniteSet(S), Sized(S), NEW g, Sums(S, g)
    PROVE  /\ g[{}] = 0
           /\ \A T \in SUBSET S : g[T] \in Nat
           /\ \A T \in SUBSET S : \A x \in T : g[T] = part[x].size + g[T \ {x}]
<1>1. \A T \in SUBSET S : T # {} => Any(T) \in T /\ T \ {Any(T)} \in SUBSET S BY DEF Any
<1>2. g[{}] = 0 BY DEF Sums
<1>3. \A T \in SUBSET S : T # {} => g[T] = part[Any(T)].size + g[T \ {Any(T)}] BY DEF Sums
<1>4. \A T \in SUBSET S : g[T] \in Nat
  <2> DEFINE Bad == {T \in SUBSET S : g[T] \notin Nat}
  <2>1. SUFFICES ASSUME Bad # {} PROVE FALSE OBVIOUS
  <2>2. PICK T \in Bad : \A x \in T : T \ {x} \notin Bad BY <2>1, SmallestIs
  <2>3. T # {} BY <1>2
  <2>4. g[T \ {Any(T)}] \in Nat BY <1>1, <2>2, <2>3
  <2>5. part[Any(T)].size \in Nat BY <1>1, <2>3 DEF Sized
  <2>6. QED BY <1>3, <2>3, <2>4, <2>5
<1>5. \A T \in SUBSET S : \A x \in T : g[T] = part[x].size + g[T \ {x}]
  <2> DEFINE Bad == {T \in SUBSET S : \E x \in T : g[T] # part[x].size + g[T \ {x}]}
  <2>1. SUFFICES ASSUME Bad # {} PROVE FALSE OBVIOUS
  <2>2. PICK T \in Bad : \A x \in T : T \ {x} \notin Bad BY <2>1, SmallestIs
  <2>3. PICK x \in T : g[T] # part[x].size + g[T \ {x}] OBVIOUS
  <2> DEFINE c == Any(T)
  <2>4. c \in T /\ g[T] = part[c].size + g[T \ {c}] BY <1>1, <1>3, <2>3
  <2> HIDE DEF c
  <2>5. c # x BY <2>3, <2>4
  <2>6. T \ {c} \in SUBSET S /\ T \ {x} \in SUBSET S OBVIOUS
  <2>7. g[T \ {c}] = part[x].size + g[(T \ {c}) \ {x}] BY <2>2, <2>4, <2>5, <2>6
  <2>8. g[T \ {x}] = part[c].size + g[(T \ {x}) \ {c}] BY <2>2, <2>3, <2>4, <2>5, <2>6
  <2>9. (T \ {x}) \ {c} = (T \ {c}) \ {x} /\ (T \ {c}) \ {x} \in SUBSET S OBVIOUS
  <2>10. part[c].size \in Nat /\ part[x].size \in Nat /\ g[(T \ {c}) \ {x}] \in Nat
    BY <1>4, <2>4, <2>9 DEF Sized
  <2>11. part[c].size + (part[x].size + g[(T \ {c}) \ {x}]) = part[x].size + (part[c].size + g[(T \ {c}) \ {x}])
    BY <2>10
  <2>12. QED BY <2>3, <2>4, <2>7, <2>8, <2>9, <2>11
<1>6. QED BY <1>2, <1>4, <1>5

(* And so it is within any set that holds the parts.                        *)
LEMMA SumsAgree ==
    ASSUME NEW S, IsFiniteSet(S), Sized(S), NEW g, Sums(S, g), NEW U \in SUBSET S, NEW h, Sums(U, h)
    PROVE  \A T \in SUBSET U : g[T] = h[T]
<1> DEFINE Bad == {T \in SUBSET U : g[T] # h[T]}
<1>1. IsFiniteSet(U) /\ Sized(U) BY FS_Subset DEF Sized
<1>2. SUFFICES ASSUME Bad # {} PROVE FALSE OBVIOUS
<1>3. PICK T \in Bad : \A x \in T : T \ {x} \notin Bad BY <1>1, <1>2, SmallestIs
<1>4. T # {} BY <1>1, SumsAre
<1>5. PICK x \in T : TRUE BY <1>4
<1>6. g[T] = part[x].size + g[T \ {x}] BY <1>5, SumsAre
<1>7. h[T] = part[x].size + h[T \ {x}] BY <1>1, <1>5, SumsAre
<1>8. g[T \ {x}] = h[T \ {x}] BY <1>3, <1>5
<1>9. QED BY <1>6, <1>7, <1>8

(* What Total is, then, and that more parts take no less.                   *)
LEMMA Totals ==
    ASSUME NEW S, IsFiniteSet(S), Sized(S)
    PROVE  /\ Total({}) = 0
           /\ \A T \in SUBSET S : Total(T) \in Nat
           /\ \A T \in SUBSET S : \A x \in T : Total(T) = part[x].size + Total(T \ {x})
<1>1. PICK g : Sums(S, g) BY SumsExist
<1>2. \A T \in SUBSET S : Total(T) = g[T]
  <2>1. SUFFICES ASSUME NEW T \in SUBSET S PROVE Total(T) = g[T] OBVIOUS
  <2>2. Total(T) = (CHOOSE h : Sums(T, h))[T] BY DEF Total, MapThenSumSet, MapThenFoldSet, Sums, Any
  <2>3. Sums(T, CHOOSE h : Sums(T, h)) BY SumsExist, FS_Subset
  <2>4. QED BY <1>1, <2>2, <2>3, SumsAgree
<1>3. QED BY <1>1, <1>2, SumsAre

LEMMA TotalsGrow ==
    ASSUME NEW S, IsFiniteSet(S), Sized(S), NEW T \in SUBSET S, NEW U \in SUBSET T
    PROVE  Total(U) <= Total(T)
<1> DEFINE Bad == {V \in SUBSET S : U \subseteq V /\ ~(Total(U) <= Total(V))}
<1>1. SUFFICES ASSUME Bad # {} PROVE FALSE OBVIOUS
<1>2. PICK V \in Bad : \A x \in V : V \ {x} \notin Bad
  <2>1. Bad \in SUBSET SUBSET S OBVIOUS
  <2> HIDE DEF Bad
  <2>2. QED BY <1>1, <2>1, SmallestIs
<1>3. Total(U) \in Nat /\ Total(V) \in Nat BY Totals
<1>4. U # V BY <1>3
<1>5. PICK x \in V : x \notin U BY <1>4
<1>6. Total(U) <= Total(V \ {x}) BY <1>2, <1>5
<1>7. Total(V) = part[x].size + Total(V \ {x}) /\ Total(V \ {x}) \in Nat BY Totals
<1>8. part[x].size \in Nat BY DEF Sized
<1>9. QED BY <1>3, <1>6, <1>7, <1>8

-----------------------------------------------------------------------------
(* What is read of the files.                                               *)
LEMMA SizedParts ==
    ASSUME WorkerTypes
    PROVE  IsFiniteSet(All) /\ Sized(All)
<1>1. IsFiniteSet(All) BY WorkerAssumption, FS_Interval DEF All
<1>2. \A i \in All : part[i].size \in 1 .. 2 BY DEF WorkerTypes
<1>3. QED BY <1>1, <1>2 DEF Sized

LEMMA HeldAreParts ==
    ASSUME NEW f \in WorkerFiles
    PROVE  Held(f) \in SUBSET All
<1> DEFINE R == [of : All, as : Orders]
<1>1. f \in Seq(R) BY DEF WorkerFiles
<1>2. \A r \in R : r.of \in All OBVIOUS
<1> HIDE DEF R
<1>3. \A i \in DOMAIN f : f[i] \in R BY <1>1
<1>4. QED BY <1>2, <1>3 DEF Held

LEMMA NothingWritten == Len(Missing) = 0 /\ DOMAIN Missing = {} /\ Missing \in WorkerFiles
<1>1. Len(Missing) = 0 BY DEF Missing
<1>2. Missing \in WorkerFiles BY DEF Missing, WorkerFiles
<1>3. DOMAIN Missing = 1 .. Len(Missing) BY <1>2 DEF WorkerFiles
<1>4. QED BY <1>1, <1>2, <1>3

LEMMA NextStray ==
    ASSUME WorkerTypes, strays # {}
    PROVE  (CHOOSE i \in strays : \A j \in strays : i <= j) \in strays
<1>1. strays \in SUBSET Nat BY WorkerAssumption DEF WorkerTypes, All
<1>2. PICK i \in strays : \A j \in strays : ~ (<<j, i>> \in OpToRel(<, Nat)) BY <1>1, WFMin, NatLessThanWellFounded
<1>3. \A j \in strays : ~ (j < i) BY <1>1, <1>2, Zenon DEF OpToRel
<1>4. \A j \in strays : i <= j BY <1>1, <1>3
<1>5. QED BY <1>4

-----------------------------------------------------------------------------
(* The steps of the worker, of ffmpeg and of the pod.                       *)
LEMMA WorkerBegins == WorkerInit => WorkerInv
<1> SUFFICES ASSUME WorkerInit PROVE WorkerInv OBVIOUS
<1>1. WorkerTypes
  <2>1. Missing \in WorkerFiles BY DEF Missing, WorkerFiles
  <2>2. QED BY <2>1 DEF WorkerInit, WorkerTypes, Orders
<1>2. QED BY <1>1 DEF WorkerInv, WorkerInit, StraysNamed, PartsWritten, RoomLeft, OutputIsWhole

USE DEF fileVars, ffVars

LEMMA WorkerTypesStay == WorkerInv /\ WorkerNext => WorkerTypes'
<1> SUFFICES ASSUME WorkerInv, WorkerNext PROVE WorkerTypes' OBVIOUS
<1>1. WorkerTypes BY DEF WorkerInv
<1>2. part' = part BY DEF WorkerNext, Work, CheckParts, Probe, FindStrays, Launch, Remuxed, Advance, Concatenated,
        FfmpegFails, Verify, Rename, ReportDone, FfmpegSticks, WatchFires, StallPasses, Killed, PodStarts
<1>3. Missing \in WorkerFiles /\ [i \in All |-> part[i].layout] \in [All -> Orders]
  BY <1>1 DEF Missing, WorkerFiles, WorkerTypes, Orders
<1> USE <1>1, <1>2, <1>3 DEF WorkerTypes
<1>4. CASE CheckParts BY <1>4 DEF CheckParts, Fails
<1>5. CASE Probe BY <1>5 DEF Probe, Fails
<1>6. CASE FindStrays
  <2>1. Stray \in SUBSET All BY DEF Stray
  <2>2. QED BY <1>6, <2>1 DEF FindStrays, Fails
<1>7. CASE Launch BY <1>7 DEF Launch
<1>8. CASE Remuxed
  <2>1. strays # {} BY <1>8 DEF Remuxed, WorkerInv, StraysNamed
  <2> DEFINE i == CHOOSE i \in strays : \A j \in strays : i <= j
  <2>2. i \in strays /\ i \in All BY <2>1, NextStray
  <2>3. inputs[i] = part[i].layout BY <1>8, <2>1, <2>2 DEF Remuxed, WorkerInv, StraysNamed
  <2>4. part[i].layout \in Layouts BY <2>2
  <2>5. ByKind(inputs[i]) \in Orders BY <2>3, <2>4 DEF Orders
  <2>6. inputs' = [inputs EXCEPT ![i] = ByKind(inputs[i])] /\ strays' = strays \ {i} /\ staged' = staged \cup {i}
    BY <1>8 DEF Remuxed
  <2> HIDE DEF i
  <2>7. inputs' \in [All -> Orders] /\ strays' \in SUBSET All /\ staged' \in SUBSET All BY <2>2, <2>5, <2>6
  <2>8. QED BY <1>8, <2>7 DEF Remuxed
<1>9. CASE Advance
  <2> DEFINE i == Len(partial) + 1
  <2>1. Len(partial) \in Nat BY DEF WorkerFiles
  <2>2. i \in All BY <1>9, <2>1, WorkerAssumption DEF Advance, All
  <2>3. [of |-> i, as |-> inputs[i]] \in [of : All, as : Orders] BY <2>2
  <2>4. partial' = Append(partial, [of |-> i, as |-> inputs[i]]) BY <1>9 DEF Advance
  <2> HIDE DEF i
  <2>5. partial' \in WorkerFiles BY <2>3, <2>4 DEF WorkerFiles
  <2>6. QED BY <1>9, <2>5 DEF Advance
<1>10. CASE Concatenated BY <1>10 DEF Concatenated
<1>11. CASE FfmpegFails BY <1>11 DEF FfmpegFails, Fails
<1>12. CASE Verify BY <1>12 DEF Verify, Fails
<1>13. CASE Rename BY <1>13 DEF Rename
<1>14. CASE ReportDone BY <1>14 DEF ReportDone
<1>15. CASE FfmpegSticks BY <1>15 DEF FfmpegSticks
<1>16. CASE WatchFires BY <1>16 DEF WatchFires
<1>17. CASE StallPasses BY <1>17 DEF StallPasses
<1>18. CASE Killed BY <1>18 DEF Killed
<1>19. CASE PodStarts BY <1>19 DEF PodStarts
<1> QED BY <1>4, <1>5, <1>6, <1>7, <1>8, <1>9, <1>10, <1>11, <1>12, <1>13, <1>14, <1>15, <1>16, <1>17, <1>18, <1>19
        DEF WorkerNext, Work

(* Each part that is staged takes from the room what it was given.          *)
LEMMA RoomStays == WorkerInv /\ WorkerNext => RoomLeft'
<1> SUFFICES ASSUME WorkerInv, WorkerNext PROVE RoomLeft' OBVIOUS
<1>1. WorkerTypes /\ StraysNamed /\ RoomLeft /\ WorkerTypes' BY WorkerTypesStay DEF WorkerInv
<1>2. part' = part BY DEF WorkerNext, Work, CheckParts, Probe, FindStrays, Launch, Remuxed, Advance, Concatenated,
        FfmpegFails, Verify, Rename, ReportDone, FfmpegSticks, WatchFires, StallPasses, Killed, PodStarts
<1> DEFINE O == Total(Held(output))
           P == Total(Held(partial))
           A == Total(All)
           S == Total(staged)
           Y == Total(strays)
<1>3. /\ O' = Total(Held(output')) /\ P' = Total(Held(partial')) /\ A' = A
      /\ S' = Total(staged') /\ Y' = Total(strays')
  BY <1>2 DEF Total, MapThenSumSet, MapThenFoldSet, All, Held
<1>4. IsFiniteSet(All) /\ Sized(All) BY <1>1, SizedParts
<1>5. /\ Held(output) \in SUBSET All /\ Held(output') \in SUBSET All
      /\ Held(partial) \in SUBSET All /\ Held(partial') \in SUBSET All
      /\ staged \in SUBSET All /\ staged' \in SUBSET All /\ strays \in SUBSET All /\ strays' \in SUBSET All
  BY <1>1, HeldAreParts DEF WorkerTypes
<1>6. /\ O \in Nat /\ O' \in Nat /\ P \in Nat /\ P' \in Nat /\ A \in Nat
      /\ S \in Nat /\ S' \in Nat /\ Y \in Nat /\ Y' \in Nat
      /\ P <= A /\ P' <= A
  BY <1>3, <1>4, <1>5, Totals, TotalsGrow
<1>7. Space \in Nat /\ Reserve \in Nat BY WorkerAssumption
<1>8. Total({}) = 0 BY <1>4, Totals
<1>9. \A n \in Int : Fits(n) <=> Space - S - O >= n + Reserve
  BY <1>6, <1>7 DEF Fits, FreeUnits, Used, Reclaimable
<1>10. Fits(Total(All))' <=> Space - S' - O' >= A + Reserve
  BY <1>3, <1>6, <1>7 DEF Fits, FreeUnits, Used, Reclaimable
<1>11. RoomLeft' <=> /\ pc' \in {"probe", "order"} => Space - S' - O' >= A + Reserve
                     /\ pc' \in {"reorder", "concat", "verify"} => Space - S' - O' >= A + Y' + Reserve
  BY <1>3, <1>10 DEF RoomLeft
<1>12. RoomLeft <=> /\ pc \in {"probe", "order"} => Space - S - O >= A + Reserve
                    /\ pc \in {"reorder", "concat", "verify"} => Space - S - O >= A + Y + Reserve
  BY <1>6, <1>9 DEF RoomLeft
<1>13. /\ output' = output => O' = O
       /\ staged' = staged => S' = S
       /\ staged' = {} => S' = 0
       /\ strays' = strays => Y' = Y
       /\ strays' = {} => Y' = 0
  BY <1>3, <1>8
<1>14. Fits(Total(All)) => Space - S - O >= A + Reserve BY <1>6, <1>9
<1>15. Fits(Total(All) + Total(Stray)) => Space - S - O >= A + Total(Stray) + Reserve
  <2>1. Stray \in SUBSET All BY DEF Stray
  <2>2. Total(Stray) \in Nat BY <1>4, <2>1, Totals
  <2>3. QED BY <1>6, <1>9, <2>2
<1>16. Total(Stray) \in Nat
  <2>1. Stray \in SUBSET All BY DEF Stray
  <2>2. QED BY <1>4, <2>1, Totals
<1> HIDE DEF O, P, A, S, Y
<1> USE <1>1, <1>6, <1>7, <1>11, <1>12, <1>13
<1>20. CASE CheckParts BY <1>20, <1>14 DEF CheckParts, Fails
<1>21. CASE Probe BY <1>21 DEF Probe, Fails
<1>22. CASE FindStrays
  <2>1. CASE pc' = "ended" BY <2>1
  <2>2. CASE pc' # "ended"
    <3>1. pc = "order" /\ pc' = "reorder" /\ strays' = Stray /\ output' = output /\ staged' = staged
      BY <1>22, <2>2 DEF FindStrays, Fails
    <3>2. Y' = Total(Stray) BY <1>3, <3>1 DEF Y
    <3>3. Stray = {} \/ Fits(Total(All) + Total(Stray)) BY <1>22, <2>2 DEF FindStrays, Fails, Stray
    <3>4. Stray = {} => Total(Stray) = 0 BY <1>8
    <3>5. QED BY <1>15, <1>16, <3>1, <3>2, <3>3, <3>4
  <2>3. QED BY <2>1, <2>2
<1>23. CASE Launch BY <1>23 DEF Launch
<1>24. CASE Remuxed
  <2>1. strays # {} BY <1>24 DEF Remuxed, StraysNamed
  <2> DEFINE i == CHOOSE i \in strays : \A j \in strays : i <= j
  <2>2. i \in strays /\ i \in All BY <2>1, NextStray DEF WorkerTypes
  <2>3. /\ strays' = strays \ {i} /\ staged' = staged \cup {i} /\ output' = output
        /\ pc = "reorder" /\ pc' = "reorder"
    BY <1>24 DEF Remuxed
  <2> HIDE DEF i
  <2>4. Y = part[i].size + Y' BY <1>3, <1>4, <1>5, <2>2, <2>3, Totals DEF Y
  <2>5. S' <= S + part[i].size
    <3>1. part[i].size \in Nat BY <1>4, <2>2 DEF Sized
    <3>2. CASE i \in staged
      <4>1. staged' = staged BY <2>3, <3>2
      <4>2. QED BY <3>1, <4>1
    <3>3. CASE i \notin staged
      <4>1. i \in staged' /\ staged' \ {i} = staged BY <2>3, <3>3
      <4>2. Total(staged') = part[i].size + Total(staged' \ {i}) BY <1>4, <1>5, <4>1, Totals
      <4>3. S' = part[i].size + S BY <1>3, <4>1, <4>2 DEF S
      <4>4. QED BY <3>1, <4>3
    <3>4. QED BY <3>2, <3>3
  <2>6. part[i].size \in Nat BY <1>4, <2>2 DEF Sized
  <2> DEFINE z == part[i].size
  <2>7. Space - S - O >= A + (z + Y') + Reserve BY <2>3, <2>4
  <2>8. O' = O /\ z \in Nat /\ S' <= S + z BY <2>3, <2>5, <2>6
  <2> HIDE DEF z
  <2>9. Space - S' - O' >= A + Y' + Reserve
    <3>1. \A a, o, p, s, t, u, y \in Nat :
             a - s - o >= p + (u + y) + Reserve /\ t <= s + u => a - t - o >= p + y + Reserve
      BY <1>7
    <3>2. QED BY <1>6, <1>7, <2>7, <2>8, <3>1
  <2>10. QED BY <2>3, <2>9
<1>25. CASE Advance BY <1>25 DEF Advance
<1>26. CASE Concatenated BY <1>26 DEF Concatenated
<1>27. CASE FfmpegFails BY <1>27 DEF FfmpegFails, Fails
<1>28. CASE Verify BY <1>28 DEF Verify, Fails
<1>29. CASE Rename BY <1>29 DEF Rename
<1>30. CASE ReportDone BY <1>30 DEF ReportDone
<1>31. CASE FfmpegSticks BY <1>31 DEF FfmpegSticks
<1>32. CASE WatchFires BY <1>32 DEF WatchFires
<1>33. CASE StallPasses BY <1>33 DEF StallPasses
<1>34. CASE Killed BY <1>34 DEF Killed
<1>35. CASE PodStarts BY <1>35 DEF PodStarts
<1> QED BY <1>20, <1>21, <1>22, <1>23, <1>24, <1>25, <1>26, <1>27, <1>28, <1>29, <1>30, <1>31, <1>32, <1>33, <1>34, <1>35
        DEF WorkerNext, Work

(* Once the strays are put in order every input is video first.             *)
LEMMA StraysStay == WorkerInv /\ WorkerNext => StraysNamed'
<1> SUFFICES ASSUME WorkerInv, WorkerNext PROVE StraysNamed' OBVIOUS
<1>1. WorkerTypes /\ StraysNamed BY DEF WorkerInv
<1>2. part' = part BY DEF WorkerNext, Work, CheckParts, Probe, FindStrays, Launch, Remuxed, Advance, Concatenated,
        FfmpegFails, Verify, Rename, ReportDone, FfmpegSticks, WatchFires, StallPasses, Killed, PodStarts
<1> USE <1>1, <1>2 DEF WorkerTypes, StraysNamed, OneKind, Alike
<1>3. 2 <= Parts => 1 \in All BY WorkerAssumption DEF All
<1>4. CASE CheckParts BY <1>4, WorkerAssumption DEF CheckParts, Fails
<1>5. CASE Probe BY <1>5 DEF Probe, Fails
<1>6. CASE FindStrays
  <2>1. CASE pc' = "ended" BY <2>1
  <2>2. CASE pc' # "ended"
    <3>1. /\ pc = "order" /\ pc' = "reorder" /\ strays' = Stray /\ ff' = "none"
          /\ inputs' = [i \in All |-> part[i].layout]
      BY <1>6, <2>2 DEF FindStrays, Fails
    <3>2. CASE \E i \in All : part[i].layout # part[1].layout
      <4>1. strays' = {i \in All : ~InOrder(part[i].layout)} BY <3>1, <3>2 DEF Stray
      <4>2. \A i \in All : inputs'[i] = IF i \in strays' THEN part[i].layout ELSE ByKind(part[i].layout)
        BY <3>1, <4>1 DEF InOrder
      <4>3. QED BY <3>1, <4>2
    <3>3. CASE ~\E i \in All : part[i].layout # part[1].layout
      <4>1. strays' = {} BY <3>1, <3>3 DEF Stray
      <4>2. QED BY <3>1, <3>3, <4>1
    <3>4. QED BY <3>2, <3>3
  <2>3. QED BY <2>1, <2>2
<1>7. CASE Launch
  <2>1. CASE strays # {} BY <1>7, <2>1 DEF Launch
  <2>2. CASE strays = {} BY <1>7, <2>2 DEF Launch
  <2>3. QED BY <2>1, <2>2
<1>8. CASE Remuxed
  <2>1. strays # {} BY <1>8 DEF Remuxed
  <2> DEFINE i == CHOOSE i \in strays : \A j \in strays : i <= j
  <2>2. i \in strays /\ i \in All BY <2>1, NextStray
  <2>3. /\ inputs' = [inputs EXCEPT ![i] = ByKind(inputs[i])] /\ strays' = strays \ {i}
        /\ pc = "reorder" /\ pc' = "reorder" /\ ff' = "none"
    BY <1>8 DEF Remuxed
  <2> HIDE DEF i
  <2>4. OneKind /\ \A k \in All : inputs[k] = IF k \in strays THEN part[k].layout ELSE ByKind(part[k].layout)
    BY <2>1, <2>3
  <2>5. \A k \in All : inputs'[k] = IF k \in strays' THEN part[k].layout ELSE ByKind(part[k].layout)
    BY <2>2, <2>3, <2>4
  <2>6. QED BY <2>3, <2>4, <2>5
<1>9. CASE Advance BY <1>9 DEF Advance
<1>10. CASE Concatenated BY <1>10 DEF Concatenated
<1>11. CASE FfmpegFails BY <1>11 DEF FfmpegFails, Fails
<1>12. CASE Verify BY <1>12 DEF Verify, Fails
<1>13. CASE Rename BY <1>13 DEF Rename
<1>14. CASE ReportDone BY <1>14 DEF ReportDone
<1>15. CASE FfmpegSticks BY <1>15 DEF FfmpegSticks
<1>16. CASE WatchFires BY <1>16 DEF WatchFires
<1>17. CASE StallPasses BY <1>17 DEF StallPasses
<1>18. CASE Killed BY <1>18 DEF Killed
<1>19. CASE PodStarts BY <1>19 DEF PodStarts
<1> QED BY <1>4, <1>5, <1>6, <1>7, <1>8, <1>9, <1>10, <1>11, <1>12, <1>13, <1>14, <1>15, <1>16, <1>17, <1>18, <1>19
        DEF WorkerNext, Work

(* The concat writes the parts one after the other, the rename all of them. *)
LEMMA OutputStays == WorkerInv /\ WorkerNext => PartsWritten' /\ OutputIsWhole'
<1> SUFFICES ASSUME WorkerInv, WorkerNext PROVE PartsWritten' /\ OutputIsWhole' OBVIOUS
<1>1. WorkerTypes /\ StraysNamed /\ PartsWritten /\ OutputIsWhole BY DEF WorkerInv
<1>2. Len(partial) \in Nat /\ DOMAIN partial = 1 .. Len(partial) BY <1>1 DEF WorkerTypes, WorkerFiles
<1>3. 0 <= Parts BY WorkerAssumption
<1> USE <1>1, <1>2, WorkerAssumption DEF PartsWritten, OutputIsWhole, StraysNamed
<1>4. CASE CheckParts BY <1>4 DEF CheckParts, Fails
<1>5. CASE Probe BY <1>5 DEF Probe, Fails
<1>6. CASE FindStrays BY <1>6 DEF FindStrays, Fails
<1>7. CASE Launch
  <2>1. CASE strays # {} BY <1>7, <2>1 DEF Launch
  <2>2. CASE strays = {}
    <3>1. partial' = Missing /\ pc' = "concat" /\ output' = output /\ status' = status BY <1>7, <2>2 DEF Launch
    <3>2. Len(partial') = 0 /\ DOMAIN partial' = {} BY <3>1, NothingWritten, Zenon
    <3>3. Len(partial') <= Parts BY <1>3, <3>2, Zenon
    <3>4. PartsWritten' BY <3>1, <3>2, <3>3
    <3>5. OutputIsWhole' BY <3>1
    <3>6. QED BY <3>4, <3>5
  <2>3. QED BY <2>1, <2>2
<1>8. CASE Remuxed BY <1>8 DEF Remuxed
<1>9. CASE Advance
  <2> DEFINE r == [of |-> Len(partial) + 1, as |-> inputs[Len(partial) + 1]]
  <2>1. partial' = Append(partial, r) /\ pc = "concat" /\ pc' = "concat" /\ Len(partial) < Parts
        /\ output' = output /\ status' = status /\ inputs' = inputs
    BY <1>9 DEF Advance
  <2>2. \E R : partial \in Seq(R) /\ r \in R
    <3>1. Len(partial) + 1 \in All BY <2>1 DEF All
    <3>2. r \in [of : All, as : Orders] BY <3>1 DEF WorkerTypes
    <3>3. QED BY <3>2 DEF WorkerTypes, WorkerFiles
  <2> HIDE DEF r
  <2>3. Len(partial') = Len(partial) + 1 /\ partial'[Len(partial) + 1] = r
        /\ DOMAIN partial' = 1 .. Len(partial) + 1 /\ \A i \in 1 .. Len(partial) : partial'[i] = partial[i]
    BY <2>1, <2>2
  <2>4. \A i \in DOMAIN partial' : partial'[i] = [of |-> i, as |-> inputs[i]] BY <2>1, <2>3 DEF r
  <2>5. QED BY <2>1, <2>3, <2>4
<1>10. CASE Concatenated BY <1>10 DEF Concatenated
<1>11. CASE FfmpegFails BY <1>11 DEF FfmpegFails, Fails
<1>12. CASE Verify BY <1>12 DEF Verify, Fails
<1>13. CASE Rename
  <2>1. output' = partial /\ pc = "hash" /\ pc' = "report" /\ status' = status BY <1>13 DEF Rename
  <2>2. Len(partial) = Parts /\ Parts >= 2 /\ Alike BY <2>1
  <2>3. partial # Missing BY <2>2 DEF Missing
  <2>4. \A i \in All : partial[i] = [of |-> i, as |-> inputs[i]] BY <2>1, <2>2 DEF All
  <2>5. 1 \in All BY <2>2 DEF All
  <2>6. \A i \in All : output'[i].of = i /\ output'[i].as = output'[1].as
    <3>1. ASSUME NEW i \in All PROVE partial[i].of = i /\ partial[i].as = inputs[i]
      <4>1. [of |-> i, as |-> inputs[i]].of = i /\ [of |-> i, as |-> inputs[i]].as = inputs[i] OBVIOUS
      <4>2. QED BY <2>4, <4>1, Zenon
    <3>2. QED BY <2>1, <2>2, <2>5, <3>1 DEF Alike
  <2>7. QED BY <2>1, <2>2, <2>3, <2>6 DEF Missing, All
<1>14. CASE ReportDone BY <1>14 DEF ReportDone
<1>15. CASE FfmpegSticks BY <1>15 DEF FfmpegSticks
<1>16. CASE WatchFires BY <1>16 DEF WatchFires
<1>17. CASE StallPasses BY <1>17 DEF StallPasses
<1>18. CASE Killed BY <1>18 DEF Killed
<1>19. CASE PodStarts BY <1>19 DEF PodStarts
<1> QED BY <1>4, <1>5, <1>6, <1>7, <1>8, <1>9, <1>10, <1>11, <1>12, <1>13, <1>14, <1>15, <1>16, <1>17, <1>18, <1>19
        DEF WorkerNext, Work

LEMMA WorkerKeepsReserve == WorkerInv => ReserveKept
<1> SUFFICES ASSUME WorkerInv, pc \in {"reorder", "concat", "verify"} PROVE FreeUnits >= Reserve BY DEF ReserveKept
<1>1. WorkerTypes /\ RoomLeft BY DEF WorkerInv
<1>2. IsFiniteSet(All) /\ Sized(All) BY <1>1, SizedParts
<1>3. Held(output) \in SUBSET All /\ Held(partial) \in SUBSET All /\ staged \in SUBSET All /\ strays \in SUBSET All
  BY <1>1, HeldAreParts DEF WorkerTypes
<1>4. /\ Total(Held(output)) \in Nat /\ Total(Held(partial)) \in Nat /\ Total(All) \in Nat
      /\ Total(staged) \in Nat /\ Total(strays) \in Nat /\ Total(Held(partial)) <= Total(All)
  BY <1>2, <1>3, Totals, TotalsGrow
<1>5. QED BY <1>1, <1>4, WorkerAssumption DEF RoomLeft, FreeUnits, Used

(* Under its final name there is only ever the whole title, its parts in    *)
(* order and laid out alike, "done" is said once it is there, and nothing   *)
(* the worker writes eats into the reserve (worker.merge, _check_space),    *)
(* however often it is killed and started over what it left: for any number *)
(* and sizes of parts, layouts, space and caps.                             *)
THEOREM OutputStaysAccounted == WorkerSpec => []OutputAccounted
<1>1. WorkerInit => WorkerInv BY WorkerBegins
<1>2. WorkerInv /\ [WorkerNext]_workerVars => WorkerInv'
  <2>1. WorkerInv /\ WorkerNext => WorkerInv'
    BY WorkerTypesStay, StraysStay, OutputStays, RoomStays DEF WorkerInv
  <2>2. WorkerInv /\ UNCHANGED workerVars => WorkerInv'
    BY DEF workerVars, WorkerInv, WorkerTypes, StraysNamed, Alike, OneKind, PartsWritten, RoomLeft, OutputIsWhole,
           Fits, FreeUnits, Reclaimable, Used, Held, Total, MapThenSumSet, MapThenFoldSet
  <2>3. QED BY <2>1, <2>2
<1>3. WorkerInv => OutputAccounted BY WorkerKeepsReserve DEF WorkerInv, OutputAccounted
<1>4. QED BY <1>1, <1>2, <1>3, PTL DEF WorkerSpec
===============================================================================
