------------------------------- MODULE MCTitles -------------------------------
(* The parts of the monitor that decide what becomes of a title and its files,  *)
(* one of them at work in a behaviour.                                          *)
EXTENDS AcquisitionLedger, FeedPolling, TrackerWake, LibraryFiling, FolderSelection,
        StrmMirror, TLC

\* The ledger: one title with several magnets, and a second one whose search
\* finds those magnets too.
CONSTANTS a1, a2, h1, h2

\* The second title is there to contend for hashes: one attempt, no timer and
\* no replacement of its own.  The timer of the first runs until it has attempts.
Contender ==
    /\ acq[a1].timer = "none" \/ attempts[a1] = << >>
    /\ acq[a2].state \in {"absent", "discovered"}
    /\ acq[a2].timer = "none"
    /\ ~acq[a2].replacing
    /\ Len(attempts[a2]) <= 1

\* The feeds: a talent that gets a new id, under which a title is listed, and an RSS
\* feed with that title and another.
CONSTANTS s1, s2, t1, t2, u1, i1, i2, b1, b2, cat1, cat2

MCCats == <<cat1, cat2>>
MCSubOrder == <<s1, s2>>
MCFeedOf == s1 :> t1 @@ s2 :> u1
MCCatOf == s1 :> cat1 @@ s2 :> cat2
MCSuccessor == t1 :> t2 @@ t2 :> Nobody @@ u1 :> Nobody
MCTitleOf == i1 :> b1 @@ i2 :> b2
MCCanList == t1 :> {} @@ t2 :> {i1} @@ u1 :> {i1, i2}
MCCast == b1 :> {t2} @@ b2 :> {}

\* The copies of a title: two folders of it, one of them in two parts, a folder
\* it cannot be read from, and parts moved in.
MCPartsOf == [c \in Copies |-> IF c \in {"f1", "g"} THEN 2 ELSE 1]
MCKind == [f \in Folders |-> CASE f = "f1" -> "clear" [] f = "f2" -> "unnamed" [] OTHER -> "unclear"]

\* The names in a folder: numbered or lettered parts, cuts, numbered copies and
\* phone rips.
MCNames ==
    {n \in [index : {0, 1, 2, Phone}, letter : {0, 1}, tag : Tags, copy : BOOLEAN] :
        /\ n.index = 0 \/ n.letter = 0
        /\ n.index = Phone => n.tag \in {"none", "4k"}
        /\ n.copy => n.index = 0 /\ n.letter = 0}

\* The mirror: one video whole and a part of it, and what Emby wrote of each.
CONSTANTS vid, cd1, dir1, dir2, nfo, nfo1

MCStarts == nfo :> {vid} @@ nfo1 :> {vid, cd1}
MCLength == vid :> 1 @@ cd1 :> 2
MCRules ==
    {[x \in Stems |-> d] : d \in TitleDirs} \union {[x \in Stems |-> IF x = vid THEN NoTitle ELSE dir1]}

VARIABLE subject
titlesVars == <<subject, ledgerVars, feedVars, wakeVars, filingVars, selectionVars, mirrorVars>>

NoFolder == [videos |-> {}, avids |-> {"own"}, name |-> "own", wanted |-> "own"]

\* A part that is not at work stays in one of its initial states.  In the mirror Emby has
\* written everything at first, or nothing.
TitlesInit ==
    /\ subject \in {"ledger", "feeds", "tracker", "library", "folder", "mirror"}
    /\ LedgerInit /\ WakeInit /\ FilingInit
    /\ (subject # "feeds" => listed = [f \in Feeds |-> {}] /\ held = {}) /\ FeedInit
    /\ (subject # "feeds" => \A s \in Subs : ~sub[s].seed)
    /\ IF subject = "folder" THEN SelectionInit ELSE folder = NoFolder /\ verdict = Unjudged
    /\ (subject # "mirror" => src = {} /\ meta = [d \in TitleDirs |-> {}] /\ rule = CHOOSE r \in Rules : TRUE) /\ MirrorInit
    /\ (subject = "mirror" => \A d \in TitleDirs : meta[d] \in {{}, Sidecars})

TitlesNext ==
    /\ UNCHANGED subject
    /\ \/ subject = "ledger" /\ LedgerNext
          /\ UNCHANGED <<feedVars, wakeVars, filingVars, selectionVars, mirrorVars>>
       \/ subject = "feeds" /\ FeedNext
          /\ UNCHANGED <<ledgerVars, wakeVars, filingVars, selectionVars, mirrorVars>>
       \/ subject = "tracker" /\ WakeNext
          /\ UNCHANGED <<ledgerVars, feedVars, filingVars, selectionVars, mirrorVars>>
       \/ subject = "library" /\ FilingNext
          /\ UNCHANGED <<ledgerVars, feedVars, wakeVars, selectionVars, mirrorVars>>
       \/ subject = "folder" /\ SelectionNext
          /\ UNCHANGED <<ledgerVars, feedVars, wakeVars, filingVars, mirrorVars>>
       \/ subject = "mirror" /\ MirrorNext
          /\ UNCHANGED <<ledgerVars, feedVars, wakeVars, filingVars, selectionVars>>

TitlesSpec == TitlesInit /\ [][TitlesNext]_titlesVars
==============================================================================
