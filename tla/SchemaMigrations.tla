--------------------------- MODULE SchemaMigrations ---------------------------
(****************************************************************************)
(* What the migrations of db.py do to the data they find, from the release  *)
(* that still kept its failed titles apart (schema 3) to the present one    *)
(* (schema 18).  Every migration is one action: its statements run in one   *)
(* transaction.  Between two of them the release of that schema runs and    *)
(* records titles under the spelling its parser used.                       *)
(*                                                                          *)
(* A section is a record of the keys the migrations read or strip; an AVID  *)
(* is its brand, its number and the digits it is written with.              *)
(****************************************************************************)
EXTENDS Integers, Sequences, FiniteSets

CONSTANTS
    Labels,     \* names an operator gave a category
    DefaultActor, DefaultRank,   \* the names the categories shipped with
    Dirs,       \* offline directories
    EmptyText,      \* a value that is there and empty
    NoKey,      \* a key the stored section does not have
    NotThere,     \* a section never stored; a directory not known
    Catalog,    \* brands whose numbers are catalog ids
    Brands,     \* those and the ones that keep their digits (FC2, HEYZO, ...)
    Numbers,
    MaxTitles   \* bound: titles recorded in a run

ASSUME MigrationsAssumption ==
    /\ DefaultActor \in Labels /\ DefaultRank \in Labels /\ DefaultActor # DefaultRank
    /\ Catalog \subseteq Brands
    /\ Numbers \subseteq 1 .. 9999
    /\ MaxTitles \in Nat
    \* a section that was never stored is none that was
    /\ NotThere \notin [dir : Dirs \cup {EmptyText, NoKey}, named : BOOLEAN]
    /\ NotThere \notin [interval : {300, 600}, local : BOOLEAN]

VARIABLES
    version,    \* the newest migration applied
    failed,     \* rss_failed_avids
    titles,     \* archive_acquisitions: [id, avid, dir]
    attempts,   \* archive_magnet_attempts: [avid, of], "of" the title it was made for
    sections,   \* app_config
    admitted,   \* the names the CHECK constraints admit
    old         \* the sections as the old release left them

migrationVars == <<version, failed, titles, attempts, sections, admitted, old>>

Digits(n) == IF n >= 1000 THEN 4 ELSE IF n >= 100 THEN 3 ELSE IF n >= 10 THEN 2 ELSE 1

\* The spellings a number was recorded under: bare, or padded up to four digits.
Spellings == {a \in [brand : Brands, number : Numbers, width : 1 .. 4] :
                 a.width >= Digits(a.number)}

\* BRAND-NUMBER with the catalog's three-digit padding.
Padded(avid) ==
    IF avid.brand \in Catalog
    THEN [avid EXCEPT !.width = IF Digits(avid.number) >= 3 THEN Digits(avid.number) ELSE 3]
    ELSE avid

Old == [clouddrive : {NotThere} \cup [dir : Dirs \cup {EmptyText, NoKey}, named : BOOLEAN],
        archive : {NotThere} \cup [interval : {300, 600}, local : BOOLEAN],
        rss : {NotThere} \cup [actor : Labels \cup {EmptyText, NoKey}, rank : Labels \cup {EmptyText, NoKey}]]

MigrationsInit ==
    /\ version = 3
    /\ failed \in {f \in SUBSET Spellings : Cardinality(f) <= 2}
    /\ titles = {} /\ attempts = {}
    /\ old \in Old
    /\ sections = old
    /\ admitted = [pipelines |-> {"rss", "archive", "mapping"},
                   stages |-> {"queued", "actor_catalog", "library_scan", "magnet_lookup",
                               "persisting", "done", "unknown"},
                   merges |-> {}]

-----------------------------------------------------------------------------
\* A release from schema 5 on records a title and a download of it.
Discover ==
    /\ version >= 5
    /\ Cardinality(titles) < MaxTitles
    /\ \E a \in Spellings, d \in Dirs \cup {NotThere} :
          /\ version >= 13 => a = Padded(a)
          /\ version < 8 => d = NotThere
          /\ a \notin {t.avid : t \in titles}
          /\ titles' = titles \cup {[id |-> a, avid |-> a, dir |-> d]}
          /\ attempts' = attempts \cup {[avid |-> a, of |-> a]}
    /\ UNCHANGED <<version, failed, sections, admitted, old>>

\* 4 and 5: the cooldown of a failed title becomes a row of the ledger.
CarryFailures ==
    /\ version = 3
    /\ version' = 5
    /\ titles' = {[id |-> a, avid |-> a, dir |-> NotThere] : a \in failed}
    /\ failed' = {}
    /\ UNCHANGED <<attempts, sections, admitted, old>>

\* 6 and 7: keys no section model knows any more are stripped.
StripCloudKeys ==
    /\ version = 5
    /\ version' = 6
    /\ sections' = IF sections.clouddrive = NotThere THEN sections
                   ELSE [sections EXCEPT !.clouddrive.named = FALSE]
    /\ UNCHANGED <<failed, titles, attempts, admitted, old>>

StripArchiveKeys ==
    /\ version = 6
    /\ version' = 7
    /\ sections' = IF sections.archive = NotThere THEN sections
                   ELSE [sections EXCEPT !.archive.local = FALSE]
    /\ UNCHANGED <<failed, titles, attempts, admitted, old>>

\* The one directory everything was queued under, if it was ever set.
Inbox(stored) ==
    IF stored.clouddrive = NotThere \/ stored.clouddrive.dir \in {EmptyText, NoKey}
    THEN NotThere ELSE stored.clouddrive.dir

\* The two label fields, their defaults for the ones left empty.
OldLabels(rss) ==
    <<IF rss.actor \in {EmptyText, NoKey} THEN DefaultActor ELSE rss.actor,
      IF rss.rank \in {EmptyText, NoKey} THEN DefaultRank ELSE rss.rank>>

\* Labels that repeat collapse to the first; without an inbox there are none.
Categories(stored) ==
    LET labels == OldLabels(stored.rss)
        kept == IF labels[1] = labels[2] THEN <<labels[1]>> ELSE labels
    IN  IF Inbox(stored) = NotThere THEN << >>
        ELSE [i \in DOMAIN kept |-> [label |-> kept[i], dir |-> Inbox(stored)]]

Undirected(clouddrive) ==
    IF clouddrive = NotThere THEN NotThere ELSE [clouddrive EXCEPT !.dir = NoKey]

\* 8 with the directory stripped before the categories have read it.
OwnDirectoriesStripped ==
    /\ version = 7
    /\ version' = 8
    /\ titles' = {[t EXCEPT !.dir = Inbox(sections)] : t \in titles}
    /\ sections' = [sections EXCEPT
          !.rss = IF @ = NotThere THEN @ ELSE [categories |-> << >>],
          !.clouddrive = Undirected(@)]
    /\ UNCHANGED <<failed, attempts, admitted, old>>

\* 8: titles and categories take the shared directory, which then goes.
OwnDirectories ==
    /\ version = 7
    /\ version' = 8
    /\ titles' = {[t EXCEPT !.dir = Inbox(sections)] : t \in titles}
    /\ sections' = [sections EXCEPT
          !.rss = IF @ = NotThere THEN @ ELSE [categories |-> Categories(sections)],
          !.clouddrive = Undirected(@)]
    /\ UNCHANGED <<failed, attempts, admitted, old>>

\* 9: a stored interval that is the old default follows the default.
RaiseInterval ==
    /\ version = 8
    /\ version' = 9
    /\ sections' = IF sections.archive # NotThere /\ sections.archive.interval = 300
                   THEN [sections EXCEPT !.archive.interval = 1800] ELSE sections
    /\ UNCHANGED <<failed, titles, attempts, admitted, old>>

\* 10 to 12: the submitting stage, the release date, the subscriptions.
AdmitSubmitting ==
    /\ version = 9
    /\ version' = 12
    /\ admitted' = [admitted EXCEPT !.stages = @ \cup {"submitting"}]
    /\ UNCHANGED <<failed, titles, attempts, sections, old>>

\* A title takes the padded key unless it is held, or two would take it.
Renamed(t) ==
    LET key == Padded(t.avid) IN
    IF /\ key \notin {o.avid : o \in titles}
       /\ \A o \in titles : Padded(o.avid) = key => o = t
    THEN [t EXCEPT !.avid = key] ELSE t

\* 13: the spelling of the keys; the attempts follow by ON UPDATE CASCADE.
PadKeys ==
    /\ version = 12
    /\ version' = 13
    /\ titles' = {Renamed(t) : t \in titles}
    /\ attempts' = {[a EXCEPT !.avid =
                        Renamed(CHOOSE t \in titles : t.avid = a.avid).avid] : a \in attempts}
    /\ UNCHANGED <<failed, sections, admitted, old>>

\* 14 to 18: FreshRSS goes; playlists, merging and replacements come.
AdmitNewPipelines ==
    /\ version = 13
    /\ version' = 18
    /\ admitted' = [admitted EXCEPT
          !.pipelines = @ \cup {"playlists"},
          !.merges = {"queued", "merging", "uploading", "verifying", "replacing",
                      "archiving", "done", "failed", "cancelled"}]
    /\ UNCHANGED <<failed, titles, attempts, sections, old>>

MigrationsNext ==
    \/ Discover
    \/ CarryFailures \/ StripCloudKeys \/ StripArchiveKeys
    \/ OwnDirectories \/ RaiseInterval \/ AdmitSubmitting
    \/ PadKeys \/ AdmitNewPipelines

MigrationsSpec == MigrationsInit /\ [][MigrationsNext]_migrationVars

-----------------------------------------------------------------------------
(* The names the present release writes.                                    *)

PipelineName == {"rss", "archive", "mapping", "playlists"}
JobStage == {"queued", "actor_catalog", "library_scan", "magnet_lookup",
             "submitting", "persisting", "done", "unknown"}
MergeState == {"queued", "merging", "uploading", "verifying", "replacing",
               "archiving", "done", "failed", "cancelled"}

\* What the section models accept: no key of theirs is unknown, and labels
\* are set and do not repeat (RssConfig).
Accepted(stored) ==
    /\ stored.clouddrive # NotThere => stored.clouddrive.dir = NoKey /\ ~stored.clouddrive.named
    /\ stored.archive # NotThere => ~stored.archive.local
    /\ stored.rss # NotThere =>
          LET c == stored.rss.categories IN
          \A i, j \in DOMAIN c : c[i].label \in Labels /\ (c[i].label = c[j].label => i = j)

\* The upgrade changes no behaviour: every section still validates, so none
\* falls back to its defaults; every label an operator used downloads into the
\* directory everything went to, in the old order of precedence, and a chosen
\* interval stays (_MIGRATIONS[6] to [9]); and the database admits every name
\* the present release writes (_MIGRATIONS[10], [16], [17]).
SettingsSurvive ==
    version = 18 =>
       /\ Accepted(sections)
       /\ old.rss # NotThere /\ Inbox(old) # NotThere =>
             LET c == sections.rss.categories IN
             /\ {c[i].label : i \in DOMAIN c} = {OldLabels(old.rss)[i] : i \in 1 .. 2}
             /\ c[1].label = OldLabels(old.rss)[1]
             /\ \A i \in DOMAIN c : c[i].dir = Inbox(old)
       /\ old.archive # NotThere =>
             sections.archive.interval = IF old.archive.interval = 300 THEN 1800
                                         ELSE old.archive.interval
       /\ PipelineName \subseteq admitted.pipelines
       /\ JobStage \subseteq admitted.stages
       /\ MergeState \subseteq admitted.merges

\* No title is lost or merged into another one by the new spelling, each keeps
\* its own attempts, and where the catalog spelling was free it is the key the
\* present parser looks it up by (_MIGRATIONS[5], [8] and [13]).
TitlesSurvive ==
    /\ \A t, o \in titles : t.avid = o.avid => t = o
    /\ \A a \in attempts : \E t \in titles : t.id = a.of /\ t.avid = a.avid
    /\ version >= 13 => \A t \in titles :
          t.avid = Padded(t.avid) \/ \E o \in titles : o # t /\ Padded(o.avid) = Padded(t.avid)

\* An upgrade through all versions in between keeps what was stored before it.
UpgradeKeeps == SettingsSurvive /\ TitlesSurvive

=============================================================================
