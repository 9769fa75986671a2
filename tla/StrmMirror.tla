----------------------------- MODULE StrmMirror -----------------------------
(***************************************************************************)
(* The tree of strm files the mapping pipeline derives for Emby            *)
(* (monitor/mapping.py): every strm of a source directory has its copy in  *)
(* the directory of its title, beside what Emby writes there.  A full sync *)
(* goes file by file, and a batch of the changes the watchdog told of path *)
(* by path (monitor/scheduler.py), while the source changes and Emby       *)
(* writes; the ID rules, which give a strm its title, may have changed     *)
(* since the last.                                                         *)
(***************************************************************************)
EXTENDS Naturals, Sequences, FiniteSets

CONSTANTS
    Stems,          \* names of strm files, of one source directory
    TitleDirs,         \* title directories
    Sidecars,          \* names of what Emby writes
    Starts,         \* Starts[f]: the stems that, with "." or "-", start f
    Length,         \* Length[s]
    Parts,          \* the stems that end in -cdN
    Rules,          \* Rules: the ID rules; a rule gives a stem its title, or NoTitle
    NoTitle,
    MaxChanges      \* bound on the changes of the source, of the rules, and on errors

ASSUME MirrorAssumption ==
    /\ Parts \subseteq Stems
    /\ Starts \in [Sidecars -> SUBSET Stems] /\ \A f \in Sidecars : IsFiniteSet(Starts[f])
    /\ Length \in [Stems -> Nat]
    /\ Rules \subseteq [Stems -> TitleDirs \union {NoTitle}] /\ NoTitle \notin TitleDirs

VARIABLES
    src,            \* the stems whose strm the source has
    strm,           \* strm[d]: those with a copy in d
    meta,           \* meta[d]: what Emby wrote in d
    there,          \* the title directories that exist
    rule,
    sync,           \* the run: pc, what a full sync has still to visit, what it deleted,
                    \* whether an event came in the meantime
    coming,         \* coming[s]: events on their way to the loop, TRUE for a deletion
    pending,        \* the paths the next batch has to treat
    batch,          \* those this batch still has to treat, and those that failed
    untold,         \* those whose last change nothing tells of (for the properties)
    changes

mirror == <<strm, meta, there>>
batchVars == <<coming, pending, batch, untold>>
mirrorVars == <<src, strm, meta, there, rule, sync, coming, pending, batch, untold, changes>>

AtRest == [pc |-> "rest", todo |-> {}, gone |-> [d \in TitleDirs |-> {}], heard |-> FALSE, steady |-> TRUE]
NonePending == [changed |-> {}, deleted |-> {}]
NoBatch == [changed |-> {}, deleted |-> {}, unchanged |-> {}, undeleted |-> {}]

MirrorInit ==
    /\ src \in SUBSET Stems
    /\ rule \in Rules
    /\ strm = [d \in TitleDirs |-> {s \in src : rule[s] = d}]
    /\ there = {d \in TitleDirs : strm[d] # {}}
    /\ meta \in {m \in [TitleDirs -> SUBSET Sidecars] : \A d \in TitleDirs \ there : m[d] = {}}
    /\ sync = AtRest
    /\ coming = [s \in Stems |-> <<>>] /\ pending = NonePending /\ batch = NoBatch /\ untold = {}
    /\ changes = 0

Listed(s) == \E d \in TitleDirs : s \in strm[d]

Longest(S) == {s \in S : \A t \in S : Length[t] <= Length[s]}

(* Change, by anyone but the sync: a sync under way is then not steady.     *)
Change ==
    /\ changes < MaxChanges
    /\ changes' = changes + 1
    /\ sync' = [sync EXCEPT !.steady = sync.pc = "rest"]
----------------------------------------------------------------------------
(* _owner: the longest name that starts it.                                 *)
Owner(f, stems) == Longest(Starts[f] \intersect stems)

(* What _delete_sidecars deletes in d: the metadata of strms that are gone, *)
(* and of parts that are not there, if any strm is.                         *)
Orphan(d, f, gone) ==
    LET owner == Owner(f, strm[d] \union gone)
        parts == {p \in (Starts[f] \intersect Parts) \ strm[d] :
                     \A s \in owner : Length[p] > Length[s]}
    IN  \/ owner # {} /\ owner \intersect strm[d] = {}
        \/ strm[d] # {} /\ parts # {}

(* A run of the pipeline starts: the source is listed.                      *)
FullStarts ==
    /\ sync.pc = "rest"
    /\ sync' = [AtRest EXCEPT !.pc = "update", !.todo = src]
    /\ UNCHANGED <<src, mirror, rule, batchVars, changes>>

(* update_one: a strm that vanished, or has no title, is skipped.           *)
Copied(s) ==
    LET d == rule[s] IN
    /\ IF s \in src /\ d # NoTitle
       THEN /\ strm' = [strm EXCEPT ![d] = @ \union {s}]
            /\ there' = there \union {d}
       ELSE UNCHANGED <<strm, there>>
    /\ UNCHANGED <<src, meta, rule, changes>>

UpdateOne(s) ==
    /\ sync.pc = "update" /\ s \in sync.todo
    /\ Copied(s)
    /\ sync' = [sync EXCEPT !.todo = @ \ {s}]
    /\ UNCHANGED batchVars

(* An error ends the run.                                                   *)
UpdateFails ==
    /\ sync.pc = "update" /\ sync.todo # {}
    /\ changes < MaxChanges /\ changes' = changes + 1
    /\ sync' = AtRest
    /\ UNCHANGED <<src, mirror, rule, batchVars>>

ListMirror ==
    /\ sync.pc = "update" /\ sync.todo = {}
    /\ sync' = [sync EXCEPT !.pc = "strays",
                            !.todo = {x \in TitleDirs \X Stems : x[2] \in strm[x[1]]}]
    /\ UNCHANGED <<src, mirror, rule, batchVars, changes>>

(* Mutant: a strm that maps elsewhere now is a stray.                       *)
MovedAnywhere(s, d) == rule[s] \notin {NoTitle, d}

(* _moved: its copy is already in the directory it maps to now.             *)
MovedAway(s, d) == rule[s] \notin {NoTitle, d} /\ s \in strm[rule[s]]

Stray(d, s) ==
    /\ sync.pc = "strays" /\ <<d, s>> \in sync.todo
    /\ IF s \notin src \/ MovedAway(s, d)
       THEN /\ strm' = [strm EXCEPT ![d] = @ \ {s}]
            /\ sync' = [sync EXCEPT !.todo = @ \ {<<d, s>>}, !.gone[d] = @ \union {s}]
       ELSE /\ sync' = [sync EXCEPT !.todo = @ \ {<<d, s>>}] /\ UNCHANGED strm
    /\ UNCHANGED <<src, meta, there, rule, batchVars, changes>>

(* Every title directory that had a strm loses what belongs to none.        *)
DeleteSidecars ==
    /\ sync.pc = "strays" /\ sync.todo = {}
    /\ meta' = [d \in TitleDirs |->
                  IF strm[d] \union sync.gone[d] = {} THEN meta[d]
                  ELSE {f \in meta[d] : ~Orphan(d, f, sync.gone[d])}]
    /\ sync' = [sync EXCEPT !.pc = "dirs"]
    /\ UNCHANGED <<src, strm, there, rule, batchVars, changes>>

(* _delete_empty_dirs: without a strm a directory goes, with what is left   *)
(* in it; one that cannot be deleted stays.                                 *)
DeleteEmptyDirs ==
    /\ sync.pc = "dirs"
    /\ \E kept \in SUBSET {d \in there : strm[d] = {}} :
          /\ kept = {} \/ changes < MaxChanges
          /\ changes' = IF kept = {} THEN changes ELSE changes + 1
          /\ there' = {d \in there : strm[d] # {} \/ d \in kept}
          /\ meta' = [d \in TitleDirs |-> IF d \in there' THEN meta[d] ELSE {}]
          /\ sync' = [sync EXCEPT !.pc = "ended", !.steady = @ /\ kept = {}]
    /\ UNCHANGED <<src, strm, rule, batchVars>>

(* What is pending is behind a scheduled run during which no event came; the *)
(* operator's runs, and the first, leave it.                                *)
FullEnds ==
    /\ sync.pc = "ended"
    /\ sync' = AtRest
    /\ \/ ~sync.heard /\ pending' = NonePending
       \/ UNCHANGED pending
    /\ UNCHANGED <<src, mirror, rule, coming, batch, untold, changes>>
----------------------------------------------------------------------------
(* _on_fs_event: a path's last event decides what the next batch does to it. *)
Hear(s) ==
    /\ coming[s] # <<>>
    /\ coming' = [coming EXCEPT ![s] = Tail(@)]
    /\ pending' = IF Head(coming[s])
                  THEN [changed |-> pending.changed \ {s}, deleted |-> pending.deleted \union {s}]
                  ELSE [changed |-> pending.changed \union {s}, deleted |-> pending.deleted \ {s}]
    /\ sync' = [sync EXCEPT !.heard = sync.pc \notin {"rest", "batch"}]
    /\ UNCHANGED <<src, mirror, rule, batch, untold, changes>>

(* The loop takes what is pending for a batch, at whatever time debouncing  *)
(* allows.                                                                  *)
BatchStarts ==
    /\ sync.pc = "rest" /\ pending # NonePending
    /\ sync' = [AtRest EXCEPT !.pc = "batch"]
    /\ batch' = [NoBatch EXCEPT !.changed = pending.changed, !.deleted = pending.deleted]
    /\ pending' = NonePending
    /\ UNCHANGED <<src, mirror, rule, coming, untold, changes>>

(* It is lost when the operator's run holds the lock, and its rest when it  *)
(* is cancelled.                                                            *)
BatchDropped ==
    /\ changes < MaxChanges /\ changes' = changes + 1
    /\ \/ /\ sync.pc = "batch" /\ sync' = AtRest /\ batch' = NoBatch
          /\ UNCHANGED pending
       \/ /\ sync.pc \notin {"rest", "batch"} /\ pending # NonePending /\ pending' = NonePending
          /\ UNCHANGED <<sync, batch>>
    /\ UNCHANGED <<src, mirror, rule, coming, untold>>

(* The copy delete_one looks for, and what _delete_sidecars takes with it.  *)
HasCopy(s) == rule[s] # NoTitle /\ s \in strm[rule[s]]
Claimed(d, s) == {f \in meta[d] : LET o == Owner(f, strm[d]) IN o # {} /\ o \subseteq {s}}

Removes(s, files) ==
    /\ strm' = [strm EXCEPT ![rule[s]] = @ \ {s}]
    /\ meta' = [meta EXCEPT ![rule[s]] = @ \ files]

(* _delete_empty_dirs_for_path: nothing at all is left in it.               *)
EmptyNow(d) == strm'[d] = {} /\ meta'[d] = {}

(* delete_one, whether or not the source has the strm again: the copy goes, *)
(* with its metadata and a directory that is empty then.                    *)
DeleteOne(s) ==
    /\ sync.pc = "batch" /\ s \in batch.deleted
    /\ batch' = [batch EXCEPT !.deleted = @ \ {s}]
    /\ IF HasCopy(s)
       THEN /\ Removes(s, Claimed(rule[s], s))
            /\ there' = IF EmptyNow(rule[s]) THEN there \ {rule[s]} ELSE there
       ELSE UNCHANGED mirror
    /\ UNCHANGED <<src, rule, sync, coming, pending, untold, changes>>

(* It fails before the copy is gone, or on the way through its metadata.    *)
DeleteFails(s) ==
    /\ sync.pc = "batch" /\ s \in batch.deleted
    /\ changes < MaxChanges /\ changes' = changes + 1
    /\ batch' = [batch EXCEPT !.deleted = @ \ {s}, !.undeleted = @ \union {s}]
    /\ \/ UNCHANGED <<strm, meta>>
       \/ HasCopy(s) /\ \E files \in SUBSET Claimed(rule[s], s) : Removes(s, files)
    /\ UNCHANGED <<src, there, rule, sync, coming, pending, untold>>

(* Mutant: changes are applied before the deletions.                        *)
AnyOrder == TRUE

(* Every deletion comes before the first update.                            *)
DeletionsDone == batch.deleted = {}

BatchUpdates(s) ==
    /\ sync.pc = "batch" /\ DeletionsDone /\ s \in batch.changed
    /\ Copied(s)
    /\ batch' = [batch EXCEPT !.changed = @ \ {s}]
    /\ UNCHANGED <<sync, coming, pending, untold>>

BatchUpdateFails(s) ==
    /\ sync.pc = "batch" /\ DeletionsDone /\ s \in batch.changed
    /\ changes < MaxChanges /\ changes' = changes + 1
    /\ batch' = [batch EXCEPT !.changed = @ \ {s}, !.unchanged = @ \union {s}]
    /\ UNCHANGED <<src, mirror, rule, sync, coming, pending, untold>>

(* What failed is pending again; a deletion also when its strm came back    *)
(* and was updated in the meantime.                                         *)
BatchEnds ==
    /\ sync.pc = "batch" /\ batch.deleted = {} /\ batch.changed = {}
    /\ sync' = AtRest
    /\ batch' = NoBatch
    /\ pending' = [changed |-> pending.changed \union batch.unchanged,
                   deleted |-> pending.deleted \union batch.undeleted]
    /\ untold' = untold \union {s \in batch.undeleted \intersect src :
                                   s \notin pending'.changed /\ coming[s] = <<>>}
    /\ UNCHANGED <<src, mirror, rule, coming, changes>>
----------------------------------------------------------------------------
(* The source changes; an observer that does not run then misses it.        *)
SourceChanges(s) ==
    /\ Change
    /\ src' = IF s \in src THEN src \ {s} ELSE src \union {s}
    /\ \/ coming' = [coming EXCEPT ![s] = Append(@, s \in src)] /\ untold' = untold \ {s}
       \/ UNCHANGED coming /\ untold' = untold \union {s}
    /\ UNCHANGED <<mirror, rule, pending, batch>>

(* New rules reach a new run only.                                          *)
RulesChange ==
    /\ sync.pc = "rest"
    /\ Change
    /\ rule' \in Rules \ {rule}
    /\ UNCHANGED <<src, mirror, batchVars>>

EmbyWrites(d, f) ==
    /\ Starts[f] \intersect strm[d] # {} /\ f \notin meta[d]
    /\ Change
    /\ meta' = [meta EXCEPT ![d] = @ \union {f}]
    /\ UNCHANGED <<src, strm, there, rule, batchVars>>

MirrorNext ==
    \/ FullStarts \/ UpdateFails \/ ListMirror \/ DeleteSidecars \/ DeleteEmptyDirs \/ FullEnds
    \/ BatchStarts \/ BatchDropped \/ BatchEnds
    \/ \E s \in Stems :
          \/ UpdateOne(s) \/ SourceChanges(s) \/ Hear(s)
          \/ DeleteOne(s) \/ DeleteFails(s) \/ BatchUpdates(s) \/ BatchUpdateFails(s)
    \/ \E d \in TitleDirs, s \in Stems : Stray(d, s)
    \/ \E d \in TitleDirs, f \in Sidecars : EmbyWrites(d, f)
    \/ RulesChange

MirrorSpec == MirrorInit /\ [][MirrorNext]_mirrorVars
----------------------------------------------------------------------------
(* The update of a strm is still to come.                                   *)
Renews(s) == s \in pending.changed \union batch.changed \/ coming[s] # <<>>

(* A change of the rules does not take a strm the source has out of the     *)
(* mirror, as the copy in the old title's directory stays until there is    *)
(* another, and no full sync does.  A batch does that was told of its       *)
(* deletion, as it does not look whether the strm is back (delete_one); but *)
(* then its update is still to come, unless nothing tells of its return.    *)
(* And the metadata of a strm that is listed is not taken for that of one   *)
(* whose name is shorter and which is gone.                                 *)
MirrorKept ==
    [][ /\ \A s \in src \intersect src' :
              Listed(s) => Listed(s)' \/ (s \in batch.deleted /\ (Renews(s)' \/ s \in untold))
        /\ \A d \in there' : \A f \in meta[d] \ meta'[d] :
              Owner(f, Stems) \intersect strm'[d] = {} ]_mirrorVars

(* When a full sync ended that nothing interfered with, every strm is       *)
(* listed where the rules put it and nowhere else, what is not in the       *)
(* source is not listed, no directory is without a strm, and no metadata of *)
(* a part that is gone is left.                                             *)
FullSyncCleans ==
    sync.pc = "ended" /\ sync.steady =>
        /\ \A s \in src : rule[s] # NoTitle => {d \in TitleDirs : s \in strm[d]} = {rule[s]}
        /\ \A d \in TitleDirs : strm[d] \subseteq src
        /\ \A d \in there : strm[d] # {}
        /\ \A d \in there : \A f \in meta[d] :
              Starts[f] # {} => ~ Owner(f, Stems) \subseteq Parts \ strm[d]

(* What the pipeline promises: on the way it takes nothing out of the       *)
(* mirror that belongs there without putting it back, and in the end of a   *)
(* full sync it leaves nothing that does not.                               *)
MirrorFollows == MirrorKept /\ []FullSyncCleans
============================================================================
