---------------------------- MODULE PlaylistSync ----------------------------
(***************************************************************************)
(* Ranking lists mirrored as Emby playlists: the stored lists, one run of  *)
(* the playlists pipeline at a time with an action per request to Emby or  *)
(* the database, the operator's switch of a list, and what else happens to *)
(* the library, the source and the server.                                 *)
(***************************************************************************)
EXTENDS Naturals, Sequences, FiniteSets, SequencesExt

CONSTANTS Lists, Movies,
          Ranking,          \* Ranking[n][l]: list l in the n-th database, in order
          PlaylistIds,      \* the ids Emby gives, each once
          NoPlaylist, Deleted,
          PlaylistTrouble   \* bound: failures and changes around the runs

\* Every new playlist but a list's first is owed to some trouble: the ids never run out.
ASSUME EnoughIds == Cardinality(PlaylistIds) >= Cardinality(Lists) + PlaylistTrouble

VARIABLES
    list,       \* list[l]: the stored row of a list
    stored,     \* the database the stored entries are recorded as coming from
    published,  \* the database the source publishes
    library,    \* the movies Emby indexes
    server,     \* server[p]: the entries of a playlist, NoPlaylist before and Deleted after
    sync,       \* the run
    mishaps

playlistVars == <<list, stored, published, library, server, sync, mishaps>>

NotRunning == [pc |-> "idle", version |-> 0, todo |-> {}, l |-> NoPlaylist, row |-> NoPlaylist,
               index |-> {}, existing |-> {}, id |-> NoPlaylist, entries |-> <<>>]

PlaylistInit ==
    /\ list = [l \in Lists |-> [there |-> FALSE, enabled |-> TRUE, version |-> 0, id |-> NoPlaylist, error |-> FALSE]]
    /\ stored = 0 /\ published = 1
    /\ library \in SUBSET Movies
    /\ server = [p \in PlaylistIds |-> NoPlaylist]
    /\ sync = NotRunning
    /\ mishaps = 0

Mishap == mishaps < PlaylistTrouble /\ mishaps' = mishaps + 1

Entries(row, l) == Ranking[row.version][l]
Target(row, l) == SelectSeq(Entries(row, l), LAMBDA m : m \in sync.index)
OnServer == {p \in PlaylistIds : server[p] \notin {NoPlaylist, Deleted}}

-----------------------------------------------------------------------------
(* The run *)

SyncStarts ==
    /\ sync.pc = "idle"
    /\ sync' = [NotRunning EXCEPT !.pc = "source"]
    /\ UNCHANGED <<list, stored, published, library, server, mishaps>>

\* replace_lists: a new database replaces the entries; the operator's switch and the playlist stay, and a
\* list that is no longer published keeps its entries, with an error noted on it.
Replaced ==
    [l \in Lists |->
        IF l \in DOMAIN Ranking[published]
        THEN [list[l] EXCEPT !.there = TRUE, !.version = published]
        ELSE [list[l] EXCEPT !.error = list[l].there]]

Refresh ==
    /\ sync.pc = "source"
    /\ \/ /\ published # stored
          /\ list' = Replaced
          /\ sync' = [sync EXCEPT !.pc = "stored", !.version = published]
          /\ UNCHANGED mishaps
       \/ /\ published = stored
          /\ sync' = [sync EXCEPT !.pc = "index"]
          /\ UNCHANGED <<list, mishaps>>
       \/ /\ Mishap     \* the source cannot be read: the stored lists serve, if any
          /\ sync' = IF \E l \in Lists : list[l].there THEN [sync EXCEPT !.pc = "index"] ELSE NotRunning
          /\ UNCHANGED list
    /\ UNCHANGED <<stored, published, library, server>>

RecordSource ==
    /\ sync.pc = "stored"
    /\ stored' = sync.version
    /\ sync' = [sync EXCEPT !.pc = "index"]
    /\ UNCHANGED <<list, published, library, server, mishaps>>

\* The rows are read, then the movies and playlists Emby has.
ReadIndex ==
    /\ sync.pc = "index"
    /\ sync' = [sync EXCEPT !.pc = "lists", !.todo = {l \in Lists : list[l].there}, !.row = list, !.index = library, !.existing = OnServer]
    /\ UNCHANGED <<list, stored, published, library, server, mishaps>>

NextList(l) ==
    /\ sync.pc = "lists" /\ l \in sync.todo
    /\ LET row == sync.row[l]
           known == IF row.id \in sync.existing THEN row.id ELSE NoPlaylist
       IN  sync' = [sync EXCEPT !.l = l, !.todo = @ \ {l}, !.id = known,
                       !.pc = IF row.enabled
                              THEN IF known # NoPlaylist THEN "read"
                                   ELSE IF Target(row, l) # <<>> THEN "create" ELSE "record"
                              ELSE IF known # NoPlaylist THEN "delete" ELSE "record"]
    /\ UNCHANGED <<list, stored, published, library, server, mishaps>>

SyncEnds ==
    /\ sync.pc = "lists" /\ sync.todo = {}
    /\ sync' = NotRunning
    /\ UNCHANGED <<list, stored, published, library, server, mishaps>>

Wanted == Target(sync.row[sync.l], sync.l)
NewId == CHOOSE p \in PlaylistIds : server[p] = NoPlaylist

CreatePlaylist ==
    /\ sync.pc = "create"
    /\ server' = [server EXCEPT ![NewId] = Wanted]
    /\ sync' = [sync EXCEPT !.pc = "record", !.id = NewId, !.existing = @ \cup {NewId}]
    /\ UNCHANGED <<list, stored, published, library, mishaps>>

\* ReadEntries where a playlist with the right titles in a wrong order passes.
ReadEntriesPatching ==
    /\ sync.pc = "read" /\ sync.id \in OnServer
    /\ sync' = [sync EXCEPT !.entries = server[sync.id],
                            !.pc = IF Range(server[sync.id]) = Range(Wanted) THEN "record" ELSE "empty"]
    /\ UNCHANGED <<list, stored, published, library, server, mishaps>>

\* Any difference in the order has the playlist emptied and filled again.
ReadEntries ==
    /\ sync.pc = "read" /\ sync.id \in OnServer
    /\ sync' = [sync EXCEPT !.entries = server[sync.id],
                            !.pc = IF server[sync.id] = Wanted THEN "record" ELSE "empty"]
    /\ UNCHANGED <<list, stored, published, library, server, mishaps>>

EmptyPlaylist ==
    /\ sync.pc = "empty" /\ sync.id \in OnServer
    /\ server' = [server EXCEPT ![sync.id] = SelectSeq(@, LAMBDA m : m \notin Range(sync.entries))]
    /\ sync' = [sync EXCEPT !.pc = "fill"]
    /\ UNCHANGED <<list, stored, published, library, mishaps>>

FillPlaylist ==
    /\ sync.pc = "fill" /\ sync.id \in OnServer
    /\ server' = [server EXCEPT ![sync.id] = @ \o Wanted]
    /\ sync' = [sync EXCEPT !.pc = "record"]
    /\ UNCHANGED <<list, stored, published, library, mishaps>>

\* _retire: a disabled list has no playlist.
DeletePlaylist ==
    /\ sync.pc = "delete" /\ sync.id \in OnServer
    /\ server' = [server EXCEPT ![sync.id] = Deleted]
    /\ sync' = [sync EXCEPT !.pc = "record", !.id = NoPlaylist, !.existing = @ \ {sync.id}]
    /\ UNCHANGED <<list, stored, published, library, mishaps>>

\* record_sync writes the playlist of the row that was read.
RecordSync ==
    /\ sync.pc = "record"
    /\ list' = [list EXCEPT ![sync.l].id = sync.id, ![sync.l].error = FALSE]
    /\ sync' = [sync EXCEPT !.pc = "lists", !.id = NoPlaylist, !.entries = <<>>]
    /\ UNCHANGED <<stored, published, library, server, mishaps>>

\* A request fails, or addresses a playlist that is gone: noted on the list.
RequestFails ==
    /\ \/ sync.pc \in {"read", "empty", "fill", "delete"} /\ sync.id \notin OnServer /\ UNCHANGED mishaps
       \/ sync.pc \in {"create", "read", "empty", "fill", "delete"} /\ Mishap
    /\ list' = [list EXCEPT ![sync.l].error = TRUE]
    /\ sync' = [sync EXCEPT !.pc = "lists", !.id = NoPlaylist, !.entries = <<>>]
    /\ \/ UNCHANGED server
       \/ \* the playlist was made and the answer lost: it stays, and no row knows it
          /\ sync.pc = "create"
          /\ server' = [server EXCEPT ![NewId] = Wanted]
    /\ UNCHANGED <<stored, published, library>>

\* The run fails as a whole, is cancelled, or its process dies.
SyncStops ==
    /\ sync.pc # "idle" /\ Mishap
    /\ sync' = NotRunning
    /\ UNCHANGED <<list, stored, published, library, server>>

-----------------------------------------------------------------------------
SwitchList(l) ==
    /\ list[l].there /\ Mishap
    /\ list' = [list EXCEPT ![l].enabled = ~@]
    /\ UNCHANGED <<stored, published, library, server, sync>>

LibraryChanges(m) ==
    /\ Mishap
    /\ library' = IF m \in library THEN library \ {m} ELSE library \cup {m}
    /\ UNCHANGED <<list, stored, published, server, sync>>

SourceMovesOn ==
    /\ published + 1 \in DOMAIN Ranking
    /\ published' = published + 1
    /\ UNCHANGED <<list, stored, library, server, sync, mishaps>>

\* Someone removes a playlist or an entry on the server.
ServerEdited(p) ==
    /\ p \in OnServer /\ Mishap
    /\ \/ server' = [server EXCEPT ![p] = Deleted]
       \/ server[p] # <<>> /\ server' = [server EXCEPT ![p] = Tail(@)]
    /\ UNCHANGED <<list, stored, published, library, sync>>

-----------------------------------------------------------------------------
SyncSteps ==
    \/ Refresh \/ RecordSource \/ ReadIndex \/ SyncEnds \/ CreatePlaylist \/ ReadEntries \/ EmptyPlaylist
    \/ FillPlaylist \/ DeletePlaylist \/ RecordSync \/ RequestFails
    \/ \E l \in Lists : NextList(l)

PlaylistNext ==
    \/ SyncStarts \/ SyncSteps \/ SyncStops \/ SourceMovesOn
    \/ \E l \in Lists : SwitchList(l)
    \/ \E m \in Movies : LibraryChanges(m)
    \/ \E p \in PlaylistIds : ServerEdited(p)

\* The playlists loop starts a run on every period, and a run goes on.
PlaylistFairness == WF_playlistVars(SyncStarts) /\ WF_playlistVars(SyncSteps)

PlaylistSpec == PlaylistInit /\ [][PlaylistNext]_playlistVars /\ PlaylistFairness

-----------------------------------------------------------------------------
(* Properties *)

\* The playlist shows the list's present titles in ranking order, or is gone with the list
\* disabled; without present titles it may be empty or never made.
Mirrored(l) ==
    LET wanted == SelectSeq(Ranking[list[l].version][l], LAMBDA m : m \in library)
        shown == IF list[l].id = NoPlaylist THEN <<>> ELSE server[list[l].id]
    IN  IF list[l].enabled THEN shown = wanted ELSE list[l].id = NoPlaylist

\* Whatever failed, changed or stopped half way, the runs bring every stored list up to the
\* published database and its playlist to the list (playlist_sync.py:3-8), once things rest.
PlaylistsConverge ==
    <>[](\A l \in Lists :
            /\ l \in DOMAIN Ranking[published] => list[l].version = published
            /\ list[l].there => Mirrored(l))
=============================================================================
