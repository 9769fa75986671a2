----------------------------- MODULE ConfigStore -----------------------------
(****************************************************************************)
(* One configuration section (config/store.py) as the replicas of the       *)
(* program see it: the row of app_config, the snapshot every process serves *)
(* its reads from, the saves of the settings page, the periodic refresh,    *)
(* and the handle that keeps a client built from the snapshot               *)
(* (bootstrap.CloudDriveHandle).  A process first opens its database, which *)
(* migrates the schema (db.Database).                                       *)
(*                                                                          *)
(* A section is its plain values, one member of Settings, and its secret.   *)
(* The connection pool, the retry of a failed start and the other sections  *)
(* are left out: no step of one section reads another.                      *)
(****************************************************************************)
EXTENDS Integers, Sequences

CONSTANTS
    Replicas,    \* processes sharing the database
    Release,     \* Release[r]: the newest migration process r knows
    Settings,    \* plain values of the section
    Default,     \* the values of a section nobody saved
    Secrets,     \* secrets an operator may type
    Blank,       \* a secret left empty
    AnyVersion,  \* a save that names no version
    Unset,       \* no row, no client, no process
    MaxSaves,    \* bound: saves in a run
    MaxCrashes,  \* bound: processes that die in a run
    RowStored    \* whether the section was saved before the run

ASSUME ConfigAssumption ==
    /\ Release \in [Replicas -> Nat \ {0}]
    /\ Default \in Settings
    /\ Blank \notin Secrets
    /\ Unset \notin Replicas
    /\ Unset \notin [value : Settings, secret : Secrets \cup {Blank}, version : Nat]
    /\ MaxSaves \in Nat /\ MaxCrashes \in Nat
    /\ RowStored \in BOOLEAN

VARIABLES
    applied,   \* the migrations recorded in schema_migrations, in order
    migrator,  \* the process holding the migration lock
    boot,      \* boot[r]: "down", "migrating", "up" or "refused"
    sectionRow, \* the section's row of app_config, or Unset
    rowLock,   \* the process whose transaction holds the row
    snap,      \* snap[r]: the section in the process' snapshot
    save,      \* save[r]: the save that holds the process' write lock
    reading,   \* reading[r]: the refresh in flight and the row it read
    client,    \* client[r]: what the handle built, and for which version
    saves, crashes

configVars == <<applied, migrator, boot, sectionRow, rowLock, snap, save, reading,
                client, saves, crashes>>
schemaVars == <<applied, migrator>>

\* What a section nobody saved reads as.
Unsaved == [value |-> Default, secret |-> Blank, version |-> 0]

Stored == IF sectionRow = Unset THEN Unsaved ELSE sectionRow

NoSave == [at |-> "idle"]
NoRead == [at |-> "idle"]
NoClient == [version |-> Unset, of |-> Unset]

ConfigInit ==
    /\ applied = << >>
    /\ migrator = Unset
    /\ boot = [r \in Replicas |-> "down"]
    /\ sectionRow = IF RowStored THEN [Unsaved EXCEPT !.version = 1] ELSE Unset
    /\ rowLock = Unset
    /\ snap = [r \in Replicas |-> Unsaved]
    /\ save = [r \in Replicas |-> NoSave]
    /\ reading = [r \in Replicas |-> NoRead]
    /\ client = [r \in Replicas |-> NoClient]
    /\ saves = 0 /\ crashes = 0

-----------------------------------------------------------------------------
(* Opening the database.                                                    *)

\* The transaction takes the advisory lock and reads how far the schema is.
BeginMigration(r) ==
    /\ boot[r] = "down"
    /\ migrator = Unset
    /\ boot' = [boot EXCEPT ![r] = "migrating"]
    /\ migrator' = r
    /\ reading' = [reading EXCEPT ![r] = [at |-> "schema", seen |-> Len(applied)]]
    /\ UNCHANGED <<applied, sectionRow, rowLock, snap, save, client, saves, crashes>>

\* A schema of a later release is refused; otherwise the pending migrations
\* are applied and recorded, all in the one transaction.
CommitMigration(r) ==
    LET seen == reading[r].seen IN
    /\ boot[r] = "migrating" /\ reading[r].at = "schema"
    /\ migrator' = Unset
    /\ IF seen > Release[r]
       THEN /\ boot' = [boot EXCEPT ![r] = "refused"]
            /\ reading' = [reading EXCEPT ![r] = NoRead]
            /\ UNCHANGED applied
       ELSE /\ applied' = applied \o [i \in 1 .. Release[r] - seen |-> seen + i]
            /\ reading' = [reading EXCEPT ![r] = [at |-> "load"]]
            /\ UNCHANGED boot
    /\ UNCHANGED <<sectionRow, rowLock, snap, save, client, saves, crashes>>

-----------------------------------------------------------------------------
(* The snapshot.                                                            *)

\* refresh(), of the loop or of the start: the rows are read here ...
RefreshRead(r) ==
    /\ \/ boot[r] = "up" /\ reading[r].at = "idle"
       \/ boot[r] = "migrating" /\ reading[r].at = "load"
    /\ reading' = [reading EXCEPT ![r] = [at |-> "rows", seen |-> Stored]]
    /\ UNCHANGED <<schemaVars, boot, sectionRow, rowLock, snap, save, client, saves, crashes>>

\* ... and replace the snapshot here, whatever was saved in between.
RefreshApply(r) ==
    /\ reading[r].at = "rows"
    /\ snap' = [snap EXCEPT ![r] = reading[r].seen]
    /\ reading' = [reading EXCEPT ![r] = NoRead]
    /\ boot' = [boot EXCEPT ![r] = "up"]
    /\ UNCHANGED <<schemaVars, sectionRow, rowLock, save, client, saves, crashes>>

-----------------------------------------------------------------------------
(* Saving.                                                                  *)

\* The settings page of some operator: the version it names is one this
\* process served earlier.  The write lock admits one save per process.
Save(r) ==
    /\ boot[r] = "up" /\ save[r].at = "idle"
    /\ saves < MaxSaves
    /\ \E v \in Settings, s \in Secrets \cup {Blank},
          e \in {AnyVersion} \cup 0 .. snap[r].version :
          save' = [save EXCEPT ![r] = [at |-> "asked", value |-> v, secret |-> s, expects |-> e]]
    /\ saves' = saves + 1
    /\ UNCHANGED <<schemaVars, boot, sectionRow, rowLock, snap, reading, client, crashes>>

\* A save that reads the row without FOR UPDATE.
ReadRowUnlocked(r) ==
    /\ save[r].at = "asked"
    /\ save' = [save EXCEPT ![r] =
          IF @.expects \in {AnyVersion, Stored.version}
          THEN [at |-> "read", value |-> @.value, secret |-> @.secret,
                expects |-> @.expects, current |-> Stored]
          ELSE NoSave]
    /\ UNCHANGED <<schemaVars, boot, sectionRow, rowLock, snap, reading, client, saves, crashes>>

\* SELECT ... FOR UPDATE: waits for the row, locks it if there is one, and
\* answers a conflict when the version is not the one the save names.
ReadRow(r) ==
    LET fits == save[r].expects \in {AnyVersion, Stored.version} IN
    /\ save[r].at = "asked"
    /\ rowLock = Unset
    /\ save' = [save EXCEPT ![r] =
          IF fits THEN [at |-> "read", value |-> @.value, secret |-> @.secret,
                        expects |-> @.expects, current |-> Stored]
          ELSE NoSave]
    /\ rowLock' = IF fits /\ sectionRow # Unset THEN r ELSE rowLock
    /\ UNCHANGED <<schemaVars, boot, sectionRow, snap, reading, client, saves, crashes>>

\* What is written: an empty secret keeps the stored one.
Merged(r) ==
    [value |-> save[r].value,
     secret |-> IF save[r].secret = Blank THEN save[r].current.secret ELSE save[r].secret,
     version |-> save[r].current.version + 1]

\* INSERT ... ON CONFLICT DO UPDATE and the commit, which frees the row.
CommitSave(r) ==
    /\ save[r].at = "read"
    /\ rowLock \in {Unset, r}
    /\ sectionRow' = Merged(r)
    /\ save' = [save EXCEPT ![r] = [at |-> "committed", wrote |-> Merged(r)]]
    /\ rowLock' = Unset
    /\ UNCHANGED <<schemaVars, boot, snap, reading, client, saves, crashes>>

\* Only after the transaction has ended is the snapshot replaced.
Publish(r) ==
    /\ save[r].at = "committed"
    /\ snap' = [snap EXCEPT ![r] = save[r].wrote]
    /\ save' = [save EXCEPT ![r] = NoSave]
    /\ UNCHANGED <<schemaVars, boot, sectionRow, rowLock, reading, client, saves, crashes>>

-----------------------------------------------------------------------------
(* The client made from the section.                                        *)

\* The section makes a client when both its address and its secret are set.
Configured(section) == section.value # Default /\ section.secret # Blank

Built(section) ==
    IF Configured(section) THEN [value |-> section.value, secret |-> section.secret]
    ELSE Unset

\* Whoever needs the client asks the handle, which replaces it when the
\* version of the snapshot is not the one it was built for.
Current(r) ==
    /\ boot[r] = "up"
    /\ snap[r].version # client[r].version
    /\ client' = [client EXCEPT ![r] = [version |-> snap[r].version, of |-> Built(snap[r])]]
    /\ UNCHANGED <<schemaVars, boot, sectionRow, rowLock, snap, save, reading, saves, crashes>>

-----------------------------------------------------------------------------
\* A process dies: its transaction is rolled back, its locks are released,
\* and its snapshot and its client are gone.
Dies(r) ==
    /\ boot[r] \in {"migrating", "up"}
    /\ crashes < MaxCrashes
    /\ crashes' = crashes + 1
    /\ boot' = [boot EXCEPT ![r] = "down"]
    /\ migrator' = IF migrator = r THEN Unset ELSE migrator
    /\ rowLock' = IF rowLock = r THEN Unset ELSE rowLock
    /\ snap' = [snap EXCEPT ![r] = Unsaved]
    /\ save' = [save EXCEPT ![r] = NoSave]
    /\ reading' = [reading EXCEPT ![r] = NoRead]
    /\ client' = [client EXCEPT ![r] = NoClient]
    /\ UNCHANGED <<applied, sectionRow, saves>>

Open(r) == BeginMigration(r) \/ CommitMigration(r)
Saving(r) == ReadRow(r) \/ CommitSave(r) \/ Publish(r)
Refreshing(r) == RefreshRead(r) \/ RefreshApply(r)

ConfigNext ==
    \E r \in Replicas :
        \/ Open(r)
        \/ Refreshing(r)
        \/ Save(r)
        \/ Saving(r)
        \/ Current(r)
        \/ Dies(r)

ConfigSpec == ConfigInit /\ [][ConfigNext]_configVars

-----------------------------------------------------------------------------
(* Properties.                                                              *)

\* Processes that start together, of different releases and dying half-way,
\* leave every migration recorded once and in order, and no process serves
\* on a schema older than its own (db.Database._migrate).
MigratedOnce ==
    /\ \A i \in 1 .. Len(applied) : applied[i] = i
    /\ \A r \in Replicas : boot[r] = "up" => Len(applied) >= Release[r]

\* A save writes over the very row it was checked against: the version it
\* names is the one it replaces, nothing another replica saved in between is
\* undone, and a secret left empty keeps what is stored at that moment, not
\* what this process last saw (ConfigStore.update).
SavesOverTheStored ==
    [][\A r \in Replicas : save[r].at = "read" /\ save'[r].at = "committed" =>
          /\ sectionRow'.version = Stored.version + 1
          /\ save[r].expects \in {AnyVersion, Stored.version}
          /\ save[r].secret = Blank => sectionRow'.secret = Stored.secret]_configVars

\* What the store promises processes that start, save and die beside each other.
StoreHolds == SavesOverTheStored /\ []MigratedOnce

=============================================================================
