------------------------------- MODULE Backups -------------------------------
(***************************************************************************)
(* The database file, its backups and its key: create_backup() and         *)
(* restore_backup() (core/storage/backup.py), rekey_database() (rekey.py), *)
(* and ensure_secret() and initialise_db() at a start.  A write the server *)
(* has committed is in the write-ahead log until a checkpoint brings it    *)
(* into the main file; the server, a restore and a rekey may be cut off at *)
(* any step.  A database is the set of the writes it holds, with the key   *)
(* each encrypted column is in.                                            *)
(***************************************************************************)
EXTENDS Integers, FiniteSets

CONSTANTS
    BakKeys,       \* the keys the administrator has
    NoOldKey,      \* BEETSTREAMNEXT_OLD_KEY is not set
    Columns,       \* ENCRYPTED_COLUMNS
    Schemas,       \* schema versions of the archive there is
    NoFile,
    BakWritesMax,  \* bound: writes in a behaviour
    BakCopiesMax   \* bound: archives, and copies kept

VARIABLES
    mainFile,      \* the database at db_path, or NoFile
    walFile,       \* what it holds with its log, or NoFile when there is none
    serving,
    archives, kept,
    bakKey,        \* BEETSTREAMNEXT_KEY
    restore,       \* the restore under way
    settled        \* writes a checkpoint brought into the main file

bakVars == <<mainFile, walFile, serving, archives, kept, bakKey, restore, settled>>

ASSUME BakAssumption ==
    /\ NoFile \notin BakKeys /\ NoOldKey \notin BakKeys /\ BakKeys # {}
    /\ Schemas \subseteq Nat /\ BakWritesMax \in Nat /\ BakCopiesMax \in Nat

(* What a database file may hold.                                           *)
Database == [writes : SUBSET Nat, hash : BakKeys, secrets : [Columns -> BakKeys], schema : Nat]

ASSUME NoFileIsNone == NoFile \notin Database

NoRestore == [pc |-> "idle"]

Encrypted(writes, key, schema) ==
    [writes |-> writes, hash |-> key, secrets |-> [c \in Columns |-> key], schema |-> schema]

Current == IF walFile # NoFile THEN walFile ELSE mainFile
Newest  == UNION {d.writes : d \in ({mainFile, walFile} \ {NoFile}) \cup archives \cup kept}

BakInit ==
    /\ bakKey \in BakKeys
    /\ mainFile = Encrypted({}, bakKey, 1) /\ walFile = NoFile /\ serving = FALSE
    /\ \E k \in BakKeys, v \in Schemas : archives = {Encrypted({0}, k, v)}
    /\ kept = {} /\ restore = NoRestore /\ settled = {}

-----------------------------------------------------------------------------
Write ==
    /\ serving
    /\ LET w == Cardinality(Newest) IN
       /\ w <= BakWritesMax
       /\ walFile' = [Current EXCEPT !.writes = @ \cup {w}]
    /\ UNCHANGED <<mainFile, serving, archives, kept, bakKey, restore, settled>>

(* The last connection closes, at the end of a request or of the process.   *)
Checkpoint ==
    /\ walFile # NoFile /\ serving
    /\ mainFile' = walFile /\ walFile' = NoFile /\ settled' = settled \cup walFile.writes
    /\ UNCHANGED <<serving, archives, kept, bakKey, restore>>

(* The server ends: by itself once the log is in the main file, or killed.  *)
EndServer ==
    /\ serving /\ serving' = FALSE
    /\ UNCHANGED <<mainFile, walFile, archives, kept, bakKey, restore, settled>>

(* ensure_secret() and initialise_db().  Without a file this is the first   *)
(* run, and a log left beside it is discarded by SQLite; with another key   *)
(* the start is refused.                                                    *)
StartServer ==
    /\ ~serving /\ restore = NoRestore
    /\ IF mainFile = NoFile
       THEN mainFile' = Encrypted({}, bakKey, 1) /\ walFile' = NoFile
       ELSE Current.hash = bakKey /\ UNCHANGED <<mainFile, walFile>>
    /\ serving' = TRUE
    /\ UNCHANGED <<archives, kept, bakKey, restore, settled>>

SetKey(key) ==
    /\ ~serving /\ restore = NoRestore /\ key # bakKey
    /\ bakKey' = key
    /\ UNCHANGED <<mainFile, walFile, serving, archives, kept, restore, settled>>

Reencrypted(db, key) == [db EXCEPT !.secrets = [c \in Columns |-> key], !.hash = key]

(* Mutant of Snapshot: the main file is copied.                             *)
SnapshotMain(db) == mainFile

(* The online backup of SQLite: what is committed, the log included.        *)
Snapshot(db) == db

(* create_backup(), at any moment.                                          *)
Backup ==
    /\ mainFile # NoFile /\ Cardinality(archives) < BakCopiesMax
    /\ archives' = archives \cup {Snapshot(Current)}
    /\ UNCHANGED <<mainFile, walFile, serving, kept, bakKey, restore, settled>>

(* rekey_database(): a copy first, then one transaction, which a crash      *)
(* undoes.                                                                  *)
Rekey(old) ==
    /\ ~serving /\ restore = NoRestore /\ mainFile # NoFile
    /\ old \in BakKeys \ {bakKey} /\ Current.hash = old
    /\ \A c \in Columns : Current.secrets[c] = old
    /\ Cardinality(kept) < BakCopiesMax
    /\ kept' = kept \cup {Snapshot(Current)}
    /\ \/ mainFile' = Reencrypted(Current, bakKey) /\ walFile' = NoFile
          /\ settled' = settled \cup Current.writes
       \/ UNCHANGED <<mainFile, walFile, settled>>
    /\ UNCHANGED <<serving, archives, bakKey, restore>>

-----------------------------------------------------------------------------
(* restore_backup() up to the first change of the database: a backup with   *)
(* another key needs that key, and one that is newer is refused.            *)
Extract(a, old) ==
    /\ ~serving /\ restore = NoRestore
    /\ a.hash = bakKey \/ a.hash = old
    /\ Cardinality(kept) < BakCopiesMax
    /\ mainFile # NoFile => a.schema <= mainFile.schema
    /\ restore' = [pc |-> "move", db |-> IF a.hash = bakKey THEN a ELSE Reencrypted(a, bakKey)]
    /\ UNCHANGED <<mainFile, walFile, serving, archives, kept, bakKey, settled>>

Aside(db) == IF db = NoFile THEN {} ELSE {db}

MoveAside ==
    /\ restore.pc = "move"
    /\ kept' = kept \cup Aside(mainFile) /\ mainFile' = NoFile
    /\ restore' = [restore EXCEPT !.pc = "log"]
    /\ UNCHANGED <<walFile, serving, archives, bakKey, settled>>

DropLog ==
    /\ restore.pc = "log"
    /\ walFile' = NoFile
    /\ restore' = [restore EXCEPT !.pc = "put"]
    /\ UNCHANGED <<mainFile, serving, archives, kept, bakKey, settled>>

PutInPlace ==
    /\ restore.pc = "put"
    /\ mainFile' = restore.db /\ restore' = NoRestore
    /\ UNCHANGED <<walFile, serving, archives, kept, bakKey, settled>>

CutOff ==
    /\ restore # NoRestore /\ restore' = NoRestore
    /\ UNCHANGED <<mainFile, walFile, serving, archives, kept, bakKey, settled>>

BakNext ==
    \/ Write \/ Checkpoint \/ EndServer \/ StartServer \/ Backup
    \/ \E k \in BakKeys : SetKey(k) \/ Rekey(k)
    \/ \E a \in archives, old \in BakKeys \cup {NoOldKey} : Extract(a, old)
    \/ MoveAside \/ DropLog \/ PutInPlace \/ CutOff

BakSpec == BakInit /\ [][BakNext]_bakVars

-----------------------------------------------------------------------------
(* Whatever is begun, cut off and begun again, each write that a checkpoint *)
(* settled is in the database or in a copy kept beside it.                  *)
SettledKept == settled \subseteq UNION {d.writes : d \in ({mainFile} \ {NoFile}) \cup kept}

(* Every secret of the database, its copies and its archives can be read    *)
(* with the key whose hash the file bears.                                  *)
Readable ==
    \A d \in ({mainFile, walFile} \ {NoFile}) \cup archives \cup kept :
        \A c \in Columns : d.secrets[c] = d.hash

(* A backup taken while the server writes, and the copy before a rekey,     *)
(* hold every write that was committed, in the log or not.                  *)
SnapshotsWhole ==
    [][(archives' # archives \/ (kept' # kept /\ restore = NoRestore)) =>
          Current \in archives' \cup kept']_bakVars

(* What backups promise: all of them hold.                                  *)
BackupsHold == []SettledKept /\ []Readable /\ SnapshotsWhole
=============================================================================
