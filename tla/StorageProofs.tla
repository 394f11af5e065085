---------------------------- MODULE StorageProofs ----------------------------
(***************************************************************************)
(* What is kept on disk: database, its backups, keys and versions,         *)
(* settings, notifications and play queues. The components share no state; *)
(* each has its invariant and its theorem.                                 *)
(***************************************************************************)
EXTENDS Backups, Settings, Migrations, Notifications, PlayQueue, SubsequencesProofs

-----------------------------------------------------------------------------
(***************************************************************************)
(* No write that was settled is lost, and every file can be read with the  *)
(* key it names, for any keys, columns, archives and writes, wherever the   *)
(* server, a restore or a rekey is cut off.  What makes it inductive: a log *)
(* holds all that the main file beside it holds, a restore that has moved   *)
(* the database aside has left nothing in its place, and no server runs     *)
(* without a database or during a restore.                                  *)
(***************************************************************************)

Readables == {d \in Database : \A c \in Columns : d.secrets[c] = d.hash}

Restoring == [pc : {"move", "log", "put"}, db : Readables]

BakTypes ==
    /\ mainFile \in Readables \cup {NoFile} /\ walFile \in Readables \cup {NoFile}
    /\ archives \subseteq Readables /\ kept \subseteq Readables
    /\ serving \in BOOLEAN /\ bakKey \in BakKeys
    /\ restore \in Restoring \cup {NoRestore}
    /\ IsFiniteSet(Newest)

LogIsNewer == mainFile # NoFile /\ walFile # NoFile => mainFile.writes \subseteq walFile.writes

RestoreApart ==
    /\ restore # NoRestore => ~serving /\ \E a \in archives : restore.db.writes = a.writes
    /\ restore # NoRestore /\ restore.pc # "move" => mainFile = NoFile
    /\ restore # NoRestore /\ restore.pc = "put" => walFile = NoFile

BakIInv == BakTypes /\ LogIsNewer /\ RestoreApart /\ (serving => mainFile # NoFile) /\ SettledKept

-----------------------------------------------------------------------------
(* A file is a file, and a restore under way is one.                        *)
LEMMA FilesAreFiles ==
    /\ NoFile \notin Readables
    /\ \A d \in Readables : d \in Database
    /\ NoRestore \notin Restoring
BY NoFileIsNone DEF Readables, Restoring, NoRestore

LEMMA EncryptedIsReadable ==
    ASSUME NEW writes \in SUBSET Nat, NEW key \in BakKeys, NEW v \in Nat
    PROVE  Encrypted(writes, key, v) \in Readables /\ Encrypted(writes, key, v).writes = writes
BY DEF Encrypted, Readables, Database

LEMMA ReencryptedIsReadable ==
    ASSUME NEW d \in Readables, NEW key \in BakKeys
    PROVE  Reencrypted(d, key) \in Readables /\ Reencrypted(d, key).writes = d.writes
BY DEF Reencrypted, Readables, Database

LEMMA WrittenIsReadable ==
    ASSUME NEW d \in Readables, NEW w \in Nat
    PROVE  /\ [d EXCEPT !.writes = @ \cup {w}] \in Readables
           /\ [d EXCEPT !.writes = @ \cup {w}].writes = d.writes \cup {w}
BY DEF Readables, Database

(* The writes of each file are among those there are.                       *)
LEMMA NewestHolds ==
    /\ \A d \in archives \cup kept : d.writes \subseteq Newest
    /\ mainFile # NoFile => mainFile.writes \subseteq Newest
    /\ walFile # NoFile => walFile.writes \subseteq Newest
BY DEF Newest

(* Files hold at most the writes that were there, and one more.             *)
LEMMA NewestStaysFinite ==
    ASSUME IsFiniteSet(Newest), NEW w,
           \A d \in archives' \cup kept' : d.writes \subseteq Newest \cup {w},
           mainFile' # NoFile => mainFile'.writes \subseteq Newest \cup {w},
           walFile' # NoFile => walFile'.writes \subseteq Newest \cup {w}
    PROVE  IsFiniteSet(Newest')
<1>1. IsFiniteSet(Newest \cup {w})
  BY FS_AddElement
<1>2. Newest' \in SUBSET (Newest \cup {w})
  BY DEF Newest
<1> QED BY <1>1, <1>2, FS_Subset

LEMMA CurrentIsReadable ==
    ASSUME BakTypes, mainFile # NoFile
    PROVE  Current \in Readables
BY DEF BakTypes, Current

-----------------------------------------------------------------------------
LEMMA BakStart == BakInit => BakIInv
<1> SUFFICES ASSUME BakInit PROVE BakIInv
  OBVIOUS
<1>1. PICK k \in BakKeys, v \in Schemas : archives = {Encrypted({0}, k, v)}
  BY DEF BakInit
<1>2. /\ mainFile = Encrypted({}, bakKey, 1) /\ bakKey \in BakKeys
      /\ walFile = NoFile /\ kept = {} /\ restore = NoRestore /\ settled = {} /\ serving = FALSE
  BY DEF BakInit
<1>3. /\ mainFile \in Readables /\ mainFile.writes = {}
      /\ Encrypted({0}, k, v) \in Readables /\ Encrypted({0}, k, v).writes = {0}
  BY <1>2, EncryptedIsReadable, BakAssumption
<1>4. IsFiniteSet(Newest)
  <2>1. Newest \in SUBSET {0}
    BY <1>1, <1>2, <1>3 DEF Newest
  <2> QED BY <2>1, FS_Singleton, FS_Subset
<1>5. BakTypes
  BY <1>1, <1>2, <1>3, <1>4 DEF BakTypes
<1> QED BY <1>2, <1>5 DEF BakIInv, LogIsNewer, RestoreApart, SettledKept

LEMMA WriteKeeps == ASSUME BakIInv, Write PROVE BakIInv'
<1> DEFINE w == Cardinality(Newest)
<1> USE DEF BakIInv
<1>1. w \in Nat
  BY FS_CardinalityType DEF BakTypes
<1>2. /\ serving /\ walFile' = [Current EXCEPT !.writes = @ \cup {w}]
      /\ UNCHANGED <<mainFile, serving, archives, kept, bakKey, restore, settled>>
  BY DEF Write
<1> HIDE DEF w
<1>3. Current \in Readables
  BY <1>2, CurrentIsReadable
<1>4. walFile' \in Readables /\ walFile'.writes = Current.writes \cup {w}
  BY <1>1, <1>2, <1>3, WrittenIsReadable
<1>5. Current.writes \subseteq Newest /\ mainFile.writes \subseteq Current.writes
  BY <1>2, NewestHolds DEF Current, LogIsNewer
<1>6. IsFiniteSet(Newest')
  BY <1>2, <1>4, <1>5, NewestHolds, NewestStaysFinite DEF BakTypes
<1>7. BakTypes'
  BY <1>2, <1>4, <1>6 DEF BakTypes
<1>8. LogIsNewer'
  BY <1>2, <1>4, <1>5 DEF LogIsNewer
<1>9. restore = NoRestore
  BY <1>2 DEF RestoreApart
<1> QED BY <1>2, <1>7, <1>8, <1>9 DEF RestoreApart, SettledKept

LEMMA CheckpointKeeps == ASSUME BakIInv, Checkpoint PROVE BakIInv'
<1> USE DEF BakIInv
<1>1. /\ walFile # NoFile /\ serving
      /\ mainFile' = walFile /\ walFile' = NoFile /\ settled' = settled \cup walFile.writes
      /\ UNCHANGED <<serving, archives, kept, bakKey, restore>>
  BY DEF Checkpoint
<1>2. restore = NoRestore /\ mainFile # NoFile
  BY <1>1 DEF RestoreApart
<1>3. IsFiniteSet(Newest')
  BY <1>1, NewestHolds, NewestStaysFinite DEF BakTypes
<1>4. BakTypes'
  BY <1>1, <1>3 DEF BakTypes
<1>5. SettledKept'
  BY <1>1, <1>2 DEF SettledKept, LogIsNewer
<1> QED BY <1>1, <1>2, <1>4, <1>5 DEF LogIsNewer, RestoreApart

LEMMA StartServerKeeps == ASSUME BakIInv, StartServer PROVE BakIInv'
<1> USE DEF BakIInv
<1>1. /\ restore = NoRestore /\ serving' = TRUE
      /\ UNCHANGED <<archives, kept, bakKey, restore, settled>>
  BY DEF StartServer
<1>2. CASE mainFile = NoFile
  <2>1. mainFile' = Encrypted({}, bakKey, 1) /\ walFile' = NoFile
    BY <1>2 DEF StartServer
  <2>2. mainFile' \in Readables /\ mainFile'.writes = {}
    BY <2>1, EncryptedIsReadable DEF BakTypes
  <2>3. IsFiniteSet(Newest')
    BY <1>1, <2>1, <2>2, NewestHolds, NewestStaysFinite DEF BakTypes
  <2>4. BakTypes'
    BY <1>1, <2>1, <2>2, <2>3 DEF BakTypes
  <2>5. SettledKept'
    BY <1>1, <1>2 DEF SettledKept
  <2> QED BY <1>1, <2>1, <2>2, <2>4, <2>5, FilesAreFiles DEF LogIsNewer, RestoreApart
<1>3. CASE mainFile # NoFile
  <2>1. UNCHANGED <<mainFile, walFile>>
    BY <1>3 DEF StartServer
  <2> QED BY <1>1, <1>3, <2>1 DEF BakTypes, LogIsNewer, RestoreApart, SettledKept, Newest
<1> QED BY <1>2, <1>3

(* Steps that touch no file.                                                *)
LEMMA FilesStay ==
    ASSUME BakIInv, UNCHANGED <<mainFile, walFile, archives, kept, settled>>,
           bakKey' \in BakKeys, serving' \in BOOLEAN, serving' => serving,
           restore' \in {NoRestore, restore}
    PROVE  BakIInv'
BY DEF BakIInv, BakTypes, LogIsNewer, RestoreApart, SettledKept, Newest

LEMMA BackupKeeps == ASSUME BakIInv, Backup PROVE BakIInv'
<1> USE DEF BakIInv
<1>1. /\ mainFile # NoFile /\ archives' = archives \cup {Current}
      /\ UNCHANGED <<mainFile, walFile, serving, kept, bakKey, restore, settled>>
  BY DEF Backup, Snapshot
<1>2. Current \in Readables /\ Current.writes \subseteq Newest
  BY <1>1, CurrentIsReadable, NewestHolds DEF Current
<1>3. IsFiniteSet(Newest') /\ Newest \subseteq Newest'
  <2>1. IsFiniteSet(Newest')
    BY <1>1, <1>2, NewestHolds, NewestStaysFinite DEF BakTypes
  <2> QED BY <1>1, <2>1 DEF Newest
<1>4. BakTypes'
  BY <1>1, <1>2, <1>3 DEF BakTypes
<1> QED BY <1>1, <1>3, <1>4 DEF LogIsNewer, RestoreApart, SettledKept

LEMMA RekeyKeeps == ASSUME BakIInv, NEW old \in BakKeys, Rekey(old) PROVE BakIInv'
<1> USE DEF BakIInv
<1>1. /\ mainFile # NoFile /\ restore = NoRestore /\ kept' = kept \cup {Current}
      /\ UNCHANGED <<serving, archives, bakKey, restore>>
  BY DEF Rekey, Snapshot
<1>2. Current \in Readables /\ Current.writes \subseteq Newest /\ mainFile.writes \subseteq Current.writes
  BY <1>1, CurrentIsReadable, NewestHolds DEF Current, LogIsNewer
<1>3. CASE UNCHANGED <<mainFile, walFile, settled>>
  <2>1. IsFiniteSet(Newest')
    BY <1>1, <1>2, <1>3, NewestHolds, NewestStaysFinite DEF BakTypes
  <2>2. BakTypes'
    BY <1>1, <1>2, <1>3, <2>1 DEF BakTypes
  <2> QED BY <1>1, <1>3, <2>2 DEF LogIsNewer, RestoreApart, SettledKept
<1>4. CASE /\ mainFile' = Reencrypted(Current, bakKey) /\ walFile' = NoFile
           /\ settled' = settled \cup Current.writes
  <2>1. mainFile' \in Readables /\ mainFile'.writes = Current.writes
    BY <1>2, <1>4, ReencryptedIsReadable DEF BakTypes
  <2>2. IsFiniteSet(Newest')
    BY <1>1, <1>2, <1>4, <2>1, NewestHolds, NewestStaysFinite DEF BakTypes
  <2>3. BakTypes'
    BY <1>1, <1>2, <1>4, <2>1, <2>2 DEF BakTypes
  <2>4. SettledKept'
    <3>1. kept \cup {mainFile'} \subseteq (({mainFile} \ {NoFile}) \cup kept)'
      BY <1>1, <2>1, FilesAreFiles
    <3>2. settled \subseteq mainFile.writes \cup UNION {d.writes : d \in kept}
      BY DEF SettledKept
    <3> QED BY <1>2, <1>4, <2>1, <3>1, <3>2 DEF SettledKept
  <2> QED BY <1>1, <1>4, <2>1, <2>3, <2>4, FilesAreFiles DEF LogIsNewer, RestoreApart
<1> QED BY <1>3, <1>4 DEF Rekey

-----------------------------------------------------------------------------
(* The steps of a restore.                                                  *)
LEMMA ExtractKeeps ==
    ASSUME BakIInv, NEW a \in archives, NEW old, Extract(a, old)
    PROVE  BakIInv'
<1> USE DEF BakIInv
<1>1. /\ ~serving
      /\ restore' = [pc |-> "move", db |-> IF a.hash = bakKey THEN a ELSE Reencrypted(a, bakKey)]
      /\ UNCHANGED <<mainFile, walFile, serving, archives, kept, bakKey, settled>>
  BY DEF Extract
<1>2. a \in Readables /\ bakKey \in BakKeys
  BY DEF BakTypes
<1>3. restore' \in Restoring /\ restore'.pc = "move" /\ restore'.db.writes = a.writes
  BY <1>1, <1>2, ReencryptedIsReadable DEF Restoring
<1>4. Newest' = Newest
  BY <1>1 DEF Newest
<1> QED BY <1>1, <1>3, <1>4 DEF BakTypes, LogIsNewer, RestoreApart, SettledKept

LEMMA MoveAsideKeeps == ASSUME BakIInv, MoveAside PROVE BakIInv'
<1> USE DEF BakIInv
<1>1. /\ restore \in Restoring /\ restore # NoRestore
      /\ kept' = kept \cup Aside(mainFile) /\ mainFile' = NoFile
      /\ restore' = [restore EXCEPT !.pc = "log"]
      /\ UNCHANGED <<walFile, serving, archives, bakKey, settled>>
  BY DEF MoveAside, BakTypes, NoRestore
<1>2. restore' \in Restoring /\ restore'.pc = "log" /\ restore'.db = restore.db
  BY <1>1 DEF Restoring
<1>3. kept' = kept \cup ({mainFile} \ {NoFile})
  BY <1>1 DEF Aside
<1>4. Newest' = Newest
  BY <1>1, <1>3 DEF Newest
<1>5. BakTypes'
  BY <1>1, <1>2, <1>3, <1>4 DEF BakTypes
<1>6. SettledKept'
  BY <1>1, <1>3 DEF SettledKept
<1> QED BY <1>1, <1>2, <1>4, <1>5, <1>6 DEF LogIsNewer, RestoreApart

(* The log that goes holds nothing settled: that is in the copy kept.       *)
LEMMA DropLogKeeps == ASSUME BakIInv, DropLog PROVE BakIInv'
<1> USE DEF BakIInv
<1>1. /\ restore \in Restoring /\ restore # NoRestore /\ mainFile = NoFile
      /\ walFile' = NoFile /\ restore' = [restore EXCEPT !.pc = "put"]
      /\ UNCHANGED <<mainFile, serving, archives, kept, bakKey, settled>>
  BY DEF DropLog, BakTypes, RestoreApart, NoRestore
<1>2. restore' \in Restoring /\ restore'.pc = "put" /\ restore'.db = restore.db
  BY <1>1 DEF Restoring
<1>3. IsFiniteSet(Newest')
  BY <1>1, NewestHolds, NewestStaysFinite DEF BakTypes
<1>4. BakTypes'
  BY <1>1, <1>2, <1>3 DEF BakTypes
<1> QED BY <1>1, <1>2, <1>4 DEF LogIsNewer, RestoreApart, SettledKept

LEMMA PutInPlaceKeeps == ASSUME BakIInv, PutInPlace PROVE BakIInv'
<1> USE DEF BakIInv
<1>1. /\ restore \in Restoring /\ restore # NoRestore /\ mainFile = NoFile /\ walFile = NoFile
      /\ ~serving /\ mainFile' = restore.db /\ restore' = NoRestore
      /\ UNCHANGED <<walFile, serving, archives, kept, bakKey, settled>>
  BY DEF PutInPlace, BakTypes, RestoreApart, NoRestore
<1>2. mainFile' \in Readables /\ mainFile'.writes \subseteq Newest
  BY <1>1, NewestHolds DEF Restoring, RestoreApart
<1>3. IsFiniteSet(Newest')
  BY <1>1, <1>2, NewestHolds, NewestStaysFinite DEF BakTypes
<1>4. BakTypes'
  BY <1>1, <1>2, <1>3 DEF BakTypes
<1> QED BY <1>1, <1>4 DEF LogIsNewer, RestoreApart, SettledKept

LEMMA BakStep == BakIInv /\ [BakNext]_bakVars => BakIInv'
<1> SUFFICES ASSUME BakIInv, [BakNext]_bakVars PROVE BakIInv'
  OBVIOUS
<1>1. CASE EndServer \/ CutOff \/ \E k \in BakKeys : SetKey(k)
  <2>1. bakKey \in BakKeys /\ serving \in BOOLEAN
    BY DEF BakIInv, BakTypes
  <2>2. CASE EndServer
    BY <2>1, <2>2, FilesStay DEF EndServer
  <2>3. CASE CutOff
    BY <2>1, <2>3, FilesStay DEF CutOff
  <2>4. ASSUME NEW k \in BakKeys, SetKey(k) PROVE BakIInv'
    BY <2>1, <2>4, FilesStay DEF SetKey
  <2> QED BY <1>1, <2>2, <2>3, <2>4
<1>2. ASSUME NEW k \in BakKeys, Rekey(k) PROVE BakIInv'
  BY <1>2, RekeyKeeps
<1>3. ASSUME NEW a \in archives, NEW old \in BakKeys \cup {NoOldKey}, Extract(a, old) PROVE BakIInv'
  BY <1>3, ExtractKeeps
<1>4. CASE UNCHANGED bakVars
  <2>1. /\ UNCHANGED <<mainFile, walFile, archives, kept, settled>>
        /\ bakKey' \in BakKeys /\ serving' \in BOOLEAN /\ (serving' => serving)
        /\ restore' \in {NoRestore, restore}
    BY <1>4 DEF bakVars, BakIInv, BakTypes
  <2> QED BY <2>1, FilesStay
<1> QED BY <1>1, <1>2, <1>3, <1>4, WriteKeeps, CheckpointKeeps, StartServerKeeps, BackupKeeps,
           MoveAsideKeeps, DropLogKeeps, PutInPlaceKeeps DEF BakNext

-----------------------------------------------------------------------------
(* Only create_backup() and rekey_database() make copies of what is there:  *)
(* both copy the main file together with its log.                           *)
LEMMA CopiesAreWhole ==
    ASSUME BakIInv, [BakNext]_bakVars,
           archives' # archives \/ (kept' # kept /\ restore = NoRestore)
    PROVE  Current \in archives' \cup kept'
<1>1. CASE Backup
  BY <1>1 DEF Backup, Snapshot
<1>2. ASSUME NEW k \in BakKeys, Rekey(k) PROVE Current \in kept'
  BY <1>2 DEF Rekey, Snapshot
<1>3. CASE Write \/ Checkpoint \/ EndServer \/ StartServer \/ (\E k \in BakKeys : SetKey(k))
           \/ (\E a \in archives, old \in BakKeys \cup {NoOldKey} : Extract(a, old))
           \/ DropLog \/ PutInPlace \/ CutOff \/ UNCHANGED bakVars
  <2>1. UNCHANGED <<archives, kept>>
    BY <1>3 DEF Write, Checkpoint, EndServer, StartServer, SetKey, Extract, DropLog, PutInPlace,
                CutOff, bakVars
  <2> QED BY <2>1
<1>4. CASE MoveAside
  BY <1>4 DEF MoveAside, NoRestore
<1> QED BY <1>1, <1>2, <1>3, <1>4 DEF BakNext

(* Backups, restores and changes of the key, cut off at any step and begun  *)
(* again: settled writes are in the database or in a copy beside it, every  *)
(* secret can be read with the key its file names, copies hold the log.     *)
THEOREM BackupsAreSound == BakSpec => BackupsHold
<1>1. BakIInv => SettledKept
  BY DEF BakIInv
<1>2. BakIInv => Readable
  BY DEF BakIInv, BakTypes, Readables, Readable
<1>3. BakIInv /\ [BakNext]_bakVars =>
        [(archives' # archives \/ (kept' # kept /\ restore = NoRestore)) =>
            Current \in archives' \cup kept']_bakVars
  BY CopiesAreWhole
<1> QED BY BakStart, BakStep, <1>1, <1>2, <1>3, PTL DEF BakSpec, BackupsHold, SnapshotsWhole

-----------------------------------------------------------------------------
(***************************************************************************)
(* The upgrade of the database through its versions. The invariant follows *)
(* each row through the versions the database passes, with the steps of    *)
(* the migration under way applied or rolled back; counts of plays are     *)
(* compared by a bijection between the plays of the old ids and those of   *)
(* the new.                                                                *)
(***************************************************************************)

SomeDatabase ==
    [version : 0..Latest, keyHash : {OldKey}, shape : [1..Latest -> Nat], shared : BOOLEAN,
     stations : [Accounts -> Nat], column : BOOLEAN, keys : SUBSET Accounts,
     apps : SUBSET Accounts, hashed : SUBSET Accounts, plays : [OldSongs \cup StableIds -> Nat],
     likes : SUBSET (OldSongs \cup OldAlbums \cup StableIds)]

(* Where the rows of an old song or album are to be found.                  *)
To(ids, o) == IF ids[o] = NoLonger THEN o ELSE ids[o]

(* The rows of the songs as they were, then, in the same transaction as the *)
(* version, as they are to be; and those of the albums.                     *)
Follow(db, r) ==
    /\ db.version < 3 => (\A o \in OldSongs : db.plays[o] = 1) /\ OldSongs \subseteq db.likes
    /\ db.version < 5 => OldAlbums \subseteq db.likes
    /\ db.version >= 3 =>
          /\ \A i \in StableIds : db.plays[i] = Cardinality({o \in OldSongs : r.ids[o] = i})
          /\ \A o \in OldSongs : To(r.ids, o) \in db.likes
    /\ db.version >= 5 => \A o \in OldAlbums : To(r.ids, o) \in db.likes

(* The tables of the migrations up to n are as those leave them.  The table *)
(* of chat messages is looked at anew at every start.                       *)
ShapedTo(db, n) == \A k \in 1..Latest : k # 4 /\ k <= n => db.shape[k] = Parts(k)

DatabaseOK(db, r) ==
    /\ db \in SomeDatabase
    /\ Keyed \subseteq db.keys \cup db.apps
    /\ \A u \in Accounts : db.stations[u] = IF db.shared THEN 0 ELSE 1
    /\ ShapedTo(db, db.version)
    /\ r.oldest <= db.version
    /\ r.oldest < 3 => Follow(db, r)

(* Where a start is: its version is not behind the connection's, and its    *)
(* migrations up to there are done.                                         *)
ProgressOK(db, c, pc) ==
    /\ c \in 0..Latest /\ db.version <= c /\ ShapedTo(db, c)
    /\ c >= 3 => db.version >= 3
    /\ c >= 5 => db.version >= 5
    /\ pc \in 1..Finishing => c >= pc - 1

MigRun == [key : {OldKey, OtherKey}, beets : BOOLEAN,
           ids : [OldSongs \cup OldAlbums -> StableIds \cup {NoLonger}], oldest : 0..Latest]

MigIInv ==
    /\ migPc \in 0..Up /\ run \in MigRun
    /\ DatabaseOK(disk, run) /\ DatabaseOK(mem, run)
    /\ migPc # Off => ProgressOK(mem, curr, migPc)
    /\ migPc = Up => mem = disk

-----------------------------------------------------------------------------
LEMMA PartsAre == \A n \in 1..Latest : Parts(n) \in Nat \ {0}
BY DEF Parts

LEMMA MigStarts == MigInit => MigIInv
<1> SUFFICES ASSUME MigInit PROVE MigIInv OBVIOUS
<1>1. PICK v \in OldVersions, chat \in 0..1, liked \in SUBSET StableIds : disk = OfVersion(v, chat, liked)
  BY DEF MigInit
<1>2. v \in 0..Latest BY MigAssumption
<1>3. run \in MigRun /\ run.oldest = v
  <2>1. PICK ids \in [OldSongs \cup OldAlbums -> StableIds \cup {NoLonger}] :
          run = [key |-> OldKey, beets |-> FALSE, ids |-> ids, oldest |-> disk.version]
    BY DEF MigInit
  <2>2. disk.version = v BY <1>1 DEF OfVersion
  <2>3. QED BY <1>2, <2>1, <2>2 DEF MigRun
<1> DEFINE db == OfVersion(v, chat, liked)
<1>4. /\ db.version = v /\ db.keyHash = OldKey /\ db.shared = (v < 6)
      /\ db.shape = [n \in 1..Latest |-> IF n = 4 /\ v >= 4 THEN chat ELSE IF n <= v THEN Parts(n) ELSE 0]
      /\ db.stations = [u \in Accounts |-> IF v < 6 THEN 0 ELSE 1] /\ db.column = (v < 8)
      /\ db.keys = IF v < 7 THEN Keyed ELSE {}
      /\ db.apps = IF v < 7 THEN {} ELSE Keyed
      /\ db.hashed = IF v < 8 THEN {} ELSE Accounts
      /\ db.plays = [i \in OldSongs \cup StableIds |-> IF i \in OldSongs /\ v < 3 THEN 1 ELSE 0]
      /\ db.likes = (IF v < 3 THEN OldSongs ELSE {}) \cup (IF v < 5 THEN OldAlbums ELSE {}) \cup liked
  BY DEF OfVersion
<1>5. db \in SomeDatabase
  <2>1. db.shape \in [1..Latest -> Nat] BY <1>4, PartsAre
  <2>2. Keyed \subseteq Accounts BY MigAssumption
  <2>3. db.plays \in [OldSongs \cup StableIds -> Nat] BY <1>4
  <2>4. db.likes \subseteq OldSongs \cup OldAlbums \cup StableIds BY <1>4
  <2>5. db = [version |-> db.version, keyHash |-> db.keyHash, shape |-> db.shape, shared |-> db.shared,
              stations |-> db.stations, column |-> db.column, keys |-> db.keys, apps |-> db.apps,
              hashed |-> db.hashed, plays |-> db.plays, likes |-> db.likes]
    BY DEF OfVersion
  <2>6. db.stations \in [Accounts -> Nat] /\ db.keys \subseteq Accounts /\ db.apps \subseteq Accounts
        /\ db.hashed \subseteq Accounts /\ db.column \in BOOLEAN /\ db.shared \in BOOLEAN
    BY <1>4, <2>2
  <2>7. db.version \in 0..Latest /\ db.keyHash = OldKey BY <1>2, <1>4
  <2> HIDE DEF db
  <2>8. QED BY <2>1, <2>3, <2>4, <2>5, <2>6, <2>7 DEF SomeDatabase
<1> HIDE DEF db
<1>6. ShapedTo(db, db.version) BY <1>4 DEF ShapedTo
<1>7. ASSUME run.oldest < 3 PROVE Follow(db, run)
  <2>1. v \in Nat /\ v < 3 BY <1>2, <1>3, <1>7
  <2>2. \A o \in OldSongs : db.plays[o] = 1 BY <1>4, <2>1
  <2>3. OldSongs \subseteq db.likes /\ OldAlbums \subseteq db.likes BY <1>4, <2>1
  <2>4. QED BY <1>4, <2>1, <2>2, <2>3 DEF Follow
<1>8. DatabaseOK(db, run)
  <2>1. Keyed \subseteq db.keys \cup db.apps BY <1>4
  <2>2. \A u \in Accounts : db.stations[u] = IF db.shared THEN 0 ELSE 1
    <3>1. CASE v < 6
      <4>1. db.shared = TRUE /\ \A u \in Accounts : db.stations[u] = 0 BY <3>1, Zenon DEF db, OfVersion
      <4>2. QED BY <4>1
    <3>2. CASE ~(v < 6)
      <4>1. ~db.shared /\ \A u \in Accounts : db.stations[u] = 1 BY <3>2, Zenon DEF db, OfVersion
      <4>2. QED BY <4>1
    <3>3. QED BY <3>1, <3>2
  <2>3. QED BY <1>2, <1>3, <1>4, <1>5, <1>6, <1>7, <2>1, <2>2 DEF DatabaseOK
<1>9. QED BY <1>1, <1>3, <1>8 DEF MigInit, MigIInv, db, Off, Up, Latest

-----------------------------------------------------------------------------
(* A mark is on one table and on nothing else.                              *)
LEMMA MarkIsSet ==
    ASSUME NEW db \in SomeDatabase, NEW n \in 1..Latest, NEW x \in Nat
    PROVE  LET d == [db EXCEPT !.shape[n] = x] IN
           /\ d \in SomeDatabase /\ d.shape = [db.shape EXCEPT ![n] = x]
           /\ d.version = db.version /\ d.keyHash = db.keyHash /\ d.shared = db.shared
           /\ d.stations = db.stations /\ d.column = db.column /\ d.keys = db.keys
           /\ d.apps = db.apps /\ d.hashed = db.hashed /\ d.plays = db.plays /\ d.likes = db.likes
BY DEF SomeDatabase

(* Only a table above the version is marked with less than its parts.       *)
LEMMA MarkedOK ==
    ASSUME NEW db, NEW r, DatabaseOK(db, r), NEW n \in 1..Latest, NEW x \in Nat,
           n = 4 \/ n > db.version \/ x = Parts(n)
    PROVE  LET d == [db EXCEPT !.shape[n] = x] IN
           /\ DatabaseOK(d, r) /\ d.version = db.version
           /\ \A k \in 1..Latest : d.shape[k] = IF k = n THEN x ELSE db.shape[k]
<1> DEFINE d == [db EXCEPT !.shape[n] = x]
<1>1. db \in SomeDatabase /\ db.shape \in [1..Latest -> Nat] BY DEF DatabaseOK, SomeDatabase
<1>2. /\ d \in SomeDatabase /\ d.shape = [db.shape EXCEPT ![n] = x]
      /\ d.version = db.version /\ d.shared = db.shared
      /\ d.stations = db.stations /\ d.keys = db.keys
      /\ d.apps = db.apps /\ d.plays = db.plays /\ d.likes = db.likes
  BY <1>1, MarkIsSet
<1> HIDE DEF d
<1>3. \A k \in 1..Latest : d.shape[k] = IF k = n THEN x ELSE db.shape[k] BY <1>1, <1>2
<1>4. db.version \in 0..Latest BY <1>1 DEF SomeDatabase
<1>5. ShapedTo(d, d.version) BY <1>2, <1>3, <1>4 DEF DatabaseOK, ShapedTo
<1>6. DatabaseOK(d, r) BY <1>2, <1>5 DEF DatabaseOK, Follow
<1>7. QED BY <1>2, <1>3, <1>6 DEF d

LEMMA StampIsSet ==
    ASSUME NEW db \in SomeDatabase, NEW n \in 0..Latest
    PROVE  LET d == Stamped(db, n) IN
           /\ d \in SomeDatabase /\ d.shape = db.shape
           /\ d.version = n /\ d.keyHash = db.keyHash /\ d.shared = db.shared
           /\ d.stations = db.stations /\ d.column = db.column /\ d.keys = db.keys
           /\ d.apps = db.apps /\ d.hashed = db.hashed /\ d.plays = db.plays /\ d.likes = db.likes
BY DEF SomeDatabase, Stamped

(* The version is raised when the tables are there and the rows follow it.  *)
LEMMA StampedOK ==
    ASSUME NEW db, NEW r, r.oldest \in Nat, DatabaseOK(db, r), NEW n \in 0..Latest, db.version <= n, ShapedTo(db, n),
           n >= 3 => db.version >= 3, n >= 5 => db.version >= 5
    PROVE  DatabaseOK(Stamped(db, n), r) /\ Stamped(db, n).version = n /\ Stamped(db, n).shape = db.shape
<1> DEFINE d == Stamped(db, n)
<1>1. db \in SomeDatabase /\ db.version \in 0..Latest BY DEF DatabaseOK, SomeDatabase
<1>2. /\ d \in SomeDatabase /\ d.shape = db.shape
      /\ d.version = n /\ d.shared = db.shared
      /\ d.stations = db.stations /\ d.keys = db.keys
      /\ d.apps = db.apps /\ d.plays = db.plays /\ d.likes = db.likes
  BY <1>1, StampIsSet
<1> HIDE DEF d
<1>3. ShapedTo(d, n) BY <1>2 DEF ShapedTo
<1>4. r.oldest < 3 => Follow(d, r) BY <1>1, <1>2 DEF DatabaseOK, Follow
<1>5. r.oldest <= n
  <2>1. r.oldest <= db.version BY DEF DatabaseOK
  <2>2. QED BY <1>1, <2>1
<1>6. QED BY <1>2, <1>3, <1>4, <1>5 DEF DatabaseOK, d

(* A migration of the start is done: its table is marked.                   *)
LEMMA ProgressGoesOn ==
    ASSUME NEW db, NEW d, NEW n \in 1..Latest, NEW c \in 0..Latest, NEW c1 \in 0..Latest,
           ProgressOK(db, c, n), db.version \in 0..Latest, d.version \in 0..Latest,
           c1 = IF c < n THEN n ELSE c,
           d.version >= db.version, d.version <= c1,
           n = 3 \/ n = 5 => d.version >= n \/ c >= n,
           \A k \in 1..Latest : k # n => d.shape[k] = db.shape[k],
           n # 4 => d.shape[n] = Parts(n)
    PROVE  ProgressOK(d, c1, n + 1)
<1>1. c >= n - 1 BY DEF ProgressOK, Finishing, Latest
<1>2. ShapedTo(d, c1) BY <1>1 DEF ProgressOK, ShapedTo, Latest
<1>3. c1 >= 3 => d.version >= 3 BY <1>1 DEF ProgressOK, Latest
<1>4. c1 >= 5 => d.version >= 5 BY <1>1 DEF ProgressOK, Latest
<1>5. QED BY <1>1, <1>2, <1>3, <1>4 DEF ProgressOK, Latest, Finishing

-----------------------------------------------------------------------------
(* What a step does: both databases stay whole, and the start gets further. *)
LEMMA MigStepKeeps ==
    ASSUME MigIInv, run' = run, migPc' \in 0..Up,
           DatabaseOK(disk', run), DatabaseOK(mem', run),
           migPc' # Off => ProgressOK(mem', curr', migPc'), migPc' = Up => mem' = disk'
    PROVE  MigIInv'
BY DEF MigIInv

LEMMA OldestIs == ASSUME MigIInv PROVE run.oldest \in Nat
BY DEF MigIInv, MigRun, Latest

LEMMA DatabaseTypes ==
    ASSUME NEW db, NEW r, DatabaseOK(db, r)
    PROVE  db \in SomeDatabase /\ db.version \in 0..Latest /\ db.shape \in [1..Latest -> Nat]
           /\ ShapedTo(db, db.version)
BY DEF DatabaseOK, SomeDatabase

LEMMA ShapedByNow ==
    ASSUME NEW db, NEW c, NEW n \in 1..Latest, ProgressOK(db, c, n)
    PROVE  c \in 0..Latest /\ c >= n - 1 /\ db.version <= c /\ ShapedTo(db, c)
BY DEF ProgressOK, Latest, Finishing

LEMMA StartKeeps ==
    ASSUME MigIInv, NEW key \in {OldKey, OtherKey}, NEW beets \in BOOLEAN, Start(key, beets)
    PROVE  MigIInv'
<1>1. run' = [run EXCEPT !.key = key, !.beets = beets] /\ run \in MigRun
      /\ disk' = disk /\ mem' = disk /\ curr' = disk.version /\ migPc' = 1 /\ DatabaseOK(disk, run)
  BY DEF Start, MigIInv
<1>2. run' \in MigRun /\ run'.ids = run.ids /\ run'.oldest = run.oldest BY <1>1 DEF MigRun
<1>3. DatabaseOK(disk, run') BY <1>1, <1>2 DEF DatabaseOK, Follow
<1>4. disk.version \in 0..Latest /\ ShapedTo(disk, disk.version) BY <1>1, DatabaseTypes
<1>5. ProgressOK(disk, disk.version, 1) BY <1>4 DEF ProgressOK, Latest
<1>6. QED BY <1>1, <1>2, <1>3, <1>5 DEF MigIInv, Up, Latest

LEMMA SkipKeeps == ASSUME MigIInv, Skip PROVE MigIInv'
<1>1. PICK n \in 1..Latest : migPc = n /\ ~Due(n) /\ migPc' = n + 1 /\ UNCHANGED <<run, disk, mem, curr>>
  BY DEF Skip, At, Go
<1>2. ProgressOK(mem, curr, n) BY <1>1 DEF MigIInv, Off
<1>3. curr \in 0..Latest /\ curr >= n BY <1>1, <1>2 DEF Due, ProgressOK, Latest
<1>4. ProgressOK(mem, curr, n + 1) BY <1>2, <1>3 DEF ProgressOK, Latest, Finishing
<1>5. QED BY <1>1, <1>4 DEF MigIInv, Latest, Up

LEMMA DropKeeps == ASSUME MigIInv, DropNowPlaying PROVE MigIInv'
<1>1. /\ migPc = 1 /\ migPc' = 2 /\ Due(1) /\ curr' = IF curr < 1 THEN 1 ELSE curr
      /\ disk' = [disk EXCEPT !.shape[1] = Parts(1)] /\ run' = run
      /\ mem' = Stamped([mem EXCEPT !.shape[1] = Parts(1)], 1)
  BY DEF DropNowPlaying, At, Go, Reach, MarkedAs
<1>2. DatabaseOK(disk, run) /\ DatabaseOK(mem, run) /\ ProgressOK(mem, curr, 1)
  BY <1>1 DEF MigIInv, Off
<1>3. curr = 0 /\ mem.version = 0 /\ mem.version \in 0..Latest
  BY <1>1, <1>2, DatabaseTypes DEF Due, ProgressOK
<1> DEFINE d == [mem EXCEPT !.shape[1] = Parts(1)]
<1>4. 1 \in 1..Latest /\ Parts(1) \in Nat BY PartsAre DEF Latest
<1>5. /\ DatabaseOK(d, run) /\ d.version = mem.version
      /\ \A k \in 1..Latest : d.shape[k] = IF k = 1 THEN Parts(1) ELSE mem.shape[k]
  BY <1>2, <1>4, MarkedOK
<1>6. DatabaseOK(disk', run) BY <1>1, <1>2, <1>4, MarkedOK
<1> HIDE DEF d
<1>7. ShapedTo(d, 1) BY <1>5 DEF ShapedTo
<1>8. DatabaseOK(mem', run) /\ mem'.version = 1 /\ mem'.shape = d.shape
  <2>1. mem' = Stamped(d, 1) BY <1>1 DEF d
  <2>2. 1 \in 0..Latest /\ d.version <= 1 /\ ~(1 >= 3) /\ ~(1 >= 5) BY <1>3, <1>5 DEF Latest
  <2>3. QED BY <1>5, <1>7, <2>1, <2>2, StampedOK, OldestIs
<1>9. ProgressOK(mem', 1, 2)
  BY <1>7, <1>8 DEF ProgressOK, ShapedTo, Latest
<1>10. QED BY <1>1, <1>3, <1>6, <1>8, <1>9, MigStepKeeps DEF Up, Latest

LEMMA RebuildKeeps == ASSUME MigIInv, NEW n \in {2, 4}, Rebuild(n) PROVE MigIInv'
<1> DEFINE d == [mem EXCEPT !.shape[n] = Parts(n)]
<1>1. /\ migPc = n /\ migPc' = n + 1 /\ Due(n) /\ curr' = IF curr < n THEN n ELSE curr
      /\ run' = run /\ disk' = d /\ mem' = IF curr < n THEN Stamped(d, n) ELSE d
  BY DEF Rebuild, At, Go, Reach, MarkedAs
<1>2. n \in 1..Latest /\ Parts(n) \in Nat BY PartsAre DEF Latest
<1>3. DatabaseOK(mem, run) /\ ProgressOK(mem, curr, n) BY <1>1 DEF MigIInv, Off
<1>4. /\ DatabaseOK(d, run) /\ d.version = mem.version /\ d.version \in 0..Latest
      /\ \A k \in 1..Latest : d.shape[k] = IF k = n THEN Parts(n) ELSE mem.shape[k]
  <2>1. /\ DatabaseOK(d, run) /\ d.version = mem.version
        /\ \A k \in 1..Latest : d.shape[k] = IF k = n THEN Parts(n) ELSE mem.shape[k]
    BY <1>2, <1>3, MarkedOK
  <2>2. mem.version \in 0..Latest BY <1>3, DatabaseTypes
  <2>3. QED BY <2>1, <2>2
<1>5. curr \in 0..Latest /\ curr >= n - 1 /\ mem.version <= curr /\ ShapedTo(mem, curr)
  BY <1>2, <1>3, ShapedByNow
<1> HIDE DEF d
<1>6. CASE curr < n
  <2>1. ShapedTo(d, n) BY <1>2, <1>4, <1>5 DEF ShapedTo
  <2>2. n >= 3 => d.version >= 3 BY <1>3, <1>4, <1>5 DEF ProgressOK
  <2>3. DatabaseOK(mem', run) /\ mem'.version = n /\ mem'.shape = d.shape
    BY <1>1, <1>2, <1>4, <1>5, <1>6, <2>1, <2>2, StampedOK, OldestIs
  <2>4. ProgressOK(mem', n, n + 1)
    BY <1>2, <2>1, <2>3 DEF ProgressOK, ShapedTo, Latest
  <2>5. QED BY <1>1, <1>4, <1>6, <2>3, <2>4, MigStepKeeps DEF Up, Latest
<1>7. CASE ~(curr < n)
  <2>1. ProgressOK(d, curr, n + 1)
    BY <1>2, <1>3, <1>4, <1>5, <1>7 DEF ProgressOK, ShapedTo, Latest
  <2>2. QED BY <1>1, <1>4, <1>7, <2>1, MigStepKeeps DEF Up, Latest
<1>8. QED BY <1>6, <1>7

-----------------------------------------------------------------------------
(* Each old song that now has the id counts once.                           *)
LEMMA PairsCount ==
    ASSUME NEW S, IsFiniteSet(S)
    PROVE  Cardinality(UNION {{o} \X (1..1) : o \in S}) = Cardinality(S)
<1> DEFINE T == UNION {{o} \X (1..1) : o \in S}
           f == [o \in S |-> <<o, 1>>]
<1>1. f \in [S -> T] /\ \A a, b \in S : f[a] = f[b] => a = b OBVIOUS
<1>2. \A t \in T : \E s \in S : f[s] = t
  <2>1. ASSUME NEW t \in T PROVE \E s \in S : f[s] = t
    <3>1. PICK o \in S : t \in {o} \X (1..1) OBVIOUS
    <3>2. t = <<o, 1>> BY <3>1
    <3>3. QED BY <3>2
  <2>2. QED BY <2>1
<1>3. f \in Bijection(S, T) BY <1>1, <1>2, Fun_IsBij
<1> HIDE DEF T, f
<1>4. ExistsBijection(S, T) BY <1>3 DEF ExistsBijection
<1>5. Cardinality(T) = Cardinality(S) BY <1>4, FS_Bijection
<1>6. QED BY <1>5 DEF T

LEMMA PlaysAreCounted ==
    ASSUME NEW db \in SomeDatabase, \A o \in OldSongs : db.plays[o] = 1
    PROVE  /\ Plays(db) \in [OldSongs \cup StableIds -> Nat]
           /\ \A i \in OldSongs \cup StableIds :
                 Plays(db)[i] = Cardinality({o \in OldSongs : run.ids[o] = i})
<1> DEFINE S(i) == {o \in OldSongs : run.ids[o] = i}
<1>1. \A i : IsFiniteSet(S(i)) /\ Cardinality(S(i)) \in Nat
  BY MigAssumption, FS_Subset, FS_CardinalityType
<1>2. \A i : UNION {{o} \X (1..db.plays[o]) : o \in S(i)} = UNION {{o} \X (1..1) : o \in S(i)} OBVIOUS
<1>3. ASSUME NEW i PROVE Cardinality(UNION {{o} \X (1..db.plays[o]) : o \in S(i)}) = Cardinality(S(i))
  <2>1. UNION {{o} \X (1..db.plays[o]) : o \in S(i)} = UNION {{o} \X (1..1) : o \in S(i)} BY <1>2
  <2>2. IsFiniteSet(S(i)) BY <1>1
  <2> HIDE DEF S
  <2>3. QED BY <2>1, <2>2, PairsCount
<1>4. Plays(db) = [i \in OldSongs \cup StableIds |->
                     Cardinality(UNION {{o} \X (1..db.plays[o]) : o \in S(i)})]
  BY DEF Plays
<1> HIDE DEF S
<1>5. Plays(db) = [i \in OldSongs \cup StableIds |-> Cardinality(S(i))] BY <1>3, <1>4
<1>6. QED BY <1>1, <1>5, ZenonT(40) DEF S

(* A migration of ids gives each row of its table the id it is now to have, *)
(* and leaves the rows of the other as they are.                            *)
LEMMA LikesFollow ==
    ASSUME NEW db \in SomeDatabase, run \in MigRun, NEW old \in {OldSongs, OldAlbums}
    PROVE  /\ Likes(db, old) \subseteq OldSongs \cup OldAlbums \cup StableIds
           /\ old \subseteq db.likes => \A o \in old : To(run.ids, o) \in Likes(db, old)
           /\ \A i \in db.likes : i \notin old => i \in Likes(db, old)
<1>1. \A o \in OldSongs \cup OldAlbums : run.ids[o] \in StableIds \cup {NoLonger} BY DEF MigRun
<1>2. old \subseteq OldSongs \cup OldAlbums OBVIOUS
<1>3. db.likes \subseteq OldSongs \cup OldAlbums \cup StableIds BY DEF SomeDatabase
<1>4. Likes(db, old) \subseteq OldSongs \cup OldAlbums \cup StableIds
  BY <1>1, <1>2, <1>3 DEF Likes, Found
<1>5. ASSUME old \subseteq db.likes, NEW o \in old PROVE To(run.ids, o) \in Likes(db, old)
  <2>1. CASE Found(o) BY <1>5, <2>1 DEF Found, To, Likes
  <2>2. CASE ~Found(o) BY <1>5, <2>2 DEF Found, To, Likes
  <2>3. QED BY <2>1, <2>2
<1>6. \A i \in db.likes : i \notin old => i \in Likes(db, old) BY DEF Likes
<1>7. QED BY <1>4, <1>5, <1>6

LEMMA PlaysAreSet ==
    ASSUME NEW db \in SomeDatabase, NEW p \in [OldSongs \cup StableIds -> Nat]
    PROVE  LET d == [db EXCEPT !.plays = p] IN
           /\ d \in SomeDatabase /\ d.shape = db.shape /\ d.version = db.version /\ d.shared = db.shared
           /\ d.stations = db.stations /\ d.keys = db.keys /\ d.apps = db.apps
           /\ d.plays = p /\ d.likes = db.likes
BY DEF SomeDatabase

LEMMA LikesAreSet ==
    ASSUME NEW db \in SomeDatabase, NEW l \in SUBSET (OldSongs \cup OldAlbums \cup StableIds)
    PROVE  LET d == [db EXCEPT !.likes = l] IN
           /\ d \in SomeDatabase /\ d.shape = db.shape /\ d.version = db.version /\ d.shared = db.shared
           /\ d.stations = db.stations /\ d.keys = db.keys /\ d.apps = db.apps
           /\ d.plays = db.plays /\ d.likes = l
BY DEF SomeDatabase

(* What the transaction leaves: the rows, the mark and the version.         *)
LEMMA RekeyedOK ==
    ASSUME NEW n \in {3, 5}, run \in MigRun, DatabaseOK(mem, run), mem.version < n,
           n = 5 => mem.version >= 3, ShapedTo(mem, n - 1)
    PROVE  LET d == Stamped(MarkedAs(Rekeyed(mem, n), n), n) IN
           /\ DatabaseOK(d, run) /\ d.version = n
           /\ \A k \in 1..Latest : d.shape[k] = IF k = n THEN Parts(n) ELSE mem.shape[k]
<1> DEFINE a == Rekeyed(mem, n)
           b == MarkedAs(a, n)
           d == Stamped(b, n)
<1>1. mem \in SomeDatabase /\ n \in 1..Latest /\ n \in 0..Latest /\ Parts(n) \in Nat
      /\ mem.shape \in [1..Latest -> Nat] /\ mem.version \in 0..Latest
  BY PartsAre, DatabaseTypes DEF Latest
<1>2. run.oldest \in 0..Latest /\ run.oldest <= mem.version /\ (run.oldest < 3 => Follow(mem, run))
  BY DEF DatabaseOK, MigRun
<1>3. /\ a \in SomeDatabase /\ a.shape = mem.shape /\ a.version = mem.version /\ a.shared = mem.shared
      /\ a.stations = mem.stations /\ a.keys = mem.keys /\ a.apps = mem.apps
      /\ n = 3 => a.plays = Plays(mem) /\ a.likes = Likes(mem, OldSongs)
      /\ n = 5 => a.plays = mem.plays /\ a.likes = Likes(mem, OldAlbums)
  <2>1. CASE n = 3
    <3>1. \A o \in OldSongs : mem.plays[o] = 1 BY <1>1, <1>2, <2>1 DEF Follow
    <3>2. PICK p \in [OldSongs \cup StableIds -> Nat] : p = Plays(mem) BY <1>1, <3>1, PlaysAreCounted
    <3>3. PICK l \in SUBSET (OldSongs \cup OldAlbums \cup StableIds) : l = Likes(mem, OldSongs)
      BY <1>1, LikesFollow
    <3> DEFINE c == [mem EXCEPT !.plays = p]
    <3>4. /\ c \in SomeDatabase /\ c.shape = mem.shape /\ c.version = mem.version /\ c.shared = mem.shared
          /\ c.stations = mem.stations /\ c.keys = mem.keys /\ c.apps = mem.apps /\ c.plays = p
      BY <1>1, PlaysAreSet, ZenonT(40)
    <3>5. a = [c EXCEPT !.likes = l] BY <2>1, <3>2, <3>3 DEF Rekeyed
    <3> HIDE DEF a, c
    <3>6. /\ a \in SomeDatabase /\ a.shape = c.shape /\ a.version = c.version /\ a.shared = c.shared
          /\ a.stations = c.stations /\ a.keys = c.keys /\ a.apps = c.apps
          /\ a.plays = c.plays /\ a.likes = l
      BY <3>4, <3>5, LikesAreSet
    <3>7. QED BY <2>1, <3>2, <3>3, <3>4, <3>6
  <2>2. CASE n = 5
    <3>1. PICK l \in SUBSET (OldSongs \cup OldAlbums \cup StableIds) : l = Likes(mem, OldAlbums)
      BY <1>1, LikesFollow
    <3>2. a = [mem EXCEPT !.likes = l] BY <2>2, <3>1 DEF Rekeyed
    <3> HIDE DEF a
    <3>3. /\ a \in SomeDatabase /\ a.shape = mem.shape /\ a.version = mem.version /\ a.shared = mem.shared
          /\ a.stations = mem.stations /\ a.keys = mem.keys /\ a.apps = mem.apps
          /\ a.plays = mem.plays /\ a.likes = l
      BY <1>1, <3>2, LikesAreSet, ZenonT(40)
    <3>4. QED BY <2>2, <3>1, <3>3
  <2>3. QED BY <2>1, <2>2
<1> HIDE DEF a
<1>4. /\ b \in SomeDatabase /\ b.version = a.version /\ b.shape = [a.shape EXCEPT ![n] = Parts(n)]
      /\ b.shared = a.shared /\ b.stations = a.stations /\ b.keys = a.keys /\ b.apps = a.apps
      /\ b.plays = a.plays /\ b.likes = a.likes
  BY <1>1, <1>3, MarkIsSet DEF MarkedAs
<1> HIDE DEF b
<1>5. /\ d \in SomeDatabase /\ d.version = n /\ d.shape = b.shape
      /\ d.shared = b.shared /\ d.stations = b.stations /\ d.keys = b.keys /\ d.apps = b.apps
      /\ d.plays = b.plays /\ d.likes = b.likes
  BY <1>1, <1>4, StampIsSet
<1> HIDE DEF d
<1>6. \A k \in 1..Latest : d.shape[k] = IF k = n THEN Parts(n) ELSE mem.shape[k]
  BY <1>1, <1>3, <1>4, <1>5, ZenonT(40)
<1>7. ShapedTo(d, n) BY <1>1, <1>6 DEF ShapedTo
<1>8. ASSUME run.oldest < 3 PROVE Follow(d, run)
  <2>1. CASE n = 3
    <3>1. mem.version < 3 /\ (\A o \in OldSongs : mem.plays[o] = 1) /\ OldSongs \subseteq mem.likes
          /\ OldAlbums \subseteq mem.likes
      BY <1>1, <1>2, <1>8, <2>1 DEF Follow
    <3>2. \A i \in StableIds : d.plays[i] = Cardinality({o \in OldSongs : run.ids[o] = i})
      <4>1. d.plays = Plays(mem) BY <1>3, <1>4, <1>5, <2>1
      <4>2. \A i \in OldSongs \cup StableIds :
               Plays(mem)[i] = Cardinality({o \in OldSongs : run.ids[o] = i})
        BY <1>1, <3>1, PlaysAreCounted
      <4>3. QED BY <4>1, <4>2
    <3>3. d.likes = Likes(mem, OldSongs) BY <1>3, <1>4, <1>5, <2>1
    <3>4. \A o \in OldSongs : To(run.ids, o) \in d.likes BY <1>1, <3>1, <3>3, LikesFollow
    <3>5. OldAlbums \subseteq d.likes
      <4>1. \A i \in mem.likes : i \notin OldSongs => i \in d.likes BY <1>1, <3>3, LikesFollow
      <4>2. QED BY <3>1, <4>1, MigAssumption
    <3>6. QED BY <1>5, <2>1, <3>2, <3>4, <3>5 DEF Follow
  <2>2. CASE n = 5
    <3>1. /\ OldAlbums \subseteq mem.likes
          /\ \A i \in StableIds : mem.plays[i] = Cardinality({o \in OldSongs : run.ids[o] = i})
          /\ \A o \in OldSongs : To(run.ids, o) \in mem.likes
      BY <1>1, <1>2, <1>8, <2>2 DEF Follow
    <3>2. d.likes = Likes(mem, OldAlbums) /\ d.plays = mem.plays BY <1>3, <1>4, <1>5, <2>2
    <3>3. \A o \in OldAlbums : To(run.ids, o) \in d.likes BY <1>1, <3>1, <3>2, LikesFollow
    <3>4. \A i \in mem.likes : i \notin OldAlbums => i \in d.likes BY <1>1, <3>2, LikesFollow
    <3>5. \A o \in OldSongs : To(run.ids, o) \notin OldAlbums
      <4>1. \A o \in OldSongs : run.ids[o] \in StableIds \cup {NoLonger} BY DEF MigRun
      <4>2. QED BY <4>1, MigAssumption DEF To
    <3>6. QED BY <1>5, <2>2, <3>1, <3>2, <3>3, <3>4, <3>5 DEF Follow
  <2>3. QED BY <2>1, <2>2
<1>9. DatabaseOK(d, run) BY <1>1, <1>2, <1>3, <1>4, <1>5, <1>7, <1>8 DEF DatabaseOK
<1>10. QED BY <1>5, <1>6, <1>9 DEF d, b, a

LEMMA MigrateIdsKeep == ASSUME MigIInv, NEW n \in {3, 5}, MigrateIds(n) PROVE MigIInv'
<1>1. /\ migPc = n /\ migPc' = n + 1 /\ Due(n) /\ curr' = IF curr < n THEN n ELSE curr
      /\ run' = run /\ disk' = Stamped(MarkedAs(Rekeyed(mem, n), n), n) /\ mem' = disk'
  BY DEF MigrateIds, At, Go, Reach
<1>2. n \in 1..Latest /\ run \in MigRun BY DEF Latest, MigIInv
<1>3. DatabaseOK(mem, run) /\ ProgressOK(mem, curr, n) BY <1>1 DEF MigIInv, Off
<1>4. curr \in 0..Latest /\ curr >= n - 1 /\ mem.version <= curr /\ ShapedTo(mem, curr)
      /\ mem.version \in 0..Latest
  BY <1>2, <1>3, ShapedByNow, DatabaseTypes
<1>5. curr < n /\ curr = n - 1 BY <1>1, <1>2, <1>4 DEF Due
<1>6. mem.version < n /\ (n = 5 => mem.version >= 3) /\ ShapedTo(mem, n - 1)
  BY <1>3, <1>4, <1>5 DEF ProgressOK
<1>7. /\ DatabaseOK(mem', run) /\ mem'.version = n
      /\ \A k \in 1..Latest : mem'.shape[k] = IF k = n THEN Parts(n) ELSE mem.shape[k]
  BY <1>1, <1>2, <1>3, <1>6, RekeyedOK
<1>8. ShapedTo(mem', n) BY <1>2, <1>6, <1>7 DEF ShapedTo
<1>9. ProgressOK(mem', n, n + 1) BY <1>2, <1>7, <1>8 DEF ProgressOK, Latest
<1>10. QED BY <1>1, <1>5, <1>7, <1>9, MigStepKeeps DEF Up, Latest

LEMMA MigrateIdsFailKeep == ASSUME MigIInv, NEW n \in {3, 5}, MigrateIdsFail(n) PROVE MigIInv'
BY DEF MigIInv, MigrateIdsFail, RefusedStart, Off, Up, Latest

LEMMA DeferKeep == ASSUME MigIInv, NEW n \in {3, 5}, Defer(n) PROVE MigIInv'
<1>1. migPc = n /\ migPc' = Deferred /\ UNCHANGED <<run, disk, mem, curr>> BY DEF Defer, At, Go
<1>2. ProgressOK(mem, curr, Deferred) BY <1>1 DEF MigIInv, ProgressOK, Off, Finishing, Deferred, Latest
<1>3. QED BY <1>1, <1>2 DEF MigIInv, Up, Deferred, Latest

(* Stations and keys are copied, hashes made: nothing the version is about. *)
LEMMA CopiedOK ==
    ASSUME NEW db, NEW r, DatabaseOK(db, r), NEW d \in SomeDatabase,
           d.shape = db.shape, d.version = db.version, d.plays = db.plays, d.likes = db.likes,
           Keyed \subseteq d.keys \cup d.apps,
           \A u \in Accounts : d.stations[u] = IF d.shared THEN 0 ELSE 1
    PROVE  DatabaseOK(d, r)
BY DEF DatabaseOK, Follow, ShapedTo

(* A migration after the fifth is done without a version of its own.        *)
LEMMA LaterKeeps ==
    ASSUME MigIInv, NEW n \in 6..Latest, migPc = n, Due(n), Reach(n), Go(n + 1), NEW d, DatabaseOK(d, run),
           d.version = mem.version, d.shape = mem.shape, mem' = MarkedAs(d, n), DatabaseOK(disk', run)
           \/ disk' = mem'
    PROVE  MigIInv'
<1>1. migPc' = n + 1 /\ curr' = (IF curr < n THEN n ELSE curr) /\ run' = run BY DEF Go, Reach
<1>2. n \in 1..Latest /\ Parts(n) \in Nat BY PartsAre DEF Latest
<1>3. DatabaseOK(mem, run) /\ ProgressOK(mem, curr, n) BY <1>2 DEF MigIInv, Off
<1>4. curr \in 0..Latest /\ curr >= n - 1 /\ mem.version <= curr /\ ShapedTo(mem, curr)
      /\ mem.version \in 0..Latest
  BY <1>2, <1>3, ShapedByNow, DatabaseTypes
<1>5. curr = n - 1 /\ curr' = n BY <1>1, <1>2, <1>4 DEF Due
<1>6. /\ DatabaseOK(mem', run) /\ mem'.version = mem.version
      /\ \A k \in 1..Latest : mem'.shape[k] = IF k = n THEN Parts(n) ELSE mem.shape[k]
  BY <1>2, MarkedOK DEF MarkedAs
<1>7. ShapedTo(mem', n) BY <1>2, <1>4, <1>5, <1>6 DEF ShapedTo
<1>8. mem.version >= 5 BY <1>3, <1>5 DEF ProgressOK, Latest
<1>9. ProgressOK(mem', n, n + 1)
  BY <1>2, <1>4, <1>5, <1>6, <1>7, <1>8 DEF ProgressOK, Latest
<1>10. QED BY <1>1, <1>5, <1>6, <1>9, MigStepKeeps DEF Up, Latest

LEMMA RadiosKeep == ASSUME MigIInv, RadiosPerUser PROVE MigIInv'
<1> DEFINE d == PerUser(mem)
<1>1. mem \in SomeDatabase /\ DatabaseOK(mem, run) BY DatabaseTypes DEF MigIInv
<1>2. PICK st \in [Accounts -> Nat] :
        st = [u \in Accounts |-> mem.stations[u] + IF mem.shared THEN 1 ELSE 0]
  <2>1. mem.stations \in [Accounts -> Nat] BY <1>1 DEF SomeDatabase
  <2>2. [u \in Accounts |-> mem.stations[u] + IF mem.shared THEN 1 ELSE 0] \in [Accounts -> Nat]
    BY <2>1
  <2>3. QED BY <2>2
<1>3. d = [mem EXCEPT !.stations = st, !.shared = FALSE] BY <1>2 DEF PerUser
<1>4. /\ d \in SomeDatabase /\ d.shape = mem.shape /\ d.version = mem.version /\ d.plays = mem.plays
      /\ d.likes = mem.likes /\ d.keys = mem.keys /\ d.apps = mem.apps /\ d.stations = st /\ d.shared = FALSE
  <2> HIDE DEF d
  <2>1. QED BY <1>1, <1>3 DEF SomeDatabase
<1>5. \A u \in Accounts : st[u] = 1
  BY <1>1, <1>2 DEF DatabaseOK
<1> HIDE DEF d
<1>6. DatabaseOK(d, run) BY <1>1, <1>4, <1>5, CopiedOK DEF DatabaseOK
<1>7. /\ migPc = 6 /\ Due(6) /\ Reach(6) /\ Go(6 + 1) /\ mem' = MarkedAs(d, 6) /\ disk' = disk
  BY DEF RadiosPerUser, At, d
<1>8. 6 \in 6..Latest /\ DatabaseOK(disk', run) BY <1>7 DEF Latest, MigIInv
<1>9. QED BY <1>4, <1>6, <1>7, <1>8, LaterKeeps

LEMMA KeysKeep == ASSUME MigIInv, AppPasswordsFromKeys PROVE MigIInv'
<1> DEFINE d == Moved(mem)
<1>1. mem \in SomeDatabase /\ DatabaseOK(mem, run) BY DatabaseTypes DEF MigIInv
<1>2. /\ d \in SomeDatabase /\ d.shape = mem.shape /\ d.version = mem.version /\ d.plays = mem.plays
      /\ d.likes = mem.likes /\ d.keys = {} /\ d.apps = mem.apps \cup mem.keys
      /\ d.stations = mem.stations /\ d.shared = mem.shared
  BY <1>1 DEF SomeDatabase, Moved
<1> HIDE DEF d
<1>3. DatabaseOK(d, run) BY <1>1, <1>2, CopiedOK DEF DatabaseOK
<1>4. migPc = 7 /\ Due(7) /\ disk' = disk BY DEF AppPasswordsFromKeys, At
<1>5. CASE mem.column
  <2>1. /\ Reach(7) /\ Go(7 + 1) /\ mem' = MarkedAs(d, 7)
    BY <1>5 DEF AppPasswordsFromKeys, d
  <2>2. 7 \in 6..Latest /\ DatabaseOK(disk', run) BY <1>4 DEF Latest, MigIInv
  <2>3. QED BY <1>2, <1>3, <1>4, <2>1, <2>2, LaterKeeps
<1>6. CASE ~mem.column
  <2>1. mem' = mem /\ migPc' = Off /\ run' = run BY <1>6 DEF AppPasswordsFromKeys, RefusedStart
  <2>2. QED BY <1>4, <2>1 DEF MigIInv, Off, Up, Latest
<1>7. QED BY <1>5, <1>6

LEMMA HashesKeep == ASSUME MigIInv, OnewayHashes PROVE MigIInv'
<1> DEFINE d == [mem EXCEPT !.hashed = Accounts, !.column = FALSE]
<1>1. mem \in SomeDatabase /\ DatabaseOK(mem, run) BY DatabaseTypes DEF MigIInv
<1>2. /\ d \in SomeDatabase /\ d.shape = mem.shape /\ d.version = mem.version /\ d.plays = mem.plays
      /\ d.likes = mem.likes /\ d.keys = mem.keys /\ d.apps = mem.apps
      /\ d.stations = mem.stations /\ d.shared = mem.shared
  BY <1>1 DEF SomeDatabase
<1> HIDE DEF d
<1>3. DatabaseOK(d, run) BY <1>1, <1>2, CopiedOK DEF DatabaseOK
<1>4. migPc = 8 /\ Due(8) BY DEF OnewayHashes, At
<1>5. CASE Convertible(mem, run.key)
  <2>1. Reach(8) /\ Go(8 + 1) /\ disk' = MarkedAs(d, 8) /\ mem' = disk'
    BY <1>5 DEF OnewayHashes, d
  <2>2. 8 \in 6..Latest BY DEF Latest
  <2>3. QED BY <1>2, <1>3, <1>4, <2>1, <2>2, LaterKeeps
<1>6. CASE ~Convertible(mem, run.key)
  <2>1. disk' = mem /\ RefusedStart("password") /\ UNCHANGED mem BY <1>6 DEF OnewayHashes
  <2>2. QED BY <2>1 DEF MigIInv, RefusedStart, Off, Up, Latest
<1>7. QED BY <1>5, <1>6

LEMMA ColumnsKeep == ASSUME MigIInv, NEW n \in 9..Latest, AddColumn(n) PROVE MigIInv'
<1>1. migPc = n /\ Due(n) /\ n \in 1..Latest /\ n \in 6..Latest /\ n # 4 BY DEF AddColumn, At, Latest
<1>2. DatabaseOK(mem, run) /\ DatabaseOK(disk, run) /\ ProgressOK(mem, curr, n)
  BY <1>1 DEF MigIInv, Off
<1>3. curr \in 0..Latest /\ curr = n - 1 /\ mem.version <= curr /\ mem.version \in 0..Latest
      /\ mem.shape \in [1..Latest -> Nat]
  BY <1>1, <1>2, ShapedByNow, DatabaseTypes DEF Due
<1>4. CASE mem.shape[n] = Parts(n)
  <2>1. Reach(n) /\ Go(n + 1) /\ disk' = disk /\ mem' = mem BY <1>4 DEF AddColumn
  <2>2. curr' = n /\ migPc' = n + 1 /\ run' = run BY <1>3, <2>1 DEF Reach, Go
  <2>3. ShapedTo(mem, n)
    <3>1. ShapedTo(mem, curr) BY <1>2 DEF ProgressOK
    <3>2. QED BY <1>1, <1>3, <1>4, <3>1 DEF ShapedTo
  <2>4. mem.version >= 5 BY <1>1, <1>2, <1>3 DEF ProgressOK, Latest
  <2>5. ProgressOK(mem, n, n + 1) BY <1>1, <1>3, <2>3, <2>4 DEF ProgressOK, Latest
  <2>6. QED BY <1>1, <1>2, <2>1, <2>2, <2>5, MigStepKeeps DEF Up, Latest
<1>5. CASE mem.shape[n] # Parts(n)
  <2> DEFINE x == mem.shape[n] + 1
  <2>1. x \in Nat /\ n > mem.version
    <3>1. mem.shape[n] \in Nat BY <1>1, <1>3
    <3>2. QED BY <1>1, <1>3, <3>1
  <2>2. disk' = [mem EXCEPT !.shape[n] = x] /\ mem' = disk' /\ UNCHANGED <<curr, migPc, run>>
    BY <1>5 DEF AddColumn
  <2> HIDE DEF x
  <2>3. /\ DatabaseOK(mem', run) /\ mem'.version = mem.version
        /\ \A k \in 1..Latest : mem'.shape[k] = IF k = n THEN x ELSE mem.shape[k]
    BY <1>1, <1>2, <2>1, <2>2, MarkedOK
  <2>4. ProgressOK(mem', curr, n) BY <1>1, <1>2, <1>3, <2>3 DEF ProgressOK, ShapedTo
  <2>5. QED BY <1>1, <2>2, <2>3, <2>4 DEF MigIInv
<1>6. QED BY <1>4, <1>5

LEMMA FinishKeeps == ASSUME MigIInv, Finish PROVE MigIInv'
<1>1. migPc \in {Finishing, Deferred} /\ migPc # Off BY DEF Finish, Finishing, Deferred, Off, Latest
<1>2. DatabaseOK(mem, run) /\ ProgressOK(mem, curr, migPc) BY <1>1 DEF MigIInv
<1>3. CASE run.key = mem.keyHash
  <2>1. disk' = FinalStep(mem) /\ mem' = disk' /\ migPc' = Up /\ UNCHANGED <<curr, run>>
    BY <1>3 DEF Finish
  <2>2. CASE migPc = Deferred
    <3>1. mem' = mem /\ disk' = mem BY <2>1, <2>2 DEF FinalStep
    <3>2. ProgressOK(mem, curr, Up) BY <1>2 DEF ProgressOK, Up, Finishing, Latest
    <3>3. QED BY <1>2, <2>1, <3>1, <3>2, MigStepKeeps DEF Up, Latest
  <2>3. CASE migPc = Finishing
    <3>1. mem' = Stamped(mem, curr) BY <2>1, <2>3 DEF FinalStep, Finishing, Deferred, Latest
    <3>2. /\ curr \in 0..Latest /\ mem.version <= curr /\ ShapedTo(mem, curr)
          /\ (curr >= 3 => mem.version >= 3) /\ (curr >= 5 => mem.version >= 5)
      BY <1>2 DEF ProgressOK
    <3>3. DatabaseOK(mem', run) /\ mem'.version = curr /\ mem'.shape = mem.shape
      BY <1>2, <3>1, <3>2, StampedOK, OldestIs
    <3>4. ProgressOK(mem', curr, Up)
      BY <3>2, <3>3 DEF ProgressOK, ShapedTo, Up, Finishing, Latest
    <3>5. QED BY <2>1, <3>3, <3>4, MigStepKeeps DEF Up, Latest
  <2>4. QED BY <1>1, <2>2, <2>3
<1>4. CASE run.key # mem.keyHash
  <2>1. RefusedStart("key") /\ UNCHANGED <<disk, mem>> BY <1>4 DEF Finish
  <2>2. QED BY <2>1 DEF MigIInv, RefusedStart, Off, Up, Latest
<1>5. QED BY <1>3, <1>4

LEMMA PasswordKeeps == ASSUME MigIInv, NEW u \in Accounts, SetPassword(u) PROVE MigIInv'
<1> DEFINE d == [disk EXCEPT !.hashed = @ \cup {u}]
<1>1. migPc = Up /\ disk' = d /\ mem' = d /\ UNCHANGED <<migPc, curr, run>> BY DEF SetPassword
<1>2. disk \in SomeDatabase /\ DatabaseOK(disk, run) BY DatabaseTypes DEF MigIInv
<1>3. /\ d \in SomeDatabase /\ d.shape = disk.shape /\ d.version = disk.version /\ d.plays = disk.plays
      /\ d.likes = disk.likes /\ d.keys = disk.keys /\ d.apps = disk.apps
      /\ d.stations = disk.stations /\ d.shared = disk.shared
  BY <1>2 DEF SomeDatabase
<1> HIDE DEF d
<1>4. DatabaseOK(d, run) BY <1>2, <1>3, CopiedOK DEF DatabaseOK
<1>5. ProgressOK(disk, curr, Up) BY <1>1 DEF MigIInv, Off, Up, Latest
<1>6. ProgressOK(d, curr, Up) BY <1>3, <1>5 DEF ProgressOK, ShapedTo
<1>7. QED BY <1>1, <1>4, <1>6, MigStepKeeps DEF Up, Latest

LEMMA HaltKeeps == ASSUME MigIInv, Halt PROVE MigIInv'
BY DEF MigIInv, Halt, Off, Up, Latest

LEMMA MigInduction == MigIInv /\ [MigNext]_migVars => MigIInv'
<1> SUFFICES ASSUME MigIInv, [MigNext]_migVars PROVE MigIInv' OBVIOUS
<1>1. ASSUME NEW key \in {OldKey, OtherKey}, NEW beets \in BOOLEAN, Start(key, beets) PROVE MigIInv'
  BY <1>1, StartKeeps
<1>2. ASSUME Skip \/ DropNowPlaying \/ RadiosPerUser \/ AppPasswordsFromKeys \/ OnewayHashes PROVE MigIInv'
  BY <1>2, SkipKeeps, DropKeeps, RadiosKeep, KeysKeep, HashesKeep
<1>3. ASSUME NEW n \in {2, 4}, Rebuild(n) PROVE MigIInv' BY <1>3, RebuildKeeps
<1>4. ASSUME NEW n \in {3, 5}, MigrateIds(n) \/ MigrateIdsFail(n) \/ Defer(n) PROVE MigIInv'
  BY <1>4, MigrateIdsKeep, MigrateIdsFailKeep, DeferKeep
<1>5. ASSUME NEW n \in 9..Latest, AddColumn(n) PROVE MigIInv' BY <1>5, ColumnsKeep
<1>6. ASSUME Finish \/ Halt PROVE MigIInv' BY <1>6, FinishKeeps, HaltKeeps
<1>7. ASSUME NEW u \in Accounts, SetPassword(u) PROVE MigIInv' BY <1>7, PasswordKeeps
<1>8. CASE UNCHANGED migVars BY <1>8 DEF migVars, MigIInv
<1>9. QED BY <1>1, <1>2, <1>3, <1>4, <1>5, <1>6, <1>7, <1>8 DEF MigNext

LEMMA UpgradeFollows == MigIInv => UpgradeHolds
<1> SUFFICES ASSUME MigIInv PROVE UpgradeHolds OBVIOUS
<1>1. DatabaseOK(disk, run) /\ disk.version \in 0..Latest BY DatabaseTypes DEF MigIInv
<1>2. KeysKept /\ StationsOnce BY <1>1 DEF DatabaseOK, KeysKept, StationsOnce
<1>3. VersionTrue BY <1>1 DEF DatabaseOK, ShapedTo, VersionTrue
<1>4. ASSUME run.oldest < 3, disk.version >= 3
      PROVE  \A i \in StableIds : disk.plays[i] = Cardinality({o \in OldSongs : run.ids[o] = i})
  BY <1>1, <1>4 DEF DatabaseOK, Follow
<1>5. ASSUME NEW o \in OldSongs \cup OldAlbums, run.oldest < 3,
             disk.version >= (IF o \in OldSongs THEN 3 ELSE 5)
      PROVE  (IF Found(o) THEN run.ids[o] ELSE o) \in disk.likes
  <2>1. To(run.ids, o) \in disk.likes BY <1>1, <1>5 DEF DatabaseOK, Follow
  <2>2. QED BY <2>1 DEF To, Found
<1>6. RowsFollow BY <1>4, <1>5 DEF RowsFollow
<1>7. QED BY <1>2, <1>3, <1>6 DEF UpgradeHolds

(* However often an upgrade is begun, deferred, refused or killed between   *)
(* two of its commits, with whatever key: no key, station, play or like is  *)
(* lost or counted twice, and apply_db_migrations() never leaves a version  *)
(* ahead of the tables.                                                     *)
THEOREM UpgradesHold == MigSpec => []UpgradeHolds
<1>1. MigSpec => []MigIInv BY MigStarts, MigInduction, PTL DEF MigSpec
<1>2. QED BY <1>1, UpgradeFollows, PTL

-----------------------------------------------------------------------------
(***************************************************************************)
(* One setting in its file, environment, row, cache and the object that    *)
(* uses it: the invariant ties each copy to the generation of the row it   *)
(* was read from.                                                          *)
(***************************************************************************)

SettingsTypeOK ==
    /\ isList \in BOOLEAN /\ outside \in Outsides
    /\ stored \in {Unset} \cup SUBSET SettingItems
    /\ cached \in SUBSET SettingItems /\ applied \in SUBSET SettingItems
    /\ setting \in [SettingRequests -> {NoSetting} \cup Setting]
    /\ overlapped \in BOOLEAN /\ chosen \in SUBSET SettingItems

Row(db) == IF db = Unset THEN {} ELSE db

(* What a request will cache is what a start would make of its row, and its *)
(* row holds nothing the panel has not added.                               *)
RequestsTrue ==
    \A r \in SettingRequests : setting[r] # NoSetting =>
        /\ ~Locked /\ setting[r].value = Resolved(outside, setting[r].row)
        /\ Row(setting[r].row) \subseteq chosen

(* How far a request that is alone has got.                                 *)
LoneRequest ==
    ~overlapped =>
        /\ \A r, q \in SettingRequests :
              setting[r] # NoSetting /\ setting[q] # NoSetting => r = q
        /\ \A r \in SettingRequests : setting[r] # NoSetting =>
              /\ setting[r].pc = "persist" => cached = Resolved(outside, stored)
              /\ setting[r].pc # "persist" => stored = setting[r].row
              /\ setting[r].pc # "apply" => applied = cached
              /\ setting[r].pc = "apply" => cached = setting[r].value

SettingsIInv ==
    /\ SettingsTypeOK /\ RequestsTrue /\ LoneRequest
    /\ InForce /\ OutsideHolds /\ NoLeftover /\ Row(stored) \subseteq chosen

-----------------------------------------------------------------------------
LEMMA NothingIsAValue == Unset \notin SUBSET SettingItems /\ NoSetting \notin Setting
BY SettingsAssumption

LEMMA ResolvedIsSet ==
    ASSUME NEW out \in Outsides, NEW db \in {Unset} \cup SUBSET SettingItems
    PROVE  Resolved(out, db) \in SUBSET SettingItems
BY DEF Resolved, Outsides

LEMMA SettingsStart == SettingsInit => SettingsIInv
<1> SUFFICES ASSUME SettingsInit PROVE SettingsIInv OBVIOUS
<1> USE NothingIsAValue DEF SettingsInit
<1>1. SettingsTypeOK BY ResolvedIsSet DEF SettingsTypeOK
<1>2. RequestsTrue /\ LoneRequest BY DEF RequestsTrue, LoneRequest
<1>3. InForce /\ Row(stored) \subseteq chosen BY DEF InForce, Row
<1>4. OutsideHolds BY DEF OutsideHolds, Resolved, Outsides
<1>5. NoLeftover BY DEF NoLeftover, Resolved, Outsides, Pinned
<1>6. QED BY <1>1, <1>2, <1>3, <1>4, <1>5 DEF SettingsIInv

(* A request begins with what a start would make of its row.                *)
LEMMA BeginKeeps ==
    ASSUME SettingsIInv, NEW r \in SettingRequests,
           NEW row \in {Unset} \cup SUBSET SettingItems, NEW value \in SUBSET SettingItems,
           BeginSetting(r, row, value), value = Resolved(outside, row),
           chosen' \in SUBSET SettingItems, chosen \subseteq chosen', Row(row) \subseteq chosen'
    PROVE  SettingsIInv'
<1> USE NothingIsAValue DEF BeginSetting, SettingsIInv
<1> DEFINE new == [pc |-> "persist", row |-> row, value |-> value]
<1>1. new \in Setting /\ new # NoSetting BY DEF Setting
<1>2. SettingsTypeOK' BY <1>1 DEF SettingsTypeOK
<1>3. /\ setting'[r] = new /\ \A q \in SettingRequests \ {r} : setting'[q] = setting[q]
      /\ setting[r] = NoSetting
  BY DEF SettingsTypeOK
<1>4. Locked' = Locked BY DEF Locked
<1>5. \A x, y : Resolved(x, y)' = Resolved(x, y) BY DEF Resolved
<1>6. RequestsTrue' BY <1>3, <1>4, SMTT(30) DEF RequestsTrue, Resolved
<1>7. LoneRequest'
  <2> SUFFICES ASSUME ~overlapped' PROVE LoneRequest' BY DEF LoneRequest
  <2>1. \A q \in SettingRequests : setting[q] = NoSetting BY DEF Busy
  <2>2. InForce /\ ~overlapped /\ ~Busy BY <2>1 DEF Busy
  <2>3. cached = Resolved(outside, stored) /\ applied = cached BY <2>2 DEF InForce
  <2>4. QED BY <1>3, <2>1, <2>3 DEF LoneRequest, Resolved
<1>8. InForce' BY <1>1, <1>3 DEF InForce, Busy
<1>9. OutsideHolds' /\ NoLeftover' /\ Row(stored)' \subseteq chosen'
  BY DEF OutsideHolds, NoLeftover, Pinned, Row
<1>10. QED BY <1>2, <1>6, <1>7, <1>8, <1>9

LEMMA SubmitKeeps ==
    ASSUME SettingsIInv, NEW r \in SettingRequests, NEW v \in SUBSET SettingItems,
           SubmitSetting(r, v)
    PROVE  SettingsIInv'
<1> USE NothingIsAValue DEF SettingsIInv, SettingsTypeOK
<1>1. ~Locked BY DEF SubmitSetting, BeginSetting
<1>2. ToStore(v) \in SUBSET SettingItems /\ Final(v) \in SUBSET SettingItems
  BY DEF ToStore, Final, Pinned, Outsides
<1>3. Final(v) = Resolved(outside, ToStore(v))
  BY <1>1, <1>2 DEF Final, ToStore, Resolved, Pinned, Locked
<1>4. /\ chosen' \in SUBSET SettingItems /\ chosen \subseteq chosen'
      /\ Row(ToStore(v)) \subseteq chosen'
  BY <1>2 DEF SubmitSetting, Row, ToStore
<1>5. BeginSetting(r, ToStore(v), Final(v)) BY DEF SubmitSetting
<1>6. QED BY <1>2, <1>3, <1>4, <1>5, BeginKeeps

LEMMA ResetKeeps ==
    ASSUME SettingsIInv, NEW r \in SettingRequests, Reset(r) PROVE SettingsIInv'
<1> USE NothingIsAValue DEF SettingsIInv, SettingsTypeOK
<1>1. ~Locked /\ BeginSetting(r, Unset, Pinned) /\ UNCHANGED chosen BY DEF Reset, BeginSetting
<1>2. Pinned \in SUBSET SettingItems /\ Pinned = Resolved(outside, Unset)
  BY <1>1 DEF Pinned, Outsides, Resolved, Locked
<1>3. QED BY <1>1, <1>2, BeginKeeps DEF Row

(* The three steps of a request.                                            *)
LEMMA PersistKeeps ==
    ASSUME SettingsIInv, NEW r \in SettingRequests, Persist(r) PROVE SettingsIInv'
<1> USE NothingIsAValue DEF Persist, ToSetting, SettingsIInv
<1>1. setting[r] \in Setting BY DEF SettingsTypeOK
<1>2. /\ setting'[r] = [setting[r] EXCEPT !.pc = "cache"] /\ setting'[r] \in Setting
      /\ \A q \in SettingRequests \ {r} : setting'[q] = setting[q]
  BY <1>1 DEF SettingsTypeOK, Setting
<1>3. /\ setting'[r].row = setting[r].row /\ setting'[r].value = setting[r].value
      /\ setting'[r].pc = "cache" /\ setting'[r] # NoSetting
  BY <1>1, <1>2 DEF Setting
<1>4. SettingsTypeOK' BY <1>1, <1>2 DEF SettingsTypeOK, Setting
<1>5. RequestsTrue' BY <1>2, <1>3 DEF RequestsTrue, Locked, Resolved
<1>6. LoneRequest' BY <1>2, <1>3 DEF LoneRequest, Resolved
<1>7. InForce' BY <1>3 DEF InForce, Busy
<1>8. OutsideHolds' /\ NoLeftover' BY DEF OutsideHolds, NoLeftover, Pinned
<1>9. (Row(stored) \subseteq chosen)' BY DEF RequestsTrue, Row
<1>10. QED BY <1>4, <1>5, <1>6, <1>7, <1>8, <1>9

(* A value that was asked for holds what is set outside, and nothing but    *)
(* that and what the panel added.                                           *)
LEMMA ValueSound ==
    ASSUME SettingsIInv, NEW r \in SettingRequests, setting[r] # NoSetting
    PROVE  /\ outside # Unset => isList /\ outside \subseteq setting[r].value
           /\ isList => setting[r].value \subseteq Pinned \cup chosen
BY NothingIsAValue DEF SettingsIInv, RequestsTrue, Locked, Resolved, Row, Pinned

LEMMA CacheKeeps ==
    ASSUME SettingsIInv, NEW r \in SettingRequests, Cache(r) PROVE SettingsIInv'
<1> USE NothingIsAValue DEF Cache, ToSetting, SettingsIInv
<1>1. setting[r] \in Setting BY DEF SettingsTypeOK
<1>2. /\ setting'[r] = [setting[r] EXCEPT !.pc = "apply"] /\ setting'[r] \in Setting
      /\ \A q \in SettingRequests \ {r} : setting'[q] = setting[q]
  BY <1>1 DEF SettingsTypeOK, Setting
<1>3. /\ setting'[r].row = setting[r].row /\ setting'[r].value = setting[r].value
      /\ setting'[r].pc = "apply" /\ setting'[r] # NoSetting
  BY <1>1, <1>2 DEF Setting
<1>4. SettingsTypeOK' BY <1>1, <1>2 DEF SettingsTypeOK, Setting
<1>5. RequestsTrue'
  <2>1. ~Locked' /\ \A x : Resolved(outside, x)' = Resolved(outside, x)
    BY DEF RequestsTrue, Locked, Resolved
  <2>2. \A q \in SettingRequests : setting'[q].row = setting[q].row /\ setting'[q].value = setting[q].value
                                 /\ (setting'[q] # NoSetting => setting[q] # NoSetting)
    BY <1>2, <1>3
  <2>3. QED BY <2>1, <2>2 DEF RequestsTrue, Row, Resolved
<1>6. LoneRequest' BY <1>2, <1>3 DEF LoneRequest, Resolved
<1>7. InForce' BY <1>3 DEF InForce, Busy
<1>8. OutsideHolds' /\ NoLeftover' BY ValueSound DEF OutsideHolds, NoLeftover, Pinned
<1>9. QED BY <1>4, <1>5, <1>6, <1>7, <1>8 DEF Row

LEMMA ApplyKeeps ==
    ASSUME SettingsIInv, NEW r \in SettingRequests, Apply(r) PROVE SettingsIInv'
<1> USE NothingIsAValue DEF Apply, SettingsIInv
<1>1. setting[r] \in Setting BY DEF SettingsTypeOK
<1>2. /\ setting'[r] = NoSetting
      /\ \A q \in SettingRequests \ {r} : setting'[q] = setting[q]
  BY DEF SettingsTypeOK
<1>3. SettingsTypeOK' BY <1>1 DEF SettingsTypeOK, Setting
<1>4. RequestsTrue' BY <1>2 DEF RequestsTrue, Locked, Resolved
<1>5. LoneRequest' BY <1>2 DEF LoneRequest, Resolved
<1>6. InForce'
  <2> SUFFICES ASSUME ~overlapped PROVE (cached = Resolved(outside, stored) /\ applied = cached)'
    BY DEF InForce
  <2>1. cached = setting[r].value /\ stored = setting[r].row BY DEF LoneRequest
  <2>2. setting[r].value = Resolved(outside, setting[r].row) BY DEF RequestsTrue
  <2>3. QED BY <2>1, <2>2 DEF Resolved
<1>7. OutsideHolds' /\ NoLeftover' BY ValueSound DEF OutsideHolds, NoLeftover, Pinned
<1>8. QED BY <1>3, <1>4, <1>5, <1>6, <1>7 DEF Row

LEMMA RestartKeeps ==
    ASSUME SettingsIInv, NEW out \in Outsides, RestartServer(out) PROVE SettingsIInv'
<1> USE NothingIsAValue DEF RestartServer, SettingsIInv
<1>1. SettingsTypeOK' BY ResolvedIsSet DEF SettingsTypeOK
<1>2. RequestsTrue' /\ LoneRequest' BY DEF RequestsTrue, LoneRequest
<1>3. InForce' BY DEF InForce, Resolved
<1>4. OutsideHolds' BY DEF OutsideHolds, Resolved, Outsides
<1>5. NoLeftover' BY DEF NoLeftover, Resolved, Outsides, Pinned, Row
<1>6. QED BY <1>1, <1>2, <1>3, <1>4, <1>5 DEF Row

LEMMA SettingsInduction == SettingsIInv /\ [SettingsNext]_setVars => SettingsIInv'
<1> SUFFICES ASSUME SettingsIInv, [SettingsNext]_setVars PROVE SettingsIInv' OBVIOUS
<1>1. CASE UNCHANGED setVars
  BY <1>1 DEF setVars, SettingsIInv, SettingsTypeOK, RequestsTrue, LoneRequest, InForce, OutsideHolds,
              NoLeftover, Row, Locked, Resolved, Pinned, Busy
<1>2. ASSUME NEW r \in SettingRequests, NEW i \in SettingItems, AddItem(r, i) \/ RemoveItem(r, i)
      PROVE SettingsIInv'
  <2>1. cached \cup {i} \in SUBSET SettingItems /\ cached \ {i} \in SUBSET SettingItems
    BY DEF SettingsIInv, SettingsTypeOK
  <2>2. QED BY <1>2, <2>1, SubmitKeeps DEF AddItem, RemoveItem
<1>3. CASE SettingsNext
  BY <1>2, <1>3, SubmitKeeps, ResetKeeps, PersistKeeps, CacheKeeps, ApplyKeeps, RestartKeeps
     DEF SettingsNext
<1>4. QED BY <1>1, <1>3

(* What the panel shows is in force, what is set outside holds, and no item *)
(* outlives the configuration that pinned it (SettingsStore).               *)
THEOREM SettingsAreSound == SettingsSpec => []SettingsHold
<1>1. SettingsIInv => SettingsHold BY DEF SettingsIInv, SettingsHold
<1>2. QED BY <1>1, SettingsStart, SettingsInduction, PTL DEF SettingsSpec

-----------------------------------------------------------------------------
(***************************************************************************)
(* Notifications of the file and of the table, and the dispatch of an      *)
(* event to them.                                                          *)
(***************************************************************************)

(* What a dispatch can list: an id names one notification.                  *)
Listed == [id : Int, item : Item]
Names(items) == \A i, j \in items : i.id = j.id => i = j

(* The attempts that the listed notifications call for.                     *)
Attempts(items, fact) ==
    UNION {{i.id} \X i.item.urls : i \in {j \in items : Wanted(j.item, fact)}}

Listing   == [pc : {"list"}, event : NoteEvents, fact : BOOLEAN]
Dispatch  == [pc : {"send"}, event : NoteEvents, fact : BOOLEAN, listed : SUBSET Listed,
              tried : SUBSET (Int \X Services), left : SUBSET (Int \X Services)]
Sending   == {Asleep} \cup Listing \cup Dispatch

(* Each attempt it calls for is made or left, and none besides.             *)
Complete(s) == s.pc = "send" => s.left \cup s.tried = Attempts(s.listed, s.fact)

NotesIInv ==
    /\ noteConfig \in Seq(Item)
    /\ DOMAIN noteRows \subseteq 1..lastNote /\ lastNote \in Nat
    /\ \A n \in DOMAIN noteRows : noteRows[n] \in Item
    /\ overrides = switched
    /\ sendings \in [NoteThreads -> Sending]
    /\ \A t \in NoteThreads : Complete(sendings[t])

LEMMA NotesStart == NotesInit => NotesIInv
<1> SUFFICES ASSUME NotesInit PROVE NotesIInv OBVIOUS
<1>1. noteConfig \in Seq(Item) BY NotesAssumption DEF NotesInit
<1>2. sendings \in [NoteThreads -> Sending] /\ \A t \in NoteThreads : sendings[t] = Asleep
  BY DEF NotesInit, Sending
<1>3. Complete(Asleep) BY DEF Complete, Asleep
<1>4. QED BY <1>1, <1>2, <1>3 DEF NotesInit, NotesIInv

(* What List finds: the table's ids are positive, those of the file         *)
(* negative.                                                                *)
LEMMA ListedAreNamed ==
    ASSUME NotesIInv, NEW event
    PROVE  OfEvent(event) \subseteq Listed /\ Names(OfEvent(event))
<1> DEFINE InTable == {m \in DOMAIN noteRows : noteRows[m].event = event}
           InFile  == {m \in DOMAIN noteConfig : noteConfig[m].event = event}
           NoteRow(n)  == [id |-> n, item |-> noteRows[n]]
           Entry(k) == [id |-> 0 - k, item |-> [noteConfig[k] EXCEPT !.on = Enabled(k)]]
<1>1. OfEvent(event) = {NoteRow(n) : n \in InTable} \cup {Entry(k) : k \in InFile} BY DEF OfEvent
<1>2. ASSUME NEW n \in InTable PROVE NoteRow(n) \in Listed /\ NoteRow(n).id = n /\ n \in Nat /\ n > 0
  BY DEF NotesIInv, Listed
<1>3. ASSUME NEW k \in InFile PROVE Entry(k) \in Listed /\ Entry(k).id = 0 - k /\ k \in Nat /\ k > 0
  <2>1. k \in Nat /\ k > 0 /\ noteConfig[k] \in Item BY DEF NotesIInv
  <2>2. Enabled(k) \in BOOLEAN BY <2>1 DEF Enabled, Item
  <2>3. PICK b \in BOOLEAN : b = Enabled(k) BY <2>2
  <2>4. [noteConfig[k] EXCEPT !.on = b] \in Item BY <2>1 DEF Item
  <2>5. Entry(k).item \in Item /\ Entry(k).id = 0 - k BY <2>3, <2>4
  <2>6. QED BY <2>1, <2>3, <2>4 DEF Listed
<1> HIDE DEF NoteRow, Entry, InTable, InFile
<1>4. OfEvent(event) \subseteq Listed BY <1>1, <1>2, <1>3
<1>5. ASSUME NEW i \in OfEvent(event), NEW j \in OfEvent(event), i.id = j.id PROVE i = j
  <2>1. CASE i \in {NoteRow(n) : n \in InTable} /\ j \in {NoteRow(n) : n \in InTable}
    BY <1>2, <1>5, <2>1
  <2>2. CASE i \in {Entry(k) : k \in InFile} /\ j \in {Entry(k) : k \in InFile}
    <3>1. PICK k \in InFile : i = Entry(k) BY <2>2
    <3>2. PICK l \in InFile : j = Entry(l) BY <2>2
    <3>3. k = l BY <1>3, <1>5, <3>1, <3>2
    <3>4. QED BY <3>1, <3>2, <3>3
  <2>3. CASE i \in {NoteRow(n) : n \in InTable} /\ j \in {Entry(k) : k \in InFile}
    BY <1>2, <1>3, <1>5, <2>3
  <2>4. CASE i \in {Entry(k) : k \in InFile} /\ j \in {NoteRow(n) : n \in InTable}
    BY <1>2, <1>3, <1>5, <2>4
  <2>5. QED BY <1>1, <2>1, <2>2, <2>3, <2>4
<1>6. QED BY <1>4, <1>5 DEF Names

LEMMA AttemptsOfListed ==
    ASSUME NEW items \in SUBSET Listed, Names(items), NEW fact \in BOOLEAN
    PROVE  /\ Attempts(items, fact) \in SUBSET (Int \X Services)
           /\ {<<i.id, u>> : i \in {j \in items : Wanted(j.item, fact)}, u \in Services}
                 \cap UNION {{i.id} \X i.item.urls : i \in items}
              = Attempts(items, fact)
<1> DEFINE W == {j \in items : Wanted(j.item, fact)}
           L == {<<i.id, u>> : i \in W, u \in Services} \cap UNION {{i.id} \X i.item.urls : i \in items}
<1>1. \A i \in items : i.id \in Int /\ i.item.urls \subseteq Services BY DEF Listed, Item
<1>2. Attempts(items, fact) = UNION {{i.id} \X i.item.urls : i \in W} BY DEF Attempts
<1>3. W \subseteq items OBVIOUS
<1> HIDE DEF W
<1>4. ASSUME NEW p \in L PROVE p \in Attempts(items, fact)
  <2>1. PICK i \in W, u \in Services : p = <<i.id, u>> OBVIOUS
  <2>2. PICK j \in items : p \in {j.id} \X j.item.urls OBVIOUS
  <2>3. i = j BY <1>3, <2>1, <2>2 DEF Names
  <2>4. QED BY <1>2, <2>2, <2>3
<1>5. ASSUME NEW p \in Attempts(items, fact) PROVE p \in L /\ p \in Int \X Services
  <2>1. PICK i \in W : p \in {i.id} \X i.item.urls BY <1>2
  <2>2. PICK u \in i.item.urls : p = <<i.id, u>> BY <2>1
  <2>3. u \in Services /\ i.id \in Int BY <1>1, <1>3
  <2>4. QED BY <1>3, <2>1, <2>2, <2>3
<1>6. L = Attempts(items, fact) BY <1>4, <1>5
<1>7. QED BY <1>5, <1>6 DEF W

LEMMA SwitchesKeep ==
    ASSUME NotesIInv, NEW place \in DOMAIN noteConfig, NEW on \in BOOLEAN, SwitchConfig(place, on)
    PROVE  NotesIInv'
BY DEF NotesIInv, SwitchConfig, Key

LEMMA TableKeeps ==
    ASSUME NotesIInv, NEW item \in Item,
           \/ AddNote(item)
           \/ \E n \in DOMAIN noteRows :
                 UpdateNote(n, item) \/ DeleteNote(n) \/ \E on \in BOOLEAN : SwitchNote(n, on)
    PROVE  NotesIInv'
<1>1. /\ UNCHANGED <<noteConfig, overrides, sendings, switched>>
      /\ DOMAIN noteRows' \subseteq 1..lastNote' /\ lastNote' \in Nat
      /\ \A n \in DOMAIN noteRows' : noteRows'[n] \in Item
  <2>1. CASE AddNote(item)
    BY <2>1 DEF AddNote, NotesIInv
  <2>2. ASSUME NEW n \in DOMAIN noteRows, UpdateNote(n, item)
        PROVE  <1>1!1 /\ <1>1!2 /\ <1>1!3
    <3>1. noteRows[n].on \in BOOLEAN BY DEF NotesIInv, Item
    <3>2. PICK b \in BOOLEAN : b = noteRows[n].on BY <3>1
    <3>3. [item EXCEPT !.on = b] \in Item BY DEF Item
    <3>4. noteRows' = [noteRows EXCEPT ![n] = [item EXCEPT !.on = b]] BY <2>2, <3>2 DEF UpdateNote
    <3>5. QED BY <2>2, <3>3, <3>4 DEF UpdateNote, NotesIInv
  <2>3. ASSUME NEW n \in DOMAIN noteRows, DeleteNote(n)
        PROVE  <1>1!1 /\ <1>1!2 /\ <1>1!3
    BY <2>3 DEF DeleteNote, NotesIInv
  <2>4. ASSUME NEW n \in DOMAIN noteRows, NEW on \in BOOLEAN, SwitchNote(n, on)
        PROVE  <1>1!1 /\ <1>1!2 /\ <1>1!3
    <3>1. noteRows[n] \in Item BY DEF NotesIInv
    <3>2. [noteRows[n] EXCEPT !.on = on] \in Item BY <3>1 DEF Item
    <3>3. noteRows' = [noteRows EXCEPT ![n] = [noteRows[n] EXCEPT !.on = on]] BY <2>4 DEF SwitchNote
    <3>4. QED BY <2>4, <3>2, <3>3 DEF SwitchNote, NotesIInv
  <2>5. QED BY <2>1, <2>2, <2>3, <2>4
<1>2. QED BY <1>1 DEF NotesIInv

LEMMA SendingKeeps ==
    ASSUME NotesIInv, NEW t \in NoteThreads, NEW s \in Sending, Complete(s),
           sendings' = [sendings EXCEPT ![t] = s],
           UNCHANGED <<noteConfig, noteRows, lastNote, overrides, switched>>
    PROVE  NotesIInv'
BY DEF NotesIInv

LEMMA ThreadsKeep ==
    ASSUME NotesIInv, NEW t \in NoteThreads, NEW event \in NoteEvents, NEW fact \in BOOLEAN,
           Notify(t, event, fact) \/ List(t) \/ Send(t) \/ Dispatched(t)
    PROVE  NotesIInv'
<1>1. CASE Notify(t, event, fact)
  <2>1. [pc |-> "list", event |-> event, fact |-> fact] \in Sending BY DEF Sending, Listing
  <2>2. Complete([pc |-> "list", event |-> event, fact |-> fact]) BY DEF Complete
  <2>3. QED BY <1>1, <2>1, <2>2, SendingKeeps DEF Notify
<1>2. CASE List(t)
  <2> DEFINE s == sendings[t]
             items == OfEvent(s.event)
             left == {<<i.id, u>> : i \in {j \in items : Wanted(j.item, s.fact)}, u \in Services}
                        \cap UNION {{i.id} \X i.item.urls : i \in items}
  <2>1. s \in Listing BY <1>2 DEF List, NotesIInv, Sending, Asleep, Dispatch
  <2>2. PICK e \in NoteEvents, f \in BOOLEAN : e = s.event /\ f = s.fact BY <2>1 DEF Listing
  <2>3. PICK it \in SUBSET Listed : it = items /\ Names(it) BY ListedAreNamed
  <2>4. left = Attempts(it, f) /\ Attempts(it, f) \in SUBSET (Int \X Services)
    BY <2>2, <2>3, AttemptsOfListed
  <2> HIDE DEF left
  <2>5. PICK l \in SUBSET (Int \X Services) : l = left BY <2>4
  <2> DEFINE d == [pc |-> "send", event |-> e, fact |-> f, listed |-> it, tried |-> {}, left |-> l]
  <2>6. sendings' = [sendings EXCEPT ![t] = d] BY <1>2, <2>2, <2>3, <2>5 DEF List, left
  <2>7. d \in Sending BY DEF Sending, Dispatch
  <2>8. Complete(d) BY <2>4, <2>5 DEF Complete
  <2> HIDE DEF d
  <2>9. QED BY <1>2, <2>6, <2>7, <2>8, SendingKeeps DEF List
<1>3. CASE Send(t)
  <2>1. sendings[t] \in Dispatch /\ Complete(sendings[t])
    <3>1. sendings[t] \in Sending /\ Complete(sendings[t]) BY DEF NotesIInv
    <3>2. sendings[t].pc = "send" BY <1>3 DEF Send
    <3>3. QED BY <3>1, <3>2 DEF Sending, Asleep, Listing
  <2>2. PICK one \in sendings[t].left :
          sendings' = [sendings EXCEPT ![t] = [sendings[t] EXCEPT !.left = @ \ {one}, !.tried = @ \cup {one}]]
    BY <1>3 DEF Send, AfterSend
  <2> DEFINE d == [sendings[t] EXCEPT !.left = @ \ {one}, !.tried = @ \cup {one}]
  <2>3. /\ d \in Dispatch /\ d.pc = "send" /\ d.listed = sendings[t].listed /\ d.fact = sendings[t].fact
        /\ d.left = sendings[t].left \ {one} /\ d.tried = sendings[t].tried \cup {one}
    BY <2>1, <2>2 DEF Dispatch
  <2> HIDE DEF d
  <2>4. sendings[t].pc = "send" BY <2>1 DEF Dispatch
  <2>5. Complete(d) BY <2>1, <2>2, <2>3, <2>4 DEF Complete
  <2>6. sendings' = [sendings EXCEPT ![t] = d] BY <2>2 DEF d
  <2>7. QED BY <1>3, <2>3, <2>5, <2>6, SendingKeeps DEF Send, Sending
<1>4. CASE Dispatched(t)
  <2>1. Asleep \in Sending /\ Complete(Asleep) BY DEF Sending, Complete, Asleep
  <2>2. QED BY <1>4, <2>1, SendingKeeps DEF Dispatched
<1>5. QED BY <1>1, <1>2, <1>3, <1>4

LEMMA NotesInduction == NotesIInv /\ [NotesNext]_noteVars => NotesIInv'
<1> SUFFICES ASSUME NotesIInv, [NotesNext]_noteVars PROVE NotesIInv' OBVIOUS
<1>1. ASSUME NEW item \in Item, AddNote(item) \/ \E n \in DOMAIN noteRows : UpdateNote(n, item)
      PROVE  NotesIInv'
  BY <1>1, TableKeeps
<1>2. ASSUME NEW n \in DOMAIN noteRows, DeleteNote(n) \/ \E on \in BOOLEAN : SwitchNote(n, on)
      PROVE  NotesIInv'
  <2>1. noteRows[n] \in Item BY DEF NotesIInv
  <2>2. QED BY <1>2, <2>1, TableKeeps
<1>3. ASSUME NEW place \in DOMAIN noteConfig, NEW on \in BOOLEAN, SwitchConfig(place, on)
      PROVE  NotesIInv'
  BY <1>3, SwitchesKeep
<1>4. ASSUME NEW config \in NoteConfigs, RestartNotes(config) PROVE NotesIInv'
  <2>1. config \in Seq(Item) BY NotesAssumption
  <2>2. sendings' \in [NoteThreads -> Sending] /\ \A t \in NoteThreads : sendings'[t] = Asleep
    BY <1>4 DEF RestartNotes, Sending
  <2>3. Complete(Asleep) BY DEF Complete, Asleep
  <2>4. QED BY <1>4, <2>1, <2>2, <2>3 DEF RestartNotes, NotesIInv
<1>5. ASSUME NEW t \in NoteThreads, NEW event \in NoteEvents, NEW fact \in BOOLEAN, Notify(t, event, fact)
      PROVE  NotesIInv'
  BY <1>5, ThreadsKeep
<1>6. ASSUME NEW t \in NoteThreads, List(t) \/ Send(t) \/ Dispatched(t) PROVE NotesIInv'
  <2>1. sendings[t].pc # "none" /\ sendings[t] \in Sending BY <1>6 DEF List, Send, Dispatched, NotesIInv
  <2>2. \E event \in NoteEvents : TRUE BY <2>1 DEF Sending, Asleep, Listing, Dispatch
  <2>3. QED BY <1>6, <2>2, ThreadsKeep
<1>7. CASE UNCHANGED noteVars BY <1>7 DEF noteVars, NotesIInv
<1>8. QED BY <1>1, <1>2, <1>3, <1>4, <1>5, <1>6, <1>7 DEF NotesNext

(* Whatever is edited, switched, restarted or sent at once: a notification  *)
(* of the file is on as it was switched last (toggle_enabled() keeps it by  *)
(* event and URLs), and each dispatch of _send_all() ends with exactly the  *)
(* attempts that its list called for.                                       *)
THEOREM NotesAreKept == NotesSpec => []NotesHold
<1>1. NotesSpec => []NotesIInv BY NotesStart, NotesInduction, PTL DEF NotesSpec
<1>2. NotesIInv => NotesHold
  <2> SUFFICES ASSUME NotesIInv PROVE NotesHold OBVIOUS
  <2>1. SwitchStays BY DEF NotesIInv, SwitchStays, Enabled, Key
  <2>2. AllTried BY DEF NotesIInv, AllTried, Complete, Attempts
  <2>3. QED BY <2>1, <2>2 DEF NotesHold
<1>3. QED BY <1>1, <1>2, PTL

-----------------------------------------------------------------------------
(***************************************************************************)
(* The saved play queue. What a reader has taken is of two saves, each of  *)
(* which the invariant knows: when they are one, the songs that were read  *)
(* are those the save named its current song among.                        *)
(***************************************************************************)

MaybeSong == QueueSongs \cup {NoCurrent}
QueueRow  == [there : BOOLEAN, current : MaybeSong, save : Nat, named : BOOLEAN]

QueueReads ==
    [pc : {"idle"}]
    \cup [pc : {"entries"}, row : QueueRow]
    \cup [pc : {"resolve"}, row : QueueRow, songs : Seq(QueueSongs), of : Nat]
    \cup [pc : {"answered"}, found : Seq(QueueSongs), index : Int]

QueueTypes ==
    /\ entries \in Seq(QueueSongs) /\ queueRow \in QueueRow
    /\ saves \in Nat /\ savedBy \in Nat
    /\ reading \in [QueueReaders -> QueueReads]

(* What a row says of the songs of the save n: they are of that save or a   *)
(* later one, and have the current song if they are of that one.            *)
Fits(row, songs, n) ==
    row.save <= n /\ (row.save = n /\ row.named => row.current \in ToSet(songs))

QueueFits ==
    /\ savedBy <= saves
    /\ queueRow.there => Fits(queueRow, entries, savedBy)
    /\ \A r \in QueueReaders :
         /\ reading[r].pc = "entries" => entries = << >> \/ Fits(reading[r].row, entries, savedBy)
         /\ reading[r].pc = "entries" => reading[r].row.save <= savedBy
         /\ reading[r].pc = "resolve" => Fits(reading[r].row, reading[r].songs, reading[r].of)

PQInv == QueueTypes /\ QueueFits

LEMMA ResolvedType ==
    ASSUME NEW songs \in Seq(QueueSongs)
    PROVE  /\ ResolvedSongs(songs) \in Seq(QueueSongs)
           /\ \A x \in ToSet(songs) \cap library : x \in ToSet(ResolvedSongs(songs))
<1> DEFINE I == {i \in DOMAIN songs : songs[i] \in library}
<1>1. Kept(songs, I) \in Seq(QueueSongs) BY KeptOf
<1>2. ToSet(Kept(songs, I)) = {songs[i] : i \in I \cap DOMAIN songs} BY KeptElements
<1>3. \A x \in ToSet(songs) \cap library : \E i \in I \cap DOMAIN songs : songs[i] = x BY DEF ToSet
<1>4. QED BY <1>1, <1>2, <1>3 DEF ResolvedSongs

(* The last place of a song that is there exists, and Index is it.          *)
LEMMA IndexIsLast ==
    ASSUME NEW songs, NEW found \in Seq(QueueSongs), NEW current
    PROVE  /\ Index(songs, found, current) \in Int
           /\ (\E i \in 1..Len(found) : found[i] = current) =>
                 /\ Index(songs, found, current) <= Len(found)
                 /\ found[Index(songs, found, current)] = current
<1> DEFINE J == {i \in 1..Len(found) : found[i] = current}
<1>0. Len(found) \in Nat OBVIOUS
<1>1. CASE \E i \in 1..Len(found) : found[i] = current
  <2>1. J \in SUBSET Nat /\ IsFiniteSet(J) /\ J # {}
    <3>1. IsFiniteSet(1..Len(found)) BY <1>0, FS_Interval
    <3>2. IsFiniteSet(J) BY <3>1, FS_Subset
    <3>3. QED BY <1>1, <3>2
  <2>2. PICK i \in J : \A j \in J : j <= i BY <2>1, HasGreatest
  <2>3. i \in 1..Len(found) /\ found[i] = current BY <2>2
  <2>4. \A j \in (i + 1)..Len(found) : found[j] # current
    <3>1. ASSUME NEW j \in (i + 1)..Len(found), found[j] = current PROVE FALSE
      <4>1. j \in 1..Len(found) /\ ~(j <= i) BY <1>0, <2>3
      <4>2. j \in J BY <3>1, <4>1
      <4>3. QED BY <2>2, <4>1, <4>2
    <3>2. QED BY <3>1
  <2>5. Index(songs, found, current) \in 1..Len(found) /\ found[Index(songs, found, current)] = current
    BY <1>1, <2>3, <2>4 DEF Index
  <2>6. QED BY <1>0, <2>5
<1>2. CASE ~\E i \in 1..Len(found) : found[i] = current
  BY <1>2 DEF Index
<1>3. QED BY <1>1, <1>2

LEMMA QueueStarts == QueueInit => PQInv
<1> SUFFICES ASSUME QueueInit PROVE PQInv OBVIOUS
<1>1. QueueTypes
  BY DEF QueueInit, QueueTypes, NoRow, NotReading, QueueReads, QueueRow, MaybeSong
<1>2. QueueFits BY DEF QueueInit, QueueFits, NoRow, NotReading
<1>3. QED BY <1>1, <1>2 DEF PQInv

LEMMA SavedKeeps ==
    ASSUME PQInv, NEW songs \in Seq(QueueSongs), NEW current \in MaybeSong, NEW named \in BOOLEAN,
           StoreQueue(current, songs, named), named => current \in ToSet(songs)
    PROVE  PQInv'
<1> DEFINE row == [there |-> TRUE, current |-> current, save |-> saves + 1, named |-> named]
<1>1. /\ queueRow' = row /\ entries' = songs /\ savedBy' = saves + 1 /\ saves' = saves + 1
      /\ reading' = reading
  BY DEF StoreQueue
<1>2. saves \in Nat /\ savedBy \in Nat /\ savedBy <= saves BY DEF PQInv, QueueTypes, QueueFits
<1>3. QueueTypes'
  <2>1. row \in QueueRow BY <1>2 DEF QueueRow
  <2>2. QED BY <1>1, <1>2, <2>1 DEF PQInv, QueueTypes
<1>4. Fits(row, songs, saves + 1) BY <1>2 DEF Fits
<1>5. ASSUME NEW r \in QueueReaders, reading[r].pc = "entries"
      PROVE  Fits(reading[r].row, songs, saves + 1) /\ reading[r].row.save <= saves + 1
  <2>1. reading[r].row \in QueueRow BY <1>5 DEF PQInv, QueueTypes, QueueReads
  <2>2. reading[r].row.save \in Nat /\ reading[r].row.save <= savedBy
    BY <1>5, <2>1 DEF PQInv, QueueFits, QueueRow
  <2>3. reading[r].row.save < saves + 1 BY <1>2, <2>2
  <2>4. QED BY <1>2, <2>2, <2>3 DEF Fits
<1> HIDE DEF row
<1>6. QueueFits'
  <2>1. queueRow'.there => Fits(queueRow, entries, savedBy)' BY <1>1, <1>4 DEF Fits
  <2>2. savedBy' <= saves' BY <1>1, <1>2
  <2>3. ASSUME NEW r \in QueueReaders
        PROVE  /\ reading'[r].pc = "entries" => entries' = << >> \/ Fits(reading'[r].row, entries', savedBy')
               /\ reading'[r].pc = "entries" => reading'[r].row.save <= savedBy'
               /\ reading'[r].pc = "resolve" => Fits(reading'[r].row, reading'[r].songs, reading'[r].of)
    BY <1>1, <1>5, <2>3 DEF PQInv, QueueFits
  <2>4. QED BY <2>1, <2>2, <2>3 DEF QueueFits, Fits
<1>7. QED BY <1>3, <1>6 DEF PQInv

LEMMA ListsAreSequences == SongLists \subseteq Seq(QueueSongs)
<1>1. ASSUME NEW n \in 0..QueueLength, NEW s \in [1..n -> QueueSongs] PROVE s \in Seq(QueueSongs)
  <2>1. n \in Nat BY QueueAssumption
  <2>2. QED BY <2>1, SeqDef
<1>2. QED BY <1>1 DEF SongLists

LEMMA ReadKeeps ==
    ASSUME PQInv, NEW r \in QueueReaders, ReadQueue(r) \/ ReadEntries(r) \/ EndRead(r)
    PROVE  PQInv'
<1> DEFINE told == IF reading[r].pc = "idle" THEN [pc |-> "entries", row |-> queueRow]
                   ELSE IF reading[r].pc = "entries" /\ entries # << >>
                   THEN [pc |-> "resolve", row |-> reading[r].row, songs |-> entries, of |-> savedBy]
                   ELSE NotReading
<1>1. /\ UNCHANGED <<queueRow, entries, savedBy, saves>> /\ reading' = [reading EXCEPT ![r] = told]
      /\ reading[r].pc = "idle" => queueRow.there
  BY DEF ReadQueue, ReadEntries, EndRead
<1>2. reading[r] \in QueueReads BY DEF PQInv, QueueTypes
<1>3. told \in QueueReads
  <2>1. reading[r].pc = "entries" => reading[r].row \in QueueRow BY <1>2 DEF QueueReads
  <2>2. QED BY <2>1 DEF QueueReads, PQInv, QueueTypes, NotReading
<1>4. told.pc = "entries" => Fits(told.row, entries, savedBy) /\ told.row.save <= savedBy
  BY <1>1 DEF PQInv, QueueFits, NotReading, Fits
<1>5. told.pc = "resolve" => Fits(told.row, told.songs, told.of)
  BY DEF PQInv, QueueFits, NotReading
<1> HIDE DEF told
<1>6. QueueTypes' BY <1>1, <1>3 DEF PQInv, QueueTypes
<1>7. /\ reading'[r] = told
      /\ \A q \in QueueReaders \ {r} : reading'[q] = reading[q]
  BY <1>1 DEF PQInv, QueueTypes
<1>8. QueueFits' BY <1>1, <1>4, <1>5, <1>7 DEF PQInv, QueueFits, Fits
<1>9. QED BY <1>6, <1>8 DEF PQInv

LEMMA AnswerKeeps ==
    ASSUME PQInv, NEW r \in QueueReaders, Answer(r)
    PROVE  PQInv' /\ PointsAtCurrent
<1> DEFINE q == reading[r]
           found == ResolvedSongs(q.songs)
           index == Index(q.songs, found, q.row.current)
           told == [pc |-> "answered", found |-> found, index |-> index]
<1>1. /\ q \in QueueReads /\ q.pc = "resolve" /\ reading' = [reading EXCEPT ![r] = told]
      /\ UNCHANGED <<queueRow, entries, savedBy, library, saves>>
  BY DEF PQInv, QueueTypes, Answer
<1>2. q.row \in QueueRow /\ q.songs \in Seq(QueueSongs) /\ Fits(q.row, q.songs, q.of)
  BY <1>1 DEF QueueReads, PQInv, QueueFits
<1>3. found \in Seq(QueueSongs) /\ \A x \in ToSet(q.songs) \cap library : x \in ToSet(found)
  BY <1>2, ResolvedType
<1> HIDE DEF found
<1>4. /\ index \in Int
      /\ (\E i \in 1..Len(found) : found[i] = q.row.current) =>
            index <= Len(found) /\ found[index] = q.row.current
  BY <1>3, IndexIsLast
<1>5. told \in QueueReads /\ told.pc = "answered" BY <1>3, <1>4 DEF QueueReads
<1>6. q.row.save = q.of /\ q.row.named /\ q.row.current \in library =>
         index <= Len(found) /\ found[index] = q.row.current
  <2> SUFFICES ASSUME q.row.save = q.of, q.row.named, q.row.current \in library
               PROVE  \E i \in 1..Len(found) : found[i] = q.row.current
    BY <1>4
  <2>1. q.row.current \in ToSet(found) BY <1>2, <1>3 DEF Fits
  <2>2. DOMAIN found = 1..Len(found) BY <1>3
  <2>3. QED BY <2>1, <2>2 DEF ToSet
<1>7. told.found = found /\ told.index = index OBVIOUS
<1> HIDE DEF told, index
<1>8. reading'[r] = told /\ \A p \in QueueReaders \ {r} : reading'[p] = reading[p]
  BY <1>1 DEF PQInv, QueueTypes
<1>9. PointsAtCurrent
  <2> SUFFICES ASSUME NEW p \in QueueReaders, reading[p].pc = "resolve", reading'[p].pc = "answered"
               PROVE  /\ reading[p].row.save <= reading[p].of
                      /\ reading[p].row.save = reading[p].of /\ reading[p].row.named
                            /\ reading[p].row.current \in library =>
                         /\ reading'[p].index <= Len(reading'[p].found)
                         /\ reading'[p].found[reading'[p].index] = reading[p].row.current
    BY DEF PointsAtCurrent
  <2>1. p = r BY <1>8
  <2>2. QED BY <1>2, <1>6, <1>7, <1>8, <2>1 DEF Fits
<1>10. PQInv'
  <2>1. QueueTypes' BY <1>1, <1>5 DEF PQInv, QueueTypes
  <2>2. QueueFits' BY <1>1, <1>5, <1>8 DEF PQInv, QueueFits, Fits
  <2>3. QED BY <2>1, <2>2 DEF PQInv
<1>11. QED BY <1>9, <1>10

LEMMA QueueStep ==
    ASSUME PQInv, [QueueNext]_queueVars PROVE PQInv' /\ PointsAtCurrent
<1>1. ASSUME NEW songs \in SongLists, NEW current \in MaybeSong, Save(songs, current) PROVE PQInv'
  <2>1. songs \in Seq(QueueSongs) BY ListsAreSequences
  <2>2. /\ ResolvedSongs(songs) \in Seq(QueueSongs)
        /\ \A x \in ToSet(songs) \cap library : x \in ToSet(ResolvedSongs(songs))
    BY <2>1, ResolvedType
  <2>3. CASE current \in library
    <3>1. StoreQueue(current, ResolvedSongs(songs), current \in ToSet(songs)) BY <1>1, <2>3 DEF Save
    <3>2. (current \in ToSet(songs)) \in BOOLEAN OBVIOUS
    <3>3. QED BY <2>2, <2>3, <3>1, <3>2, SavedKeeps
  <2>4. CASE current \notin library
    <3>1. StoreQueue(NoCurrent, ResolvedSongs(songs), FALSE) BY <1>1, <2>4 DEF Save
    <3>2. QED BY <2>2, <3>1, SavedKeeps DEF MaybeSong
  <2>5. QED BY <2>3, <2>4
<1>2. ASSUME NEW songs \in SongLists, NEW index \in 1..QueueLength, SaveByIndex(songs, index) PROVE PQInv'
  <2>1. songs \in Seq(QueueSongs) BY ListsAreSequences
  <2>2. ResolvedSongs(songs) \in Seq(QueueSongs) BY <2>1, ResolvedType
  <2>3. index \in 1..Len(ResolvedSongs(songs)) BY <1>2, <2>1, <2>2 DEF SaveByIndex
  <2>4. ResolvedSongs(songs)[index] \in MaybeSong BY <2>2, <2>3 DEF MaybeSong
  <2>5. ResolvedSongs(songs)[index] \in ToSet(ResolvedSongs(songs)) BY <2>2, <2>3 DEF ToSet
  <2>6. QED BY <1>2, <2>2, <2>4, <2>5, SavedKeeps DEF SaveByIndex
<1>3. ASSUME ClearQueue PROVE PQInv'
  <2>1. QueueTypes' BY <1>3 DEF PQInv, QueueTypes, ClearQueue, NoRow, QueueRow, MaybeSong
  <2>2. QueueFits' BY <1>3 DEF PQInv, QueueFits, ClearQueue, NoRow, Fits
  <2>3. QED BY <2>1, <2>2 DEF PQInv
<1>4. ASSUME (\E s \in QueueSongs : Absent(s)) \/ UNCHANGED queueVars PROVE PQInv'
  <2>1. UNCHANGED <<queueRow, entries, savedBy, reading, saves>> BY <1>4 DEF Absent, queueVars
  <2>2. QED BY <2>1 DEF PQInv, QueueTypes, QueueFits, Fits
<1>5. CASE \E r \in QueueReaders : Answer(r) BY <1>5, AnswerKeeps
<1>6. CASE ~\E r \in QueueReaders : Answer(r)
  <2>1. PQInv' BY <1>1, <1>2, <1>3, <1>4, <1>6, ReadKeeps DEF QueueNext, MaybeSong
  <2>2. ASSUME NEW r \in QueueReaders, reading[r].pc = "resolve", reading'[r].pc = "answered" PROVE FALSE
    <3>1. CASE reading' = reading BY <2>2, <3>1
    <3>2. ASSUME NEW q \in QueueReaders, ReadQueue(q) \/ ReadEntries(q) \/ EndRead(q) PROVE FALSE
      <4>1. q # r => reading'[r] = reading[r]
        BY <3>2 DEF ReadQueue, ReadEntries, EndRead, PQInv, QueueTypes
      <4>2. q # r BY <2>2, <3>2 DEF ReadQueue, ReadEntries, EndRead
      <4>3. QED BY <2>2, <4>1, <4>2
    <3>3. QED BY <1>6, <3>1, <3>2 DEF QueueNext, Save, SaveByIndex, StoreQueue, ClearQueue, Absent, queueVars
  <2>3. QED BY <2>1, <2>2 DEF PointsAtCurrent
<1>7. QED BY <1>5, <1>6

(* Whatever players save and whichever songs leave or come back, an answer  *)
(* never has songs of an earlier save than its current song, and its index  *)
(* names that song if both are of one save that named it and it is in the   *)
(* library (endpoint_get_play_queue_by_index).                              *)
THEOREM IndexesAreRight == QueueSpec => IndexReturned
<1>1. QueueSpec => []PQInv BY QueueStarts, QueueStep, PTL DEF QueueSpec
<1>2. QED BY <1>1, QueueStep, PTL DEF QueueSpec, IndexReturned

=============================================================================
