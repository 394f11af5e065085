----------------------------- MODULE Migrations -----------------------------
(***************************************************************************)
(* The upgrade of the database at a start (core/storage/migrations.py, and *)
(* initialise_db() of schema.py around it).  The connection is in Python's *)
(* legacy transaction mode: a statement that changes rows opens a          *)
(* transaction, one that changes tables does not, and some migrations      *)
(* commit what was pending before a transaction of their own.  Hence mem,  *)
(* what the connection sees, and disk, what a crash leaves.                *)
(* A start has a key and may find the beets library or not; between two    *)
(* starts the server or the command line changes passwords.                *)
(***************************************************************************)
EXTENDS Integers, FiniteSets

CONSTANTS
    Accounts,     \* the users of the old database
    OldKey,       \* the key it was made with
    OtherKey,     \* another one
    OldVersions,  \* the versions it may have
    Keyed,        \* those of the users with an API key
    OldSongs,     \* row ids of the beets library, which the old rows are keyed by
    OldAlbums,
    StableIds,    \* the ids derived from the songs and albums themselves
    NoLonger      \* for what the library does not have any more

VARIABLES disk, mem, migPc, curr, run, failure

migVars == <<disk, mem, migPc, curr, run, failure>>

Latest    == 11

(* migPc is 1..Latest while a migration is considered, or one of these.      *)
Off       == 0
Finishing == Latest + 1
Deferred  == Latest + 2
Up        == Latest + 3

ASSUME MigAssumption ==
    /\ OldVersions \subseteq 0..Latest /\ OldKey # OtherKey /\ Keyed \subseteq Accounts
    /\ NoLonger \notin StableIds /\ IsFiniteSet(OldSongs)
    /\ OldSongs \cap OldAlbums = {} /\ (OldSongs \cup OldAlbums) \cap StableIds = {}

(* The tables or columns that a migration changes one statement at a time.  *)
Parts(n) == IF n = 10 THEN 3 ELSE IF n = 11 THEN 2 ELSE 1

MarkedAs(db, n)  == [db EXCEPT !.shape[n] = Parts(n)]
Stamped(db, n) == [db EXCEPT !.version = n]

(* A database of version v.  That chat_messages has no foreign key is       *)
(* checked whatever the version says.                                       *)
OfVersion(v, chat, liked) ==
    [version  |-> v, keyHash |-> OldKey,
     shape    |-> [n \in 1..Latest |-> IF n = 4 /\ v >= 4 THEN chat
                                       ELSE IF n <= v THEN Parts(n) ELSE 0],
     shared   |-> v < 6,
     stations |-> [u \in Accounts |-> IF v < 6 THEN 0 ELSE 1],
     column   |-> v < 8,
     keys     |-> IF v < 7 THEN Keyed ELSE {},
     apps     |-> IF v < 7 THEN {} ELSE Keyed,
     hashed   |-> IF v < 8 THEN {} ELSE Accounts,
     plays    |-> [i \in OldSongs \cup StableIds |-> IF i \in OldSongs /\ v < 3 THEN 1 ELSE 0],
     likes    |-> (IF v < 3 THEN OldSongs ELSE {}) \cup (IF v < 5 THEN OldAlbums ELSE {})
                     \cup liked]

MigInit ==
    /\ \E v \in OldVersions, chat \in 0..1, liked \in SUBSET StableIds :
          disk = OfVersion(v, chat, liked)
    /\ \E ids \in [OldSongs \cup OldAlbums -> StableIds \cup {NoLonger}] :
          run = [key |-> OldKey, beets |-> FALSE, ids |-> ids, oldest |-> disk.version]
    /\ mem = disk /\ migPc = Off /\ curr = disk.version /\ failure = "none"

-----------------------------------------------------------------------------
Start(key, beets) ==
    /\ migPc = Off
    /\ migPc' = 1 /\ mem' = disk /\ curr' = disk.version /\ failure' = "none"
    /\ run' = [run EXCEPT !.key = key, !.beets = beets]
    /\ UNCHANGED disk

At(n)    == migPc = n
Due(n)   == curr < n \/ (n = 4 /\ mem.shape[4] = 0)
Reach(n) == curr' = IF curr < n THEN n ELSE curr
Go(n)    == migPc' = n /\ UNCHANGED <<run, failure>>

RefusedStart(why) == migPc' = Off /\ failure' = why /\ UNCHANGED <<curr, run>>

Skip == \E n \in 1..Latest : At(n) /\ ~Due(n) /\ Go(n + 1) /\ UNCHANGED <<disk, mem, curr>>

(* now_playing is dropped, then the version is written.                     *)
DropNowPlaying ==
    /\ At(1) /\ Due(1) /\ Reach(1) /\ Go(2)
    /\ disk' = MarkedAs(disk, 1)
    /\ mem' = Stamped(MarkedAs(mem, 1), 1)

(* _rebuild_play_queue_entries(), _rebuild_chat_messages(): what is pending *)
(* is committed, the table is rebuilt in a transaction, and the new version *)
(* is left pending.                                                         *)
Rebuild(n) ==
    /\ n \in {2, 4} /\ At(n) /\ Due(n) /\ Reach(n) /\ Go(n + 1)
    /\ disk' = MarkedAs(mem, n)
    /\ mem' = IF curr < n THEN Stamped(MarkedAs(mem, n), n) ELSE MarkedAs(mem, n)

Found(i) == run.ids[i] # NoLonger

(* Mutant of Plays: of two songs with the same stable id one counts.        *)
PlaysOfOne(db) ==
    [i \in OldSongs \cup StableIds |->
        IF \E o \in OldSongs : run.ids[o] = i THEN 1 ELSE 0]

(* The counts of songs that get the same stable id are added; those of      *)
(* songs no longer there are dropped.                                       *)
Plays(db) ==
    [i \in OldSongs \cup StableIds |->
        Cardinality(UNION {{o} \X (1..db.plays[o]) : o \in {p \in OldSongs : run.ids[p] = i}})]

(* Likes, ratings and share entries follow, one row for one stable id; what *)
(* is no longer there keeps its row.                                        *)
Likes(db, old) ==
    (db.likes \ {i \in old : Found(i)}) \cup {run.ids[i] : i \in {j \in old \cap db.likes : Found(j)}}

Rekeyed(db, n) ==
    IF n = 3 THEN [db EXCEPT !.plays = Plays(db), !.likes = Likes(db, OldSongs)]
    ELSE [db EXCEPT !.likes = Likes(db, OldAlbums)]

(* _migrate_to_stable_song_ids() and _album_ids() need the beets library;   *)
(* their version is part of their transaction.                              *)
MigrateIds(n) ==
    /\ n \in {3, 5} /\ At(n) /\ Due(n) /\ run.beets
    /\ disk' = Stamped(MarkedAs(Rekeyed(mem, n), n), n) /\ mem' = disk'
    /\ Reach(n) /\ Go(n + 1)

MigrateIdsFail(n) ==
    /\ n \in {3, 5} /\ At(n) /\ Due(n) /\ run.beets
    /\ disk' = mem /\ RefusedStart("beets") /\ UNCHANGED mem

Defer(n) ==
    /\ n \in {3, 5} /\ At(n) /\ Due(n) /\ ~run.beets
    /\ Go(Deferred) /\ UNCHANGED <<disk, mem, curr>>

(* _make_radios_per_user()                                                  *)
PerUser(db) ==
    [db EXCEPT !.stations = [u \in Accounts |-> @[u] + IF db.shared THEN 1 ELSE 0],
               !.shared = FALSE]

RadiosPerUser ==
    /\ At(6) /\ Due(6) /\ mem' = MarkedAs(PerUser(mem), 6)
    /\ Reach(6) /\ Go(7) /\ UNCHANGED disk

(* The API key of a user becomes an app password.                           *)
Moved(db) == [db EXCEPT !.apps = @ \cup db.keys, !.keys = {}]

AppPasswordsFromKeys ==
    /\ At(7) /\ Due(7) /\ UNCHANGED disk
    /\ IF mem.column THEN mem' = MarkedAs(Moved(mem), 7) /\ Reach(7) /\ Go(8)
       ELSE UNCHANGED mem /\ RefusedStart("no such column")

Convertible(db, key) == db.hashed = Accounts \/ key = OldKey

(* _oneway_hashes()                                                         *)
OnewayHashes ==
    /\ At(8) /\ Due(8)
    /\ IF Convertible(mem, run.key)
       THEN /\ disk' = MarkedAs([mem EXCEPT !.hashed = Accounts, !.column = FALSE], 8)
            /\ mem' = disk' /\ Reach(8) /\ Go(9)
       ELSE disk' = mem /\ RefusedStart("password") /\ UNCHANGED mem

(* Columns of notifications, shares and artist_images, one ALTER at a time. *)
AddColumn(n) ==
    /\ n \in 9..Latest /\ At(n) /\ Due(n)
    /\ LET all == mem.shape[n] = Parts(n) IN
       /\ disk' = IF all THEN disk ELSE [mem EXCEPT !.shape[n] = @ + 1]
       /\ mem' = IF all THEN mem ELSE disk'
       /\ IF all THEN Reach(n) /\ Go(n + 1) ELSE UNCHANGED <<curr, migPc, run, failure>>

(* The version that apply_db_migrations() leaves.                           *)
FinalStep(db) == IF migPc = Deferred THEN db ELSE Stamped(db, curr)

(* The rest of initialise_db(): the key is checked, then all is committed.  *)
Finish ==
    /\ migPc \in {Finishing, Deferred}
    /\ IF run.key = mem.keyHash
       THEN /\ disk' = FinalStep(mem) /\ mem' = disk' /\ migPc' = Up
            /\ UNCHANGED <<curr, run, failure>>
       ELSE RefusedStart("key") /\ UNCHANGED <<disk, mem>>

-----------------------------------------------------------------------------
(* A crash before the end of a start, and the end of the process.           *)
Halt ==
    /\ migPc # Off
    /\ migPc' = Off /\ UNCHANGED <<disk, mem, curr, run, failure>>

(* A user gets a new password: it is hashed, whatever the version.          *)
SetPassword(u) ==
    /\ migPc = Up /\ u \notin disk.hashed
    /\ disk' = [disk EXCEPT !.hashed = @ \cup {u}] /\ mem' = disk'
    /\ UNCHANGED <<migPc, curr, run, failure>>

MigNext ==
    \/ \E key \in {OldKey, OtherKey}, beets \in BOOLEAN : Start(key, beets)
    \/ Skip \/ DropNowPlaying \/ RadiosPerUser \/ AppPasswordsFromKeys \/ OnewayHashes
    \/ \E n \in {2, 4} : Rebuild(n)
    \/ \E n \in {3, 5} : MigrateIds(n) \/ MigrateIdsFail(n) \/ Defer(n)
    \/ \E n \in 9..Latest : AddColumn(n)
    \/ Finish \/ Halt
    \/ \E u \in Accounts : SetPassword(u)

MigSpec == MigInit /\ [][MigNext]_migVars

-----------------------------------------------------------------------------
(* Every API key of the old database is a user's column or an app password, *)
(* wherever an upgrade was cut off and however often it is begun again.     *)
KeysKept == Keyed \subseteq disk.keys \cup disk.apps

(* The stations all users shared are shared still, or each user has them,   *)
(* once: an upgrade that is repeated does not copy them again.              *)
StationsOnce == \A u \in Accounts : disk.stations[u] = IF disk.shared THEN 0 ELSE 1

(* The version on disk never runs ahead of the tables: a migration that was *)
(* deferred, cut off or refused is still due at the next start.             *)
VersionTrue == \A n \in 1..Latest : n # 4 /\ n <= disk.version => disk.shape[n] = Parts(n)

(* What users did with a song follows it to its stable id: every play of a  *)
(* song the library still has is counted there, once, and what was liked    *)
(* is liked under the stable id, or as it was when there is none.           *)
RowsFollow ==
    /\ run.oldest < 3 /\ disk.version >= 3 =>
          \A i \in StableIds : disk.plays[i] = Cardinality({o \in OldSongs : run.ids[o] = i})
    /\ \A o \in OldSongs \cup OldAlbums :
          disk.version >= (IF o \in OldSongs THEN 3 ELSE 5) /\ run.oldest < 3 =>
             (IF Found(o) THEN run.ids[o] ELSE o) \in disk.likes

(* What an upgrade promises: all of them hold.                              *)
UpgradeHolds == KeysKept /\ StationsOnce /\ VersionTrue /\ RowsFollow
=============================================================================
