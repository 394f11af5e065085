------------------------------ MODULE LibraryIndex ------------------------------
(***************************************************************************)
(* How a client's id finds its song or album in the beets library          *)
(* (core/library/resolve.py): by a MusicBrainz id with a query, by a hash,  *)
(* or one of a list of ids, in an index of the library (indexes.py).  An    *)
(* index is built once for all requests and kept in a cache that empties    *)
(* itself when the library's files have another time than it knows          *)
(* (utils/db.py).  A request reads that time, takes its part of the cache,  *)
(* looks into it, and may build, in four steps; beets, or another program,  *)
(* writes the library between any two of them.                              *)
(***************************************************************************)
EXTENDS Integers, Sequences

CONSTANTS
    Mbids, Hashes,              \* MusicBrainz ids; hashes of paths or titles
    IndexThreads, NoThread,
    NotBuilt, NoEntry,
    EntriesMax, IndexBudget     \* bounds: ids of beets; writes and requests together

Entry == [mbids : SUBSET Mbids, hash : Hashes]
Rows  == UNION {[ids -> Entry] : ids \in SUBSET (1..EntriesMax)}

(* An index is what the rows were when it was built, at a version.          *)
IndexOfRows == [at : Nat, rows : Rows]

ASSUME IndexAssumption ==
    EntriesMax \in Nat /\ IndexBudget \in Nat /\ NoThread \notin IndexThreads

VARIABLES
    table,      \* what is looked up: "items" or "albums"
    entries,    \* the rows of the library, by their beets id
    version,    \* (history) how often it was written
    opened,     \* (history) per time the files have had, the first version with it
    buckets,    \* the dicts ever handed out, each with the time it was handed out for
    newest,     \* the one the cache has now, 0 for none
    builder,    \* BuildOnce._lock
    built,      \* the index that its holder has built
    lookup,     \* what each request thread is doing
    asks

indexVars == <<table, entries, version, opened, buckets, newest, builder, built, lookup, asks>>

\* The time of the library's files: which of their times it is.
Mtime == Len(opened)

Keys == Mbids \cup Hashes

Bucket == [stamp : Nat, index : {NotBuilt} \cup IndexOfRows]

\* `since` and `stamp`: version and time when the request came; `at`: the
\* version of the rows that led to `id`.
Lookup == [pc : {"idle", "stamped", "looks", "waits", "builds", "built", "loads", "answered"},
           key : Keys \cup {NoEntry}, since : Nat, stamp : Nat, bucket : Nat,
           at : Nat, id : Nat \cup {NoEntry}]

Unasked == [pc |-> "idle", key |-> NoEntry, since |-> 0, stamp |-> 1, bucket |-> 0,
             at |-> 0, id |-> NoEntry]

IndexInit ==
    /\ table \in {"items", "albums"} /\ entries \in Rows
    /\ version = 0 /\ opened = <<0>>
    /\ buckets = << >> /\ newest = 0 /\ builder = NoThread /\ built = NotBuilt
    /\ lookup = [t \in IndexThreads |-> Unasked] /\ asks = 0

-----------------------------------------------------------------------------
(* The ids a key leads to in the rows.  An album with a MusicBrainz id is   *)
(* not found by its hash (AlbumHashIndex).                                  *)
Named(tab, rows, k) ==
    {i \in DOMAIN rows : \/ k \in rows[i].mbids
                         \/ k = rows[i].hash /\ (tab = "albums" => rows[i].mbids = {})}

(* "Lowest beets ID wins", in an index and in a query of the whole table.   *)
Found(tab, rows, k) ==
    IF Named(tab, rows, k) = {} THEN NoEntry
    ELSE CHOOSE i \in Named(tab, rows, k) : \A j \in Named(tab, rows, k) : i <= j

-----------------------------------------------------------------------------
AtPc(t, pc) == lookup[t].pc = pc
Go(t, l)    == lookup' = [lookup EXCEPT ![t] = l]

(* A request for a key begins.  One MusicBrainz id is queried for, anything *)
(* else needs the index: _library_stamp() reads the time of the files.      *)
Ask(t, k, batch) ==
    /\ lookup[t].pc \in {"idle", "answered"} /\ (batch => table = "items")
    /\ asks + version < IndexBudget /\ asks' = asks + 1
    /\ LET l == [Unasked EXCEPT !.key = k, !.since = version, !.stamp = Mtime]
       IN  Go(t, IF k \in Mbids /\ ~batch
                 THEN [l EXCEPT !.pc = "loads", !.at = version, !.id = Found(table, entries, k)]
                 ELSE [l EXCEPT !.pc = "stamped"])
    /\ UNCHANGED <<table, entries, version, opened, buckets, newest, builder, built>>

(* Mutant of Current: what is cached is never dropped.                      *)
CurrentForever(stamp) == newest # 0

(* _sync(): what is cached for another time is dropped.                     *)
Current(stamp) == newest # 0 /\ buckets[newest].stamp = stamp

(* SchemaCache.bucket(), under its lock.                                    *)
TakeBucket(t) ==
    /\ AtPc(t, "stamped")
    /\ IF Current(lookup[t].stamp) THEN UNCHANGED <<buckets, newest>>
       ELSE /\ buckets' = Append(buckets, [stamp |-> lookup[t].stamp, index |-> NotBuilt])
            /\ newest' = Len(buckets')
    /\ Go(t, [lookup[t] EXCEPT !.pc = "looks", !.bucket = newest'])
    /\ UNCHANGED <<table, entries, version, opened, builder, built, asks>>

Index(t) == buckets[lookup[t].bucket].index

\* The id that an index has for the key, which beets is to load.
ToLoad(t, index) ==
    [lookup[t] EXCEPT !.pc = "loads", !.at = index.at, !.id = Found(table, index.rows, lookup[t].key)]

(* BuildOnce.get(): the first look, without the lock.                       *)
LookFirst(t) ==
    /\ AtPc(t, "looks")
    /\ Go(t, IF Index(t) # NotBuilt THEN ToLoad(t, Index(t)) ELSE [lookup[t] EXCEPT !.pc = "waits"])
    /\ UNCHANGED <<table, entries, version, opened, buckets, newest, builder, built, asks>>

(* ... and the second, with it: another thread may have built the index.    *)
LookAgain(t) ==
    /\ AtPc(t, "waits") /\ builder = NoThread
    /\ IF Index(t) # NotBuilt THEN Go(t, ToLoad(t, Index(t))) /\ UNCHANGED builder
       ELSE Go(t, [lookup[t] EXCEPT !.pc = "builds"]) /\ builder' = t
    /\ UNCHANGED <<table, entries, version, opened, buckets, newest, built, asks>>

(* _build(): one transaction reads the library.                             *)
Build(t) ==
    /\ AtPc(t, "builds") /\ built' = [at |-> version, rows |-> entries]
    /\ Go(t, [lookup[t] EXCEPT !.pc = "built"])
    /\ UNCHANGED <<table, entries, version, opened, buckets, newest, builder, asks>>

(* ... or raises: the request fails, and the next one builds.               *)
BuildFails(t) ==
    /\ AtPc(t, "builds") /\ builder' = NoThread /\ Go(t, Unasked)
    /\ UNCHANGED <<table, entries, version, opened, buckets, newest, built, asks>>

(* The dict the request took gets the index, even when the cache has        *)
(* dropped it meanwhile.                                                    *)
StoreIndex(t) ==
    /\ AtPc(t, "built") /\ builder' = NoThread /\ built' = NotBuilt
    /\ buckets' = [buckets EXCEPT ![lookup[t].bucket].index = built]
    /\ Go(t, ToLoad(t, built))
    /\ UNCHANGED <<table, entries, version, opened, newest, asks>>

(* get_item(), get_album(): an id that is gone resolves to nothing.         *)
Load(t) ==
    /\ AtPc(t, "loads")
    /\ Go(t, [lookup[t] EXCEPT !.pc = "answered",
                               !.id = IF @ \in DOMAIN entries THEN @ ELSE NoEntry])
    /\ UNCHANGED <<table, entries, version, opened, buckets, newest, builder, built, asks>>

-----------------------------------------------------------------------------
(* A write changes the time of the files, unless it follows another so      *)
(* closely that the clock of the file system has not moved.                 *)
Write(rows) ==
    /\ asks + version < IndexBudget /\ version' = version + 1
    /\ entries' = rows
    /\ opened' \in {opened, Append(opened, version + 1)}
    /\ UNCHANGED <<table, buckets, newest, builder, built, lookup, asks>>

(* A row is imported (SQLite gives the highest id again once it is free),   *)
(* removed, or has other tags or another path.                              *)
WriteLibrary ==
    \/ \E i \in 1..EntriesMax, e \in Entry :
          /\ \A j \in DOMAIN entries : j < i
          /\ i = 1 \/ i - 1 \in DOMAIN entries
          /\ Write([j \in DOMAIN entries \cup {i} |-> IF j = i THEN e ELSE entries[j]])
    \/ \E i \in DOMAIN entries : Write([j \in DOMAIN entries \ {i} |-> entries[j]])
    \/ \E i \in DOMAIN entries, e \in Entry : e # entries[i] /\ Write([entries EXCEPT ![i] = e])

IndexNext ==
    \/ WriteLibrary
    \/ \E t \in IndexThreads :
          \/ \E k \in Keys, batch \in BOOLEAN : Ask(t, k, batch)
          \/ TakeBucket(t) \/ LookFirst(t) \/ LookAgain(t) \/ Build(t) \/ BuildFails(t) \/ StoreIndex(t)
          \/ Load(t)

IndexSpec == IndexInit /\ [][IndexNext]_indexVars

-----------------------------------------------------------------------------
(* An index, however long requests were held up and whichever of them built *)
(* it, is not older than the time of the files that the request has read:   *)
(* what was written to the library before is in it.                         *)
FreshIndex ==
    \A t \in IndexThreads :
        lookup[t].pc \in {"loads", "answered"} => lookup[t].at >= opened[lookup[t].stamp]

(* A key leads to the entry it names now, unless the library was written    *)
(* since the request began, or so closely before that the file's time       *)
(* cannot tell.                                                             *)
RightEntry ==
    \A t \in IndexThreads :
        lookup[t].pc = "answered" /\ lookup[t].since = version /\ opened[Mtime] = version =>
            lookup[t].id = Found(table, entries, lookup[t].key)

(* What a lookup promises: both.                                            *)
LookupsHold == FreshIndex /\ RightEntry
=============================================================================
