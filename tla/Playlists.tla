------------------------------ MODULE Playlists ------------------------------
(***************************************************************************)
(* Playlists and their m3u files (core/services/playlists.py).  Rows are   *)
(* edited in transactions; each edit arms a timer, and the timer's thread  *)
(* writes the file a second later, outside any transaction: it reads the   *)
(* row, chooses a place, replaces the file there, removes the old one and  *)
(* records the place in the row.  The directories of other programs are    *)
(* mirrored the other way, by a pass over their files (sync_sources).      *)
(*                                                                         *)
(* A transaction is a step, and so is each access of the file system.      *)
(***************************************************************************)
EXTENDS Integers, FiniteSets, SequencesExt

CONSTANTS
    Users, Names,
    Threads,        \* bound: exports running at once, besides the exit's
    MaxIds,         \* bound: rows of playlists ever inserted
    Configurations  \* the directories that may be configured, each with the
                    \* bounds of its behaviours: rows inserted, edits and
                    \* deletions by users, changes of files by other
                    \* programs, and faults (exports that fail, exits and
                    \* crashes of the process)

NoUser == "nobody"
None   == <<"none">>
Main   == 0         \* the thread that runs the exit handlers

ASSUME UsersAssumption   == {NoUser, "own", "playlist", "smart"} \cap Users = {}
ASSUME NamesAssumption   == Names \subseteq Seq(Nat)
ASSUME ConfigAssumption  == Configurations \subseteq
    [dirs: SUBSET {"own", "playlist", "smart"}, ids: 1..MaxIds,
     edits: Nat, deletes: Nat, external: Nat, faults: Nat]
ASSUME ThreadsAssumption == Threads \subseteq Nat \ {Main} /\ IsFiniteSet(Threads)
ASSUME BoundsAssumption  == MaxIds \in Nat \ {0} /\ IsFiniteSet(Configurations)

VARIABLES
    config,         \* playlist_dirs: which are configured (and the bounds)
    playlist,       \* the table
    created,        \* the highest id given so far
    unscheduled,    \* edits that have committed and not armed a timer yet
    entry,          \* _export_timers: whether a playlist's timer still waits
    loose,          \* timers that wait, though an older export forgot them
    thread,         \* the exports that run
    unlinking,      \* delete(): rows gone, files not yet
    sync,           \* the pass over the mirrored directories
    exiting, flushing,
    file,           \* the files on disk
    nr, clock,      \* the latest contents of a playlist; of a file's mtime
    edits, deletes, external, faults,
    unread,         \* playlists with an edit no export has read yet
    disturbed       \* playlists whose exports failed, were cut off, met each
                    \* other or a deletion, or took the place of another

rows   == <<playlist, created>>
timers == <<entry, loose>>
bounds == <<edits, deletes, external, faults>>
ghosts == <<unread, disturbed>>
vars   == <<config, rows, unscheduled, timers, thread, unlinking, sync, exiting, flushing,
            file, nr, clock, bounds, ghosts>>

-----------------------------------------------------------------------------
Ids     == 1..MaxIds
Exports == Threads \cup {Main}

\* Names are the stems of files.  A stem is a sequence: a number for what it
\* is called, and one for each "(<n>)" that was put behind it.
Stems == Seq(Nat)
Numbered(name, n) == Append(name, n)

Mirrored == {"playlist", "smart"}
Dirs     == Mirrored \cup {"own"} \cup Users    \* a folder for each user
Paths    == Dirs \X Stems

Contents == Nat
Mtimes   == Nat

Row == [name: Stems, owner: Users \cup {NoUser}, public: BOOLEAN, tracks: Contents,
        source: Paths \cup {None}, mtime: Mtimes, readonly: BOOLEAN,
        exported: Paths \cup {None}]

\* `by` is the playlist a file was last written for, 0 for other programs.
File == [by: Ids \cup {0}, tracks: Contents, mtime: Mtimes]

Idle   == [pc |-> "idle", id |-> 0]
Asleep == [pc |-> "asleep"]

\* What becomes of a thread whose export raises: the exit handler catches it
\* no more than a timer does, and it is to export others.
Raised(t) == IF t = Main THEN [pc |-> "raised", id |-> 0] ELSE Idle
Aborted   == thread[Main].pc = "raised"

\* The table and the directories are functions on the rows and files there are.
Live(p)       == p \in DOMAIN playlist
OnDisk(f)     == f \in DOMAIN file
With(f, x, e) == [y \in DOMAIN f \cup {x} |-> IF y = x THEN e ELSE f[y]]
Without(f, x) == Restrict(f, DOMAIN f \ {x})
Exporting(t)  == thread[t].pc \in {"read", "tracks", "chosen", "replaced", "unlinked"}

TypeOK ==
    /\ DOMAIN playlist \subseteq 1..created /\ Range(playlist) \subseteq Row
    /\ created \in 0..MaxIds
    /\ unscheduled \subseteq Ids
    /\ entry \in [Ids -> {"none", "waits", "over"}] /\ loose \in [Ids -> Nat]
    /\ \A t \in Exports : Exporting(t) => thread[t].id \in Ids /\ thread[t].row \in Row
    /\ \A d \in unlinking : d.id \in Ids /\ d.path \in Paths \cup {None}
    /\ sync.pc \in {"asleep", "listed", "read", "parsed"}
    /\ exiting \in BOOLEAN /\ flushing \subseteq Ids
    /\ DOMAIN file \subseteq Paths /\ Range(file) \subseteq File
    /\ nr \in Contents /\ clock \in Mtimes
    /\ unread \subseteq Ids /\ disturbed \subseteq Ids

\* A file of another program may lie in the playlist directory already.
Init ==
    /\ config \in Configurations
    /\ edits = 0 /\ deletes = 0 /\ external = 0 /\ faults = 0
    /\ playlist = << >> /\ created = 0
    /\ unscheduled = {} /\ entry = [p \in Ids |-> "none"] /\ loose = [p \in Ids |-> 0]
    /\ thread = [t \in Exports |-> Idle] /\ unlinking = {} /\ sync = Asleep
    /\ exiting = FALSE /\ flushing = {}
    /\ \E foreign \in SUBSET ((config.dirs \cap {"own"}) \X Names) :
          /\ Cardinality(foreign) <= config.external
          /\ file = [f \in foreign |-> [by |-> 0, tracks |-> 0, mtime |-> 0]]
    /\ nr = 0 /\ clock = 0
    /\ unread = {} /\ disturbed = {}

-----------------------------------------------------------------------------
(* Edits.  The unique index is on (owner, name).                            *)
Taken(owner, name) ==
    \E p \in DOMAIN playlist : playlist[p].owner = owner /\ playlist[p].name = name

\* _can_edit(), for those who may edit every playlist that can be edited.
CanEdit(p) == Live(p) /\ ~playlist[p].readonly

Edited(p) ==
    /\ ~exiting /\ edits < config.edits /\ edits' = edits + 1
    /\ unscheduled' = unscheduled \cup {p} /\ unread' = unread \cup {p}
    /\ UNCHANGED <<config, timers, thread, unlinking, sync, exiting, flushing, file, clock,
                   deletes, external, faults, disturbed>>

Create(owner, name) ==
    /\ created < config.ids /\ ~Taken(owner, name)
    /\ created' = created + 1 /\ nr' = nr + 1
    /\ playlist' = With(playlist, created + 1,
          [name |-> name, owner |-> owner, public |-> FALSE, tracks |-> nr + 1,
           source |-> None, mtime |-> 0, readonly |-> FALSE, exported |-> None])
    /\ Edited(created + 1)

(* update(): the name or who may see the playlist.                          *)
Update(p, name, public) ==
    /\ CanEdit(p)
    /\ name # playlist[p].name => ~Taken(playlist[p].owner, name)
    /\ playlist' = [playlist EXCEPT ![p] = [@ EXCEPT !.name = name, !.public = public]]
    /\ Edited(p) /\ UNCHANGED <<created, nr>>

(* add_tracks(), remove_tracks(), replace_tracks(), move_track()            *)
EditTracks(p) ==
    /\ CanEdit(p)
    /\ nr' = nr + 1 /\ playlist' = [playlist EXCEPT ![p].tracks = nr + 1]
    /\ Edited(p) /\ UNCHANGED created

(* Mutant of Schedule: no timer is needed while the playlist is exported.   *)
ScheduleUnlessExporting(p) ==
    /\ p \in unscheduled /\ unscheduled' = unscheduled \ {p}
    /\ IF \E t \in Exports : Exporting(t) /\ thread[t].id = p THEN UNCHANGED timers
       ELSE entry' = [entry EXCEPT ![p] = "waits"] /\ UNCHANGED loose
    /\ UNCHANGED <<config, rows, thread, unlinking, sync, exiting, flushing, file, nr, clock,
                   bounds, ghosts>>

(* _schedule_export(): the timer that is known is cancelled for a new one.  *)
Schedule(p) ==
    /\ p \in unscheduled /\ unscheduled' = unscheduled \ {p}
    /\ entry' = [entry EXCEPT ![p] = "waits"]
    /\ UNCHANGED <<config, rows, loose, thread, unlinking, sync, exiting, flushing, file, nr, clock,
                   bounds, ghosts>>

(* Mutant of FileOf: only mirrored playlists have files.                    *)
FileOfMirrored(p) == playlist[p].source

FileOf(p) == IF playlist[p].source # None THEN playlist[p].source ELSE playlist[p].exported

(* delete(), its transaction ...                                            *)
RowDeleted(p, by) ==
    /\ playlist' = Without(playlist, p)
    /\ unlinking' = unlinking \cup {[id |-> p, path |-> FileOf(p), by |-> by]}
    /\ disturbed' = IF \E t \in Exports : Exporting(t) /\ thread[t].id = p
                    THEN disturbed \cup {p} ELSE disturbed
    /\ UNCHANGED <<config, created, unscheduled, timers, thread, exiting, flushing, file,
                   nr, clock, edits, external, faults, unread>>

Delete(p) ==
    /\ ~exiting /\ CanEdit(p) /\ RowDeleted(p, "request")
    /\ deletes < config.deletes /\ deletes' = deletes + 1
    /\ UNCHANGED sync

(* ... then the timer is cancelled and the file removed.                    *)
Unlink(d) ==
    /\ d \in unlinking /\ unlinking' = unlinking \ {d}
    /\ entry' = [entry EXCEPT ![d.id] = "none"]
    /\ file' = Without(file, d.path)
    /\ UNCHANGED <<config, rows, unscheduled, loose, thread, sync, exiting, flushing, nr,
                   clock, bounds, ghosts>>

-----------------------------------------------------------------------------
(* Exports.  A timer fires in a thread of its own; which one does not       *)
(* matter, so it is the first that is free.                                 *)
Fire(t, p) ==
    /\ t \in Threads /\ thread[t] = Idle
    /\ \A u \in Threads : u < t => thread[u] # Idle
    /\ \/ entry[p] = "waits" /\ entry' = [entry EXCEPT ![p] = "over"] /\ UNCHANGED loose
       \/ loose[p] > 0 /\ loose' = [loose EXCEPT ![p] = @ - 1] /\ UNCHANGED entry
    /\ thread' = [thread EXCEPT ![t] = [pc |-> "fired", id |-> p]]
    /\ UNCHANGED <<config, rows, unscheduled, unlinking, sync, exiting, flushing, file,
                   nr, clock, bounds, ghosts>>

(* _export() forgets the timer, which may be a newer one than its own.      *)
Pop(t) ==
    LET p == thread[t].id
    IN  /\ thread[t].pc = "fired"
        /\ entry' = [entry EXCEPT ![p] = "none"]
        /\ loose' = IF entry[p] = "waits" THEN [loose EXCEPT ![p] = @ + 1] ELSE loose
        /\ thread' = [thread EXCEPT ![t] = [pc |-> "popped", id |-> p]]
        /\ UNCHANGED <<config, rows, unscheduled, unlinking, sync, exiting, flushing, file,
                       nr, clock, bounds, ghosts>>

(* get(), its first SELECT.                                                 *)
ReadRow(t) ==
    LET p == thread[t].id
        exportable == /\ Live(p) /\ ~playlist[p].readonly
                      /\ playlist[p].source # None \/ "own" \in config.dirs
        met == \E u \in Exports \ {t} : Exporting(u) /\ thread[u].id = p
    IN  /\ thread[t].pc = "popped"
        /\ thread' = [thread EXCEPT ![t] =
              IF exportable THEN [pc |-> "read", id |-> p, row |-> playlist[p]] ELSE Idle]
        /\ unread' = unread \ {p}
        /\ disturbed' = IF met THEN disturbed \cup {p} ELSE disturbed
        /\ UNCHANGED <<config, rows, unscheduled, timers, unlinking, sync, exiting, flushing,
                       file, nr, clock, bounds>>

(* ... and its second one.  A row that is gone has no tracks.               *)
ReadTracks(t) ==
    LET p == thread[t].id
        tracks == IF Live(p) THEN playlist[p].tracks ELSE 0
    IN  /\ thread[t].pc = "read"
        /\ thread' = [thread EXCEPT ![t] = [pc |-> "tracks", id |-> p,
                          row |-> [thread[t].row EXCEPT !.tracks = tracks]]]
        /\ UNCHANGED <<config, rows, unscheduled, timers, unlinking, sync, exiting, flushing,
                       file, nr, clock, bounds, ghosts>>

Folder(row) == IF row.owner # NoUser /\ ~row.public THEN row.owner ELSE "own"

Current(row) == IF row.source # None THEN row.source ELSE row.exported

(* The place of a row's file.  Only the first choice is looked up on disk.  *)
Target(p, row) ==
    LET dir    == IF row.source # None THEN row.source[1] ELSE Folder(row)
        wanted == <<dir, row.name>>
    IN  IF wanted = Current(row) \/ ~OnDisk(wanted) THEN wanted
        ELSE IF row.source # None THEN row.source
        ELSE <<dir, Numbered(row.name, p)>>

\* The files an export removes or replaces.
Touches(export) ==
    ({Current(export.row)} \ {None})
        \cup (IF export.pc \in {"read", "tracks"} THEN {} ELSE {export.target})

Writing(pc, p, row, target) == [pc |-> pc, id |-> p, row |-> row, target |-> target]

Choose(t) ==
    LET p == thread[t].id
        target == Target(p, thread[t].row)
        place == {target, Current(thread[t].row)}
        met == {u \in Exports \ {t} : Exporting(u) /\ Touches(thread[u]) \cap place # {}}
        others == {thread[u].id : u \in met}
                      \cup {q \in DOMAIN playlist \ {p} : playlist[q].exported = target}
    IN  /\ thread[t].pc = "tracks"
        /\ thread' = [thread EXCEPT ![t] = Writing("chosen", p, thread[t].row, target)]
        /\ disturbed' = IF others = {} /\ \A d \in unlinking : d.path # target THEN disturbed
                        ELSE disturbed \cup {p} \cup others
        /\ UNCHANGED <<config, rows, unscheduled, timers, unlinking, sync, exiting, flushing,
                       file, nr, clock, bounds, unread>>

(* os.replace().  Only the mtimes of mirrored files are ever looked at.     *)
Replace(t) ==
    LET row    == thread[t].row
        target == thread[t].target
        pc     == IF Current(row) \in {None, target} THEN "unlinked" ELSE "replaced"
        mtime  == IF target[1] \in Mirrored THEN clock + 1 ELSE 0
    IN  /\ thread[t].pc = "chosen"
        /\ thread' = [thread EXCEPT ![t] = Writing(pc, thread[t].id, row, target)]
        /\ clock' = IF mtime = 0 THEN clock ELSE mtime
        /\ file' = With(file, target,
              [by |-> thread[t].id, tracks |-> row.tracks, mtime |-> mtime])
        /\ UNCHANGED <<config, rows, unscheduled, timers, unlinking, sync, exiting, flushing,
                       nr, bounds, ghosts>>

(* current.unlink(missing_ok=True), after a rename or a change of folder.   *)
UnlinkOld(t) ==
    LET row == thread[t].row
    IN  /\ thread[t].pc = "replaced"
        /\ thread' = [thread EXCEPT ![t] =
              Writing("unlinked", thread[t].id, row, thread[t].target)]
        /\ file' = Without(file, Current(row))
        /\ UNCHANGED <<config, rows, unscheduled, timers, unlinking, sync, exiting, flushing,
                       nr, clock, bounds, ghosts>>

(* The last transaction, which nothing in the export guards.  It raises     *)
(* when the file of a mirrored playlist is gone, or belongs to another row  *)
(* by now.                                                                  *)
Record(t) ==
    LET p == thread[t].id
        target == thread[t].target
        mirrored == thread[t].row.source # None
        raises == mirrored /\ \/ ~OnDisk(target)
                              \/ Live(p) /\ \E q \in DOMAIN playlist \ {p} :
                                                playlist[q].source = target
    IN  /\ thread[t].pc = "unlinked"
        /\ thread' = [thread EXCEPT ![t] = IF raises THEN Raised(t) ELSE Idle]
        /\ playlist' =
              IF raises \/ ~Live(p) THEN playlist
              ELSE IF mirrored THEN [playlist EXCEPT ![p] =
                      [@ EXCEPT !.source = target, !.mtime = file[target].mtime]]
              ELSE [playlist EXCEPT ![p].exported = target]
        /\ UNCHANGED <<config, created, unscheduled, timers, unlinking, sync, exiting, flushing,
                       file, nr, clock, bounds, ghosts>>

(* What fails while the file is written or removed is caught, unless a text *)
(* has no encoding; what fails in the last transaction is not.              *)
Failed(t, pc) == (IF pc = "unlinked" THEN {} ELSE {Idle}) \cup
                 (IF pc = "replaced" THEN {} ELSE {Raised(t)})

(* Writing, removing or recording fails, which ends the export.             *)
Fails(t) ==
    /\ thread[t].pc \in {"chosen", "replaced", "unlinked"}
    /\ faults < config.faults /\ faults' = faults + 1
    /\ disturbed' = disturbed \cup {thread[t].id}
    /\ \E after \in Failed(t, thread[t].pc) : thread' = [thread EXCEPT ![t] = after]
    /\ UNCHANGED <<config, rows, unscheduled, timers, unlinking, sync, exiting, flushing, file,
                   nr, clock, edits, deletes, external, unread>>

Export(t) == \/ \E p \in Ids : Fire(t, p)
             \/ Pop(t) \/ ReadRow(t) \/ ReadTracks(t) \/ Choose(t)
             \/ Replace(t) \/ UnlinkOld(t) \/ Record(t)

-----------------------------------------------------------------------------
(* flush_exports(), an exit handler: the timers it knows are cancelled, and *)
(* their playlists exported one by one, until an export raises.             *)
Exit ==
    /\ ~exiting /\ faults < config.faults /\ faults' = faults + 1
    /\ exiting' = TRUE /\ unscheduled = {} /\ unlinking = {} /\ sync = Asleep
    /\ flushing' = {p \in Ids : entry[p] # "none"}
    /\ entry' = [p \in Ids |-> IF entry[p] = "none" THEN "none" ELSE "over"]
    /\ UNCHANGED <<config, rows, unscheduled, loose, thread, unlinking, sync, file, nr, clock,
                   edits, deletes, external, ghosts>>

FlushNext(p) ==
    /\ p \in flushing /\ thread[Main] = Idle
    /\ flushing' = flushing \ {p}
    /\ thread' = [thread EXCEPT ![Main] = [pc |-> "fired", id |-> p]]
    /\ UNCHANGED <<config, rows, unscheduled, timers, unlinking, sync, exiting, file, nr, clock,
                   bounds, ghosts>>

\* The process is gone, whatever its threads were doing, and starts again.
Restarted ==
    /\ unscheduled' = {} /\ entry' = [p \in Ids |-> "none"] /\ loose' = [p \in Ids |-> 0]
    /\ thread' = [t \in Exports |-> Idle] /\ unlinking' = {} /\ sync' = Asleep
    /\ exiting' = FALSE /\ flushing' = {} /\ unread' = {}
    /\ disturbed' = disturbed \cup unread \cup {d.id : d \in unlinking}
                        \cup {thread[t].id : t \in {u \in Exports : Exporting(u)}}
    /\ UNCHANGED <<config, rows, file, nr, clock, edits, deletes, external>>

Ended == /\ exiting /\ (Aborted \/ (flushing = {} /\ thread[Main] = Idle))
         /\ Restarted /\ UNCHANGED faults

Crash == ~exiting /\ faults < config.faults /\ faults' = faults + 1 /\ Restarted

-----------------------------------------------------------------------------
(* sync_sources(), one pass at a time.  The files are listed first ...      *)
SyncList ==
    /\ sync = Asleep /\ ~exiting /\ Mirrored \cap config.dirs # {}
    /\ sync' = [pc |-> "listed",
                files |-> {f \in DOMAIN file : f[1] \in Mirrored \cap config.dirs}]
    /\ UNCHANGED <<config, rows, unscheduled, timers, thread, unlinking, exiting, flushing,
                   file, nr, clock, bounds, ghosts>>

\* After its last file a pass is over.
Onward(s) == IF s.gone = {} /\ s.todo = {} THEN Asleep ELSE s

(* Mutant of Vanished: an empty directory is taken for one not mounted.     *)
VanishedUnlessEmpty(known, files) ==
    IF files = {} THEN {} ELSE {k \in known : k.source \notin files}

Vanished(known, files) == {k \in known : k.source \notin files}

(* ... then the rows that have one are read.                                *)
SyncRead ==
    LET known == {[source |-> playlist[p].source, id |-> p, mtime |-> playlist[p].mtime] :
                     p \in {q \in DOMAIN playlist : playlist[q].source # None}}
    IN  /\ sync.pc = "listed"
        /\ sync' = Onward([pc |-> "read", todo |-> sync.files, known |-> known,
                           gone |-> Vanished(known, sync.files),
                           taken |-> {playlist[p].name : p \in {q \in DOMAIN playlist :
                                         playlist[q].owner = NoUser}}])
        /\ UNCHANGED <<config, rows, unscheduled, timers, thread, unlinking, exiting, flushing,
                       file, nr, clock, bounds, ghosts>>

InPass == sync.pc = "read" /\ \A d \in unlinking : d.by # "sync"

(* Rows whose file was not listed are deleted.  A row that somebody else    *)
(* has deleted raises, and the pass ends.                                   *)
SyncDelete(k) ==
    /\ InPass /\ k \in sync.gone
    /\ IF Live(k.id)
       THEN /\ RowDeleted(k.id, "sync") /\ UNCHANGED deletes
            /\ sync' = Onward([sync EXCEPT !.gone = @ \ {k}])
       ELSE /\ sync' = Asleep
            /\ UNCHANGED <<config, rows, unscheduled, timers, thread, unlinking, exiting,
                           flushing, file, nr, clock, bounds, ghosts>>

(* A file that has changed since, or is new, is parsed ...                  *)
SyncLook(f) ==
    LET same == \E k \in sync.known : k.source = f /\ k.mtime = file[f].mtime
    IN  /\ InPass /\ sync.gone = {} /\ f \in sync.todo
        /\ sync' = IF ~OnDisk(f) \/ same
                   THEN Onward([sync EXCEPT !.todo = @ \ {f}])
                   ELSE [pc |-> "parsed", todo |-> sync.todo \ {f}, known |-> sync.known,
                         gone |-> {}, taken |-> sync.taken, path |-> f, parsed |-> file[f]]
        /\ UNCHANGED <<config, rows, unscheduled, timers, thread, unlinking, exiting, flushing,
                       file, nr, clock, bounds, ghosts>>

(* The first of "<name>", "<name> (2)", ... that was free when rows were    *)
(* read, which is one of a few.                                             *)
FreeName(stem) ==
    IF stem \notin sync.taken THEN {stem}
    ELSE {Numbered(stem, k) : k \in {n \in 2..Cardinality(sync.taken) + 2 :
             /\ Numbered(stem, n) \notin sync.taken
             /\ \A j \in 2..n - 1 : Numbered(stem, j) \in sync.taken}}

(* ... and stored, in its row or in a new one: an error skips the file.     *)
Store(name) ==
    LET f == sync.path
        ids == {k.id : k \in {m \in sync.known : m.source = f}}
        new == [name |-> name, owner |-> NoUser, public |-> TRUE, exported |-> None,
                tracks |-> sync.parsed.tracks, source |-> f, mtime |-> sync.parsed.mtime,
                readonly |-> f[1] = "smart"]
        fits == /\ ~Taken(NoUser, name)
                /\ \A p \in DOMAIN playlist : playlist[p].source # f
    IN  /\ sync' = Onward([pc |-> "read", todo |-> sync.todo, known |-> sync.known,
                           gone |-> {}, taken |-> IF ids = {} THEN sync.taken \cup {name}
                                                  ELSE sync.taken])
        /\ IF ids # {}
           THEN /\ playlist' = [p \in DOMAIN playlist |->
                      IF p \notin ids THEN playlist[p]
                      ELSE [playlist[p] EXCEPT !.tracks = sync.parsed.tracks,
                                               !.mtime = sync.parsed.mtime,
                                               !.readonly = f[1] = "smart"]]
                /\ UNCHANGED created
           ELSE IF fits /\ created < config.ids
           THEN /\ created' = created + 1
                /\ playlist' = With(playlist, created + 1, new)
           ELSE UNCHANGED rows
        /\ UNCHANGED <<config, unscheduled, timers, thread, unlinking, exiting, flushing, file,
                       nr, clock, bounds, ghosts>>

SyncStore == sync.pc = "parsed" /\ \E name \in FreeName(sync.path[2]) : Store(name)

Sync == \/ SyncList \/ SyncRead \/ SyncStore
        \/ sync.pc = "read" /\ \E k \in sync.gone : SyncDelete(k)
        \/ sync.pc = "read" /\ \E f \in sync.todo : SyncLook(f)

(* Other programs write and remove files in the mirrored directories.       *)
External(f) ==
    /\ f[1] \in Mirrored \cap config.dirs /\ f[2] \in Names
    /\ external < config.external /\ external' = external + 1
    /\ \/ /\ nr' = nr + 1 /\ clock' = clock + 1
          /\ file' = With(file, f, [by |-> 0, tracks |-> nr + 1, mtime |-> clock + 1])
       \/ OnDisk(f) /\ file' = Without(file, f) /\ UNCHANGED <<nr, clock>>
    /\ UNCHANGED <<config, rows, unscheduled, timers, thread, unlinking, sync, exiting,
                   flushing, edits, deletes, faults, ghosts>>

-----------------------------------------------------------------------------
Requests ==
    \/ \E owner \in Users, name \in Names : Create(owner, name)
    \/ \E p \in Ids : \/ \E name \in Names, public \in BOOLEAN : Update(p, name, public)
                      \/ EditTracks(p) \/ Delete(p)

Finish == (\E p \in Ids : Schedule(p)) \/ (\E d \in unlinking : Unlink(d))

Stopping == (\E p \in flushing : FlushNext(p)) \/ Ended

Next == \/ Requests \/ Finish \/ Sync
        \/ \E t \in Exports : Export(t) \/ Fails(t)
        \/ \E f \in Dirs \X Names : External(f)
        \/ Exit \/ Stopping \/ Crash

Spec == Init /\ [][Next]_vars

(* Requests are finished, some export goes on, and clients ask for the list *)
(* of playlists again and again, which is what starts a pass.               *)
Fairness ==
    /\ WF_vars(Finish) /\ WF_vars(Sync) /\ WF_vars(Stopping)
    /\ WF_vars(\E t \in Exports : Export(t))

FairSpec == Spec /\ Fairness

-----------------------------------------------------------------------------
(* Every edit of a playlist is followed by an export that reads it: as long *)
(* as the process lives and none has, one is still to come, whichever       *)
(* timers were replaced, fired early or late, or forgotten by an older      *)
(* export.  The exception are those the exit handler has taken over, when   *)
(* an export before theirs raises: it ends there, and cancelled their       *)
(* timers before.                                                           *)
GivenUp == IF Aborted THEN flushing ELSE {}

EditsFollowed ==
    \A p \in unread \ GivenUp : Live(p) =>
        \/ p \in unscheduled \cup flushing
        \/ entry[p] = "waits" \/ loose[p] > 0
        \/ \E t \in Exports : thread[t].pc \in {"fired", "popped"} /\ thread[t].id = p

Quiet == /\ unscheduled = {} /\ unlinking = {} /\ ~exiting
         /\ \A p \in Ids : entry[p] # "waits" /\ loose[p] = 0
         /\ \A t \in Exports : thread[t] = Idle

(* When everything has settled, the playlist directory holds the playlists: *)
(* each one's file is in the folder of those who may see it, under its      *)
(* name, with its tracks, and there are no files of former names, folders   *)
(* or playlists, unless an export was cut off, failed, met another export   *)
(* or the deletion of its playlist, or took a place recorded for another.   *)
DirectoryMatches ==
    Quiet /\ "own" \in config.dirs =>
        /\ \A p \in DOMAIN playlist \ disturbed : playlist[p].source = None =>
              /\ playlist[p].exported \in
                    {<<Folder(playlist[p]), playlist[p].name>>,
                     <<Folder(playlist[p]), Numbered(playlist[p].name, p)>>}
              /\ OnDisk(playlist[p].exported) /\ file[playlist[p].exported].by = p
              /\ file[playlist[p].exported].tracks = playlist[p].tracks
        /\ \A f \in DOMAIN file : f[1] \notin Mirrored =>
              \/ file[f].by \in disturbed \cup {0}
              \/ Live(file[f].by) /\ playlist[file[f].by].exported = f

(* This, and every part of the state has its type.                          *)
PlaylistsSound == TypeOK /\ DirectoryMatches

(* Once files and playlists are left alone, the mirrored playlists are      *)
(* those of the files, each file having one.                                *)
MirrorConverges ==
    <>[] ({f \in DOMAIN file : f[1] \in Mirrored} =
          {playlist[p].source : p \in DOMAIN playlist} \ {None})

(* Files of other programs in the playlist directory, and generated         *)
(* playlists, are never written or removed.  There are two exceptions: the  *)
(* second choice of an export is taken without a look at the disk, and a    *)
(* pass that found a generated file gone unlinks it though it is back.      *)
Substitutes == {Numbered(n, p) : n \in Names, p \in Ids}

Protected(f) == \/ f[1] = "smart"
                \/ f[1] \notin Mirrored /\ file[f].by = 0 /\ f[2] \notin Substitutes

OthersUntouched ==
    [][external' = external =>
          \A f \in DOMAIN file : Protected(f) =>
             \/ OnDisk(f)' /\ file'[f] = file[f]
             \/ \E d \in unlinking \ unlinking' : d.by = "sync" /\ d.path = f]_vars

(* Both, for the files and the playlists that mirror them.                  *)
MirrorsSound == OthersUntouched /\ MirrorConverges

(* A pass deletes a playlist only when its file is gone ("kept in sync with *)
(* their files").                                                           *)
PassDeletesVanished ==
    [][\A p \in Ids : sync # Asleep /\ sync' # sync /\ Live(p) /\ ~Live(p)'
          => ~OnDisk(playlist[p].source)]_vars

=============================================================================
