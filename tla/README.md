# A verification project for BeetstreamNext

BeetstreamNext (`src/`) serves a [beets](https://beets.io) music library over the Subsonic API and a
web interface. Flask/waitress request threads, a maintenance thread, a folder watcher, thread pools
and child processes (`beet import`, `ffmpeg`, `mpv`) share in-process state behind locks, one SQLite
database, and files on disk. The modules here model the parts where those actors meet; TLC checks
them on small instances, TLAPS proves what matters most for every instance.

## 1. Inventory

Paths are below `src/beetsplug/beetstreamnext/`. What is hard about each part, and what makes it correct:

| Part | State | Talks to | Hard behaviour | Correct when |
|---|---|---|---|---|
| **Import session** `core/library/beets/interaction.py` | `_state`, `_current_path`, `_master_fd`, `_queue`; the child, its terminal, the results file | web, control API, Subsonic `startScan`, watcher | five kinds of caller and one pump thread per import; what follows `_finish`'s lock races with new imports | one import at a time; answers reach the import that asked; queued folders start in order |
| **Import history** `import_history.py`, `beetstreamnext_events.py` | records of a run, rows | the child, the session | outcomes are reported at three moments, merged albums among them | the history tells the last outcome of each folder |
| **Folder watcher** `core/library/import_watcher.py` | `PathState` per folder | session, file system | walks, checks and asks at different times | a change is never forgotten, and imported once it settled |
| **Podcast downloads** `core/services/podcasts.py` | wants, rows, files, reservations, cancel events, pool | Subsonic and admin routes, `stream`, maintenance | rows, files and reservations change in separate steps; downloads fail, are cancelled, crash | one download per episode; only whole files; a release spares other users' files; nothing hangs |
| **Podcast channels** (same file) | channels, subscriptions, OPML imports | feed servers | look-up, fetch and insert are separate | no twins, no channel refreshing for ever |
| **Scrobbling** `core/services/scrobbling/` | connections, queue of listens, one worker | Last.fm, ListenBrainz | a listen is submitted outside any transaction; connections change meanwhile | no listen lost, none delivered twice but by a lost answer |
| **Plays and play queue** `subsonic/routes/scrobble.py`, `playqueue.py` | `now_playing`, `play_stats`, saved queue | players | two interfaces report the same play; songs leave the library | a play is counted once; the index names the current song of the save that was read |
| **Playlists** `core/services/playlists.py` | rows, `.m3u` files, mirrored sources | Subsonic, account pages, disk | exports and syncs read one side and write the other later; one that raises ends the exit handler | row and file agree in the end; no edit or playlist is lost |
| **Jukebox** `core/services/jukebox/` | queue, index; mpv's state | mpv, devices | a backend that dies or fails half way | queue and backend agree |
| **Streaming** `core/media/` | slots, HLS sessions and segments, tokens | ffmpeg, request threads | clients that go away; eviction while a file is used | slots are given back; no directory in use is evicted; a decision keeps its limit |
| **Shares** `core/media/shares.py` | shares, unlock cookies, zip slots | visitors, owners | a limit that is claimed before there is a file; the owner edits meanwhile | the count is what was served; only who knows the password is let in |
| **Login limits, address lists** `core/accounts/security.py` | failures, lists kept twice | every request | counted and applied in different steps | limits overshoot by no more than the requests under way |
| **Accounts and sessions** `core/accounts/` | users, `web_sessions`, cookies, app passwords | routes, command line | the password is read, checked, and read again | a changed password ends the others' sessions |
| **Storage** `core/storage/` | the database file, its log, key, versions, archives | everything | an upgrade, restore or rekey cut off at any step | no settled write is lost, each step still due is done |
| **Settings** `core/config/store.py` | file, environment, row, cache, object in use | admin panel | persisted, cached and applied one after the other | what the panel shows is in force |
| **Notifications** `core/notifications.py` | of the file (by place) and of the table | every event | the file is edited, its entries move | a switch stays; each URL is tried once |
| **Chat, radio, events** `core/services/` | messages, stations, event queues | panels | full queues of events of several kinds, pages, look-ups before inserts | no gap, no station twice but by two requests at once, no stale panel but by a lost event |
| **Health and maintenance** `core/library/health.py`, `maintenance.py` | checks of files, likes | beets library | files and library change during a scan | a check is about the file; a sweep spares likes |
| **External metadata** `artist_image_fetch.py`, `artist_images.py` | images of artists | Deezer | keys appear and vanish with tags, also during a clean-up | uploads stay; "none" was asked for |
| **Library** `core/library/resolve.py`, `indexes.py`, `utils/db.py` | indexes in a cache with a time stamp | beets, other programs | the stamp is read before the index is built, requests wait for each other's, the library is written meanwhile | an id finds its entry; no index is older than the stamp it was asked with |
| **Search, web routes, runtime** | | | functions of one request; start-up order | not modelled (section 6) |

`PROJECT.json` lists each part with its status, and the hazards at their lines.

## 2. The modules

Every operation of a component is an action whose steps are cut where the code stops holding what it read: a
section under a lock, a database transaction (a `SELECT` before the first write of its `with database()` block is one of its
own, as in SQLite), an assignment read by other threads without a lock, a change of the disk, a call
of somebody else. History variables are marked as such where they are declared.

### Imports: ImportQueue, ImportSession, ImportWatcher, ImportHistory

`ImportSession` is `class ImportSession` with the children and pump threads it spawns. Every section
under `_lock` is one action (`Start`, `StartPinned`, `Enqueue`, `EnqueuePinned`, `SendInput`,
`PumpFinishes`, `PumpAdvances`); what `_finish` does after the lock (`PumpRecords`) and reading the
terminal (`PumpReadsPrompt`, `PumpCloses`) are actions of their own. `runs` keeps one record per
spawned import: its child, its terminal (`tty` answers on their way, `unread` a prompt on its way) and
its pump thread. `start()` is `Launch` when it succeeds and `Refuse` when it returns `False`.
The child asks questions only when it is interactive, and prints a
line that *looks* like a question also when quiet.

`ImportQueue` is what callers may rely on: one active folder, a FIFO of waiting ones, and imports that
are over but have not started the next one. `ImplementsQueue` is the refinement of it by the session:
`active` is `_current_path` while the state is running or needs_input, `waiting` the paths of `_queue`,
`ending` the pumps between `_finish`'s lock and `_start_next_queued`.

`ImportWatcher` is built on `ImportQueue`, not on the session, which the refinement makes sound. `tick()` is
the list of watched folders (`TickStarts`), the walk of one folder up to `is_running()` (`TickLooks`), and
`enqueue_pinned` with what follows (`TickAsks`, `TickRefused`). Contents of a folder are the number of the change that made them.

`ImportHistory` is what a child reports and what becomes of it: the plugin's `_on_files()`, skips, and `_on_exit()`
with the tasks it remembers by `id()`; then `record_run()` and `_drop_superseded()`. A folder is the sequence of its names.

Left out: log texts, time stamps, the `incremental` flag, the Windows pump (the same steps over a
pipe), a prompt split over two reads, and failures of the results file.

### Podcasts: PodcastDownloads, PodcastChannels

`PodcastDownloads` has the users' wants, the row and the two files of each episode, `_downloading_episodes`
(`reserved`), the cancel events, the pool's queue, and for each request thread, pool worker and the
maintenance thread the step it is at (`act`). `Crash` loses everything but database and disk, and
the restarted process first runs `resume_downloads`. `leaked` marks reservations nobody can give
back (a second database error, or a relay whose generator never starts).

`PodcastChannels` has subscriptions, the creation of a channel (look-up, fetch, claim, insert), its refresh with the upgrade of its
address to https, the end of a channel with its last subscriber, OPML imports in their own worker, and the recovery after a
restart. A feed is what its title tells apart, and may be at several hosts, by http and by https.

Left out: feeds without audio, file extensions, errors of `unlink`, the cascade of deleting a
whole account, directory search, the OPML export.

### Scrobbling, PlayState, PlayQueue

`Scrobbling` has the rows of `user_connections`, `scrobble_queue` as a sequence in the order of `played_at`, the pool's
jobs and the one worker thread. `TakeJob` is its first transaction, which deletes what is too
old and reads rows *and credentials*; `Send` is one call of `submit()`, during which nothing is locked; `Record` the
transaction after it (`RecordFails` when that raises); `GoesOn` the loops over batches and connections. A service may
take listens and its answer be lost (`retry` although taken). The `LIMIT` of 1000 rows (`DueLimit`) and the batch size are constants.

`PlayState` is the one `now_playing` row all players of a user share, and the two ways a play is reported (`reportPlayback`, and
`scrobble` with and without submission), with the 300 s after which `getNowPlaying` forgets it. `PlayQueue` is the saved queue, by song or by index,
of which songs may leave the library, and another player save anew, between saving and the two reads of the answer. Saves are numbered (history), so that
`IndexReturned` can say of which save the current song and the songs of an answer are.

Left out: web authorisation, now-playing messages to services (never retried), plays turned away before the database is touched.

### Playlists

`Playlists` has the table's rows, the `.m3u` files on disk, and between them the export timers and threads. An
edit is a transaction (`Create`, `Update`, `EditTracks`) and, in a
step of its own, `Schedule`. `_export_timers` is `entry` per playlist; `_export()` pops the entry before anything else, though
it may be a newer timer's, and such a timer goes on waiting in `loose`, where neither `_schedule_export` nor `flush_exports` can
cancel it. Each export is a thread: `Fire`, `Pop`, `ReadRow` and `ReadTracks` (two snapshots), `Choose` (the place of
the file, with its `exists()`), `Replace`, `UnlinkOld`, `Record`; `Fails` is an error in any of the last three. What fails while the file is written is caught, unless a text
has no encoding; what fails in the last transaction is not. Such an error ends the thread of a timer, which has nothing else to do, but in the exit handler it ends the loop over the others (`Raised`, `Aborted`).
`Delete` commits first and unlinks later (`Unlink`). `Exit` and `FlushNext` are `flush_exports` as exit handler.
`sync_sources` is `SyncList` (the files), `SyncRead` (the rows), a step per deletion and two per file (`SyncLook`, `SyncStore`).
`unread` (edits no export has read) and `disturbed` are history variables. Disturbed are the playlists whose export failed, was cut off, ran together with
another of the same playlist or place or with the deletion, or took a place that the row of another playlist records (the other one is disturbed too): for
these the code promises no file that matches. An export that failed after it moved its file leaves the old place in its row, and the next one removes
whatever lies there (`playlists.py:457`), the file of another playlist if that has taken the place meanwhile.

A name is a sequence of numbers: what it is called, and one for each "(<n>)" put behind it, so that the substitute name of an export can be the name of another
playlist. No supposition is made on names; the exceptions this makes are stated in the properties, with the line where they arise (`playlists.py:431` and `:376`).
Left out: tracks and their order, permissions of single users, `import_files()`, cover images, and the deletion of an account, which takes the rows of its playlists by
a cascade and leaves their files. Supposed: the reads of the database at the start of an export do not fail (one that does is `Failed` a few steps earlier), file times differ between writes, and a file is
parsed as of the `stat` just before.

### Jukebox

`Jukebox` has `JukeboxBackend` over `LocalJukeboxPlayer`, and the `JukeboxManager`. A request reads the setting (`Ask`), finds the
player right (`Keep`) or replaces it (`Swap`), gets it (`Return`), and takes its lock (`Begin`). `Program` is the
operation's list of steps: `_ensure_ready()`, commands to mpv, and changes of `_queue`; mpv may
die between any two (`Dies`) or during a command (`Breaks`). `_ensure_ready()` also precedes every command (`Start`,
`StartFails`). `Handler` is the `except` clauses. `torn` and `late` are history: the players
with an operation that was cut in two, and those a request had when they were replaced.

Left out: volume, seeking, the position in the playlist, the Sonos and Chromecast adapters (a player for them takes part only in the
manager's steps), the `now_playing` row, and the status appended to each answer, which is a request of its own here.

### Streaming: Transcodes, HLS, StreamChoice, Tokeniser

`Transcodes`: a request takes one of its user's slots and one of the server's; ffmpeg writes a whole file, or a reader thread puts its
output into a short queue and the response takes it from there. The sentinel may be dropped when the queue is full (`mark`).
`HLS`: sessions are reserved, encoded by one thread, evicted when idle to keep the cache under its cap, discarded when their encode fails.
`StreamChoice`: format and bitrate of `/stream`, and of a decision that is made first and sent back later, while settings and the user's limit change. What is sent
remembers the limit it was decided under, so that `DecidedWithin` is about what leaves the server, too: a stale decision to transcode keeps its own limit, a file that is sent whole the one in force.
`Tokeniser`: its two maps under one lock, with eviction by age, by number and at use. Byte ranges, padding and ffmpeg's arguments are left out.

### Doors: LoginLimiter, AddressFilter, WebSessions, AppPasswords, Shares

`LoginLimiter` is `RateLimiter` with the checks of `middleware.py` around it: `Check`, then `Fail` or `Succeed`, others in between; `Tune`, `Sweep`, `Purge`.
`AddressFilter` is `IPFilter`, whose lists are kept as strings and as networks and assigned one after the other, while a check reads them up to three times.
`WebSessions` has users, passwords (each hash has its number), roles, session rows and the browsers' cookies; every read and write of the
login and password routes is a step. `AppPasswords` has the limit and names looked up before the insert. `Shares` has expiry, password, limit,
the unlocks in a visitor's cookie (read by a request, written back whole by the one that unlocks), claims and the zip slots.

### Storage, configuration and rooms: Migrations, Backups, Settings, Notifications, Chat, Stations, EventBus

`Migrations` is the upgrade through the versions, in Python's legacy transaction mode: `mem` is what the connection sees, `disk` what a crash leaves.
`Backups` has the database file and its write-ahead log apart; `create_backup()`, the steps of `restore_backup()`, `rekey_database()` and the start, any of them
cut off. `Settings` is one setting, a list or not, through file, row, cache and the object that uses it. `Notifications` has those of the file, shown
by place and switched by event and URLs, and those of the table, and the threads that send. `Chat` is posting, retention and paging with the panels that poll (the history field `again` says that a poll found nothing, after which the panel begins again from 0, section 5);
`Stations` the look-up, fetch and insert of a station, the check and the update of another, with the order of look-ups and writes as history (`from`, `to`). `EventBus` is `publish()` one queue operation at a time, and its
streams. Events have kinds: a panel that reads one shows anew only what that kind is about, as of now if it asks the server for it ('chat'), as of the event if that carries what is shown (`Snapshots`: 'beets-import', 'podcast-status').
What is dropped or given up of a kind is made good by the next event of that kind only.

### The library and its upkeep: LibraryIndex, Health, ArtistImages

`LibraryIndex` is how an id of a client finds its song or album: a query for a MusicBrainz id, or an index of the library by hash
that `BuildOnce` builds for all requests. A request reads the times of the library's files (`Stamp`, the pair of them as one number), takes its part of the cache,
looks, waits for the one that builds, builds itself, and loads the row it found; beets writes between any two. Ids that are old row numbers and the indexes of artists are left out.

`Health` is the scan, full or incremental (list, stored checks, then per song: time, decode, commit, with the check in the making in `scan.row`), and the sweep of stale references.
`ArtistImages` is uploads, single look-ups and the background batch with its failures, rows kept by a key that tags may change, and the clean-up in its three steps:
it selects the keys, asks the library, deletes by key. `stayed` (history) are the keys that have been in the library ever since it began.

### Subsequences

`Kept(s, I)` is the part of a sequence at some of its places: what a list comprehension with a condition and a query with `WHERE` and `ORDER BY` keep. The
library's `SelectSeq` is recursive, so that nothing can be proved of it; the modules that filter lists (`Scrobbling`, `ImportHistory`, `LoginLimiter`, `PlayQueue`, `HLS`, `StreamChoice`, `Shares`) use `Kept`; `Chat` puts ids in order with `Nth`.

### Compositions

The watcher is composed with the import queue. The other modules share no state with each other beyond what is already in them. `MCLibrary`, `MCServices`, `MCLive` and `MCDelivery` put several of them into one run:
a variable `subject`, chosen at the start, says which of them behaves, so that each adds its states instead of multiplying them, and the rest keep their first state. `MCImportSession`, `MCPlaylists` and `MCScrobbling` only give the constants of their modules values.

## 3. Runs

Every property has a mutant of the code that it catches (`PROJECT.json`, "mutants"; the mutated operators stand
beside the ones they mutate). `CHECK_DEADLOCK FALSE` everywhere: requests are bounded, so that a
behaviour may rightly end with nothing left to do.

| Run | Bounds | Shows |
|---|---|---|
| `import_session` | 2 folders, both pinned, 3 folders asked for, 1 answer in a terminal | `OneImport`, `TerminalOfTheRun`, `QueueServed`, `QueueDrains`, `ImplementsQueue` |
| `import_waits`, `import_rows` | same | findings 1 and 2 |
| `library` | episodes: 2 users, 2 threads, 1 worker, 1 episode, 3 requests, 1 crash. Channels: 1 feed at 2 hosts, 1 user, 2 threads, 2 channels, 2 requests, 1 stop. Health: 2 songs, 2 changes, 2 scans or sweeps. History: 2 folders, 2 runs, 2 ids of tasks. Images: 2 artists, 1 request thread, the batch, 2 changes of tags. Lookups: 1 MusicBrainz id and 1 hash, 2 row ids, 2 threads, 4 writes and requests | `DownloadsSound`, `HistoryHolds`, `LookupsHold`, `ChannelsHold`, `HealthHolds`, `ImagesHold` |
| `podcasts_release` | 1 user, 1 thread, 2 requests, no crash | finding 3 |
| `live` | watcher: 2 pinned folders and another, 1 change, 1 other import, 1 import ending at a time. Downloads: 1 user, 1 thread, 1 worker, 3 requests, 1 crash. Transcodes: 2 requests, 2 users, 1 slot, a queue of 1, up to 2 chunks | `Remembered`, `TranscodesHold`, `WatchedImported`, `DownloadsSettle`, `StreamsFinish` |
| `delivery` | outbox: 1 user on 2 services, one of which may never answer; up to 2 listens, 3 saves, 1 crash, batches of 1. Jukebox: 1 client, every operation with up to 2 tracks, 3 operations, 1 death of mpv; or 2 clients, a change of the backend, 2 operations or 1 and a death | `OutboxSound`, `JukeboxSound`, `Delivered`, `JukeboxSettles` |
| `scrobbling_reconnect` | as the outbox | finding 4 |
| `playlists` | 1 user, 2 names, 2 timer threads and the exit's; one of five settings: own playlists with 3 edits and a deletion; with 2 edits, a deletion and 2 faults (failed exports, an exit or a crash; so an export can fail in the exit); with 2 edits and a foreign file; a mirrored directory with an edit, a deletion, an outside change and a fault; a generated one with 3 outside changes | `EditsFollowed`, `PlaylistsSound`, `MirrorsSound` |
| `playlists_rename` | a mirrored directory, 1 edit, 1 outside change, 1 timer thread | finding 5 |
| `play_counts` | 1 user with 2 players, 2 songs, 2 plays each | finding 6 |
| `services` | the 17 modules of the doors, storage, configuration and rooms, with `HLS`, `StreamChoice`, `Tokeniser`, `PlayQueue` and `PlayState`: 1 or 2 threads, users and items each (`MCServices.cfg`) | `LimitHolds`, `AdmittedByLists`, `SessionsHold`, `AppPasswordsHold`, `SharesHold`, `UpgradeHolds`, `BackupsHold`, `SettingsHold`, `NotesHold`, `ChatHolds`, `NoStationTwice`, `NothingStale`, `HLSHolds`, `ChoiceHolds`, `InStep`, `IndexReturned`, `LoneCounted` |

A property whose name ends in `Hold`, `Sound` or `Settle` is the conjunction of the two to four properties that stand above it in its
module, each with what it says of the code; what it says is what the component promises.

Why these bounds are enough. Imports: three requests are a running import, a queued one, and one that meets the moment
between two. Podcasts: episodes share only the pool's order; two users with two threads are what a release racing with a
request, a deletion or a relay needs; a second crash meets no state the first does not. Channels: two hosts and two schemes of one
feed are every way to meet a twin. Scrobbling: two rows are two batches of one connection or a row of each of two; waiting jobs are
all alike. Playlists: three edits are what it takes for an older export to forget the timer of a later edit and for a third edit to
arm another; three outside changes are a generated file that goes, comes back and changes during a pass; directories share neither files nor steps. Larger bounds
(5 edits with a fault, the three directories together, 4 outside changes) were tried once, and are what showed the two exceptions of section 2. Jukebox: operations on one player exclude each other, so one client is
enough for its queue and two for the manager; three players are the current one and those of two late requests. Doors: two threads
are a check with another's failure or row in between, and the clock passes both windows. Chat: pages and answers of one message and two kept make a panel that
has to ask more than once for what it missed, while older messages go; the clock passes both the age at which messages are deleted and the window of the limiter, and
the rate of two makes the table full while a post that took its time before others is still to be written. Storage: two keys and two
archives are a backup of another key and one of a newer schema; the upgrade starts from versions 0, 4, 5 and 7, which together go through
every migration, and may be cut off in each. Tokens: three payloads for two places. HLS: three requests for two slots, so that one is
refused. Stations: two streams with two addresses each, four requests by two threads: an edit away and back between the look-up and the insert of another. Events: two publishers, a queue of two and two kinds, one that asks and one that carries, make
every put, drop and retry meet the other's, of the same kind and of the other. Health: a sweep needs as many references as `_SWEEP_MIN_REFS`, lowered to two songs.
Users, threads, artists, files and hosts are interchangeable in `library` (symmetry), which checks no liveness; each behaviour is of one component, so one swap serves them all. Several invariants
do not depend on these bounds at all: they are proved (section 4).

**Fairness.** Threads and processes are scheduled (WF). A child ends its work if each of its
questions is answered (SF on `ChildExits`, which is disabled while it waits); nobody has to ask or answer.
The watcher polls for ever, time passes, imports end; `start()` does not refuse a folder every time
(SF on `TickAsks`). Downloads end, because their reads time out. `resume_downloads` comes round (SF on
`Resume`): `run_periodic` is triggered by requests, throttled, so this supposes that requests keep coming; the
same throttle brings the scrobbling job back (WF on `RetryLater`). Of the listening services only those in `Reachable` are
supposed to settle a batch again and again (SF), and the database is not busy at *every* `Record` (SF).
Requests on playlists finish, timers fire and exports go on, and an exit ends (WF); a pass over the mirrored directories is started by
requests for the list of playlists and by maintenance, so `WF(Sync)` too supposes that requests keep coming.
Jukebox requests run (WF) and get the player's lock in the end (SF: a Python lock promises no order, but no client asks without
pause); `SettingFollowed` supposes that clients keep asking for the status, as they do to show it. Of a transcode, ffmpeg, its reader and
the response go on (WF on `Proceeds`): the client reads what is sent, or the server notices that it is gone.

### Findings

1. An import that is asked for between the end of another (`_finish()`'s lock) and the start of the next queued folder takes the session;
   `start()` then refuses the folder that was to come, and every queued folder is dropped, those acknowledged with "Queued." among them (`WaitsBehind`).
2. `_finish()` reads the shared results file after it released the lock: rows of the next import may be
   recorded under the folder of the one before (`RowsNameTheirRun`).
3. A release while the episode is being downloaded finds no file and leaves; the download completes and the
   file stays although nobody wants it (`ReleasedIsPurged`).
4. A delivery reads the credentials with its rows. When the user reconnects while it is in its HTTP call and the
   old credentials are rejected, the answer marks the *new* connection as broken (`BrokenByItsOwn`).
5. `sync_sources()` lists the mirrored files before it reads the rows. When an export moves a renamed playlist's file and records
   the new place in between, the pass takes the playlist for one whose file is gone: it deletes the row, and with it
   the renamed file (`PassDeletesVanished`).
6. The flag that keeps a play from being counted twice is a column of the user's one `now_playing` row. Another player of the user, or
   `getNowPlaying` after five minutes, removes the row while the song plays: the submission at its end counts the play again (`CountedOnce`).
   `LoneCounted` says when this cannot happen.

## 4. Proofs

Eight modules hold proofs, each for every value of the constants that satisfies the `ASSUME`s of the components' modules (which TLC evaluates
in the runs). Components that are proved in one module share no state; each has its own invariant and theorem there.

| Module | Theorem | States | Inductive invariant, and why it is needed |
|---|---|---|---|
| `ImportProofs` | `Invariance`, `TypeCorrect`, `OneImportAtATime`, `AnswersReachTheRun`, `PromptsAreVisible`, `QueueIsServed` | `OneImport`, `TerminalOfTheRun`, `QueueServed` | `IInv`, the conjunction of them with `CreditKnown` |
| | `SessionIsAQueue` | `ImplementsQueue`, the refinement | `IInv` again |
| `PlaylistsProofs` | `EditsAreFollowed` | `EditsFollowed` | `PInv`: the shape of threads and timers, what the exit handler has still to export, and `IdsOnce` |
| | `OthersStayUntouched` | `OthersUntouched`, of `MirrorsSound` | `HInv`: types, and whose every path in a row, an export, a deletion or a pass is |
| | `PlaylistsStaySound` | `PlaylistsSound` | `DInv`: the paths an undisturbed playlist lays claim to are apart from all others |
| `LibraryProofs` | `DownloadsAreSound`, `ReservationsAreOwned`, `ReleasesSpare` | `DownloadsSound` | `DInv`: who owns a reservation; `Spares` |
| | `HistoryIsSound` | `HistoryHolds` | `HistoryInv`: rows up to a run, each task with a folder of its own |
| | `LookupsAreSound` | `LookupsHold` | an index lacks nothing that was there at its stamp |
| | `ChecksAreTrue` | `HealthHolds` | `HealthInv`: what was found of a file holds while its time is the file's; what an undisturbed scan has left is as it read it; what is referred to was in the library once |
| | `ImagesAreKept` | `ImagesHold` | what a clean-up is going to delete was out of the library at some moment since it began; and `MissingWasAsked` itself |
| `DoorsProofs` | `ListsAdmit` | `AdmittedByLists` | what the first read of a request says of the lists in force since it came |
| | `LimitsHold` | `LimitHolds` | `LimInv`: failures in the order of their times, and a matching of those of the names with those of the address |
| | `SessionsAreSound` | `SessionsHold` | where the stamp of each cookie and of each request that goes on can come from |
| | `AppPasswordsAreSound` | `AppPasswordsHold` | live passwords, and the requests that have passed the check of the limit |
| | `SharesStaySound` | `SharesHold` | each request's own part of the count, and the passwords each cookie was unlocked with |
| `StorageProofs` | `BackupsAreSound` | `BackupsHold` | `BakIInv`: a log holds what the file beside it holds; a restore that moved the database aside left nothing in its place |
| | `UpgradesHold` | `UpgradeHolds` | each row at each version, with the steps of the migration under way applied or rolled back |
| | `SettingsAreSound` | `SettingsHold` | which row each copy of the setting was made from |
| | `NotesAreKept` | `NotesHold` | switches by what they were set for |
| | `IndexesAreRight` | `IndexReturned` | what the row and the entries hold of each save: those of one save agree, and what a reader has of the row is not newer than what it reads of the entries |
| `RoomsProofs` | `StreamsAreUpToDate` | `NothingStale` | the newest event of each kind is on its way to a stream, in its queue, read or marked as lost; and, of a kind that was not published at once, it is the last in every queue |
| | `LonePlaysAreCounted` | `LoneCounted` | what the row says of a play that only one player reports |
| | `TokensInStep`, `EvictionIsComplete` | `InStep` | `TokensIInv`: the numbers given so far bound those of the entries, and no entry expires later than one used now |
| | `ChatIsSound` | `ChatHolds` | a panel's list is ascending and without a gap between its ends, and it polls from the last of it |
| | `StationsStayApart` | `NoStationTwice` | an address was written after it was looked for, and what was written before a look-up and is still there was seen by it |
| | `TranscodesSound`, `TranscodesBounded` | `TranscodesHold` | `TransIInv`: `OneSound`, what a single request may look like |
| | `ChangesAreRemembered` | `Remembered` | `WatchIInv`: the same of *every* pinned folder, watched or not, since one may be switched off and on between two ticks; no folder was seen with contents still to come |
| `DeliveryProofs` | `OutboxIsSound` | `OutboxSound` | the rows of a job in the order of their ids: done with, being sent, to come |
| | `HLSIsSound` | `HLSHolds` | `HLSInv`: the exact count of the slots |
| | `ChoicesAreSound` | `ChoiceHolds` | what each decision was made for |
| | `ChannelsAreSound` | `ChannelsHold` | `ChannelsInv`: what each actor has read of the feeds; `ImportsInv`: the one stage of each user's OPML import, and what of it is counted and left |
| | `JukeboxStaysSound` | `JukeboxSound` | `JukeboxIInv`: what is left of an operation will make queue and playlist the same, unless it was cut in two; one operation per player |
| `SubsequencesProofs` | lemmas on `Kept` | | |

**Assumptions on constants.** Bounds are numbers and the values that stand for "none" are none of the others. Finite are the sets of which something
is counted: threads and requests (`AppThreads`, `LoginThreads`, `ShareRequests`, `HLSRequests`, `StreamRequests`), `Accounts` of the outbox, and `OldSongs` of an
upgrade, whose ids are not those of albums nor the new ones (`MigAssumption`). A value of a setting is never one of the markers (`SettingsAssumption`).
Client profiles are lists (`ChoiceAssumption`), and an OPML file has finitely many feeds (`ChannelsAssumption`).

**Import session.** Assumptions: `None` is no folder, the pinned list is not empty and has no repetitions, bounds are numbers. None of the
properties is inductive alone. `TerminalOfTheRun` needs `OneImport` (the last run is the only one whose
terminal may be open); `PromptVisible` (which no run checks, since the invariant implies it) needs both; `OneImport` needs the types; `CreditKnown` is
needed for the type of `history`, because `_finish` stores the path it read under the lock and uses it later. `Launch` is enabled only
when every child has exited, hence adding a run preserves `OneImport` (`LaunchKeeps`), a refused request changes nothing the invariant
reads (`RefuseKeeps`), a queued one finds the running import's pump alive (`WaitKeeps`), and a step of one child or
pump replaces one entry of the run table (`ReplaceRun`).

**The refinement.** Each action of the session is mapped to one action of `ImportQueue` or to a stutter. The difficult part is `ending`, the
cardinality of the set of pumps that are past `_finish`'s lock: it changes by one exactly when the abstract step says so (`EndingIsFinite`).

**Watcher.** The queue may drop a folder only by a step that `dropped` records or that starts its import (`FollowKeeps`); a tick that clears
`dirty` leaves the folder waiting or its import begun; contents are numbered, so a change is never equal to what was seen before.

**Import history.** Whatever is true of any two rows of a list stays true of a part of it in which each element comes from a place of its own
(`PartOf`): what `_drop_superseded()`, the cap and the removal of an entry leave is such a part. New rows agree with each other because of the filters of
`record_run()`, and with the old ones because those are of earlier runs (`RowsUpTo`) or were not superseded. Of a run, each task has a folder that no other task,
no report and nothing still to look at has (`FoldersApart`), though merged tasks share the library's; so what is remembered of a task is never part of a report, unless the
report is its own, which forgets it (`Unfinished`).

**Playlists.** An edit leaves its playlist in `unscheduled` until `Schedule` gives it a timer; a timer that is replaced is replaced by
one that waits; `Pop` turns a newer entry into a loose timer and its own thread still has to read; only `ReadRow` ends the
wait; `Exit` takes over what it cancels, and gives it up when an export raises (`GivenUp`): those edits, and no others, are lost. `IdsOnce` says that playlists whose files are still to be unlinked are
gone and their ids not given again: else `Unlink`, which cancels the timer of *its* id, could cancel that
of a new playlist; it is `AUTOINCREMENT` that rules this out.

`OthersUntouched` needs to know of every path the program holds that no foreign file is there (`Ours`), and that no step makes a path foreign: substitutes are
exempt, a first choice is taken only if nothing is there or the row records it, and generated playlists are read-only, so that no export has one.
`DirectoryMatches` is about the rest. While a playlist is undisturbed, no other row records a path it claims, no other export touches it and no deletion will unlink it (`Apart`): `Choose` is
the step that could break this, and then disturbs both. It has one export at most, whose row is of its last edit unless a new one is to be read (`Lone`, `Fresh`); what that export
has written stays, and once the old file is unlinked it is the only one (`Written`). So `Record` finds what `Settled` says, and each file is owned by a row, an export or a
deletion (`FilesOwned`). Most other steps leave all this alone, which one lemma says for all of them (`AsideKeeps`).

**Podcast downloads.** Threads, workers and maintenance are different actors (`ActorsAssumption`). `DownloadsSound` follows from ownership: a
reservation belongs to the thread that took it, to one job of the queue or to one worker, or it is leaked (`Owned`,
itself a theorem, `ReservationsAreOwned`); two downloads of an episode would be two owners. Only the owner writes the `.part`, so what
it renames is whole (`Parts`). `Spares` is about releases: until a release counts the wants, the users in `spared`, who have wanted the episode ever since it began, are among those who
want it, so that a count of none leaves nobody in `spared`; every step that removes a want takes its user off that list.

**Podcast channels.** `RefreshTrue` needs the step at which each actor is. `NoTwin` needs more: an address may be upgraded, a channel deleted and its feed inserted
again between the look-up of a request and its insert, but a channel never changes its feed and ids are never given again, so that what an actor has read of
the feeds of channels stays true of those that are still there (`ActFeed`, kept by `FeedsStay`). An OPML import is at one stage at a time (the request that
submits it, the queue, the worker), since the limit is held until it ends: hence the counters that a stage adds to are those of its import (`ImportsOK`).

**Health.** A file that is replaced gets a later time, so a check is either of an earlier file or of this one (`FoundTrue`). While nothing disturbs a scan, the rows of a song it has
still to look at are those it read at its start, and those of the songs behind it are exact (`SteadyLook`); a sweep that finds something stale counts as a disturbance.
A like, a check, a listed song and a reference a sweep holds are each of a song that is in the library or has been out (`AbsentInv`).

**Lookups.** The time of the files is read before the cache's part is taken and the index built from it, so an index may be newer than its stamp and never older.

**Outbox.** A row has its id for good and is owned by one job; `TakeJob` splits the rows it reads by connection and keeps their order (`Kept` and its lemmas);
`Record` removes those of the batch only, after its answer. A row is sent again only if the answer was lost or the job died, which `doubtful` records.

**Doors.** A check of an address reads the lists one after the other while an admin sets them: both verdicts it reaches are those of a pair in force since
it came. Of login limits, failures that count are a final part of each list (they are in the order of their times), so that sweeping keeps the count; `Overshoot` gives each checked
attempt its place beside those counted, and `AddressCountsAll` is the cardinality of a matching (`Within`), which adding to both sides,
forgetting on the side of the names, and the passing of time keep. A web session's stamp is that of a password the user has had, and a request that goes on has compared it with the row it
read. The count of a share is the sum of what each request claimed and did not give back: a step of one request changes its own part only (`Follows`).

**Storage.** Of backups, `NoFile` is no database (`NoFileIsNone`): a checkpoint settles what the log holds, which includes what the main file holds; moving
the database aside keeps it in a copy; the log is only dropped when the main file is gone, hence copied; what is put in place was an archive.
Of upgrades, the plays of the new ids are in a bijection with those of the old ones, which the steps of the migrations extend one id at a time, and
a kill takes both back to the last commit.

**Tokens, transcodes, HLS.** Uses of tokens are numbered, so that adding one at the end keeps the order of expiry. Of transcodes and HLS
sessions each request changes its own record and at most one of the counts (`SlotsStay`, and a lemma for each way to take or give back); the steps that shorten the HLS cache keep
every session that is encoded, by the lemmas on `Kept`.

**Chat.** What a poll returns is the beginning of what is newer than the last message shown, and what scrolling adds is the end of what is older than the first:
so the list stays ascending and whole between its ends, and new messages come after it. `OldestGo` counts: were a removed message newer than one that stays, fewer would be newer than it.

**Jukebox.** Queue and playlist differ while an operation runs, so the invariant looks ahead: `Going` says that the commands an operation has left will make them the same, from
what they are now or, before its first command, from an mpv that has just been started. It names the shape of what is left (what an edit of the queue appends, removes, or loads again), and each step
of `Program` takes one shape to the next. A death of mpv loses the playlist, which only an operation that sets it anew puts right; an operation cut in two goes to `torn`.
Operations on a player exclude each other, and a replaced player is used by nobody but requests that are in `late`.

**Choice of a stream.** What a decision says is kept in the token the client sends back, so that the request comes to the same under the same limit and settings; what is sent is checked against the limit in force unless it is transcoded as decided;
`ChoiceHolds` is an invariant and an action property, both from one inductive invariant.

Only model-checked: all liveness (`QueueDrains`, `WatchedImported`, `DownloadsSettle`, `StreamsFinish`, `Delivered`, `JukeboxSettles`,
and `MirrorConverges` in `MirrorsSound`), which is out of the prover's reach. Every other property of the passing runs is proved.

## 5. Hazards without a property

These were met while modelling; the models have the steps, but nothing in the repository promises that the outcome is excluded,
so they are not stated as properties.

- `interaction.py:373`: the pump opens the import log before its `try`; an error there leaves the session running for ever (`QueueServed` exempts it).
  `interaction.py:237`: the child survives the server, whose next process starts another import next to it.
- `interaction.py:335`: an answer racing with the pump's reading of a prompt; proved harmless (`PromptsAreVisible`).
- `podcasts.py:1276` and `:256`: a release or the sweep of leftovers unlinks a path it read before, though a new download took the name meanwhile.
- `podcasts.py:961`: a channel is deleted with a subscription that came after the count of subscribers was committed.
- `health.py:227`: a full scan ignores the stored checks, so that the flag of a file that reappeared stays until an incremental scan; `ScanIsExact` speaks of those.
- `beetstreamnext_events.py:131`: a task that beets dropped as a duplicate is freed, and the next one may get its `id()`, so that the duplicate is never reported.
- `import_history.py:94`: an album merged with its copy in the library has a common path that may be as high as the root, and every skipped row below it is dropped.
  `LastOutcome` is stated with the path of the report.
- `chat_poll.html:2`, with `chat.py:109`: the answer of a poll that finds nothing holds no `last_id`, so that the next poll asks from 0: the first 200 messages are shown again, below the
  newest, at every other poll while nobody writes. `NoGap` speaks of panels to which this has not happened; without that condition TLC finds the repetition at once.
- `artist_images.py:194`: the panel takes the first key of an artist that has a row, a client the first that has an image.
- `backup.py:193`: the log of a server that was killed is deleted while the database it belongs to is moved without it; `SettledKept` speaks of what a checkpoint settled.
- `playlists.py:397`: `flush_exports()` has no `try` around `_export()`, whose last transaction (464-480) is outside its own: an export that raises in the exit handler ends
  the loop, and the pending edits after it, whose timers it has cancelled, are written to no file until they are edited again. `EditsFollowed` exempts those (`GivenUp`).
- `artist_images.py:383`: the clean-up deletes by the keys it selected before it asked the library: an artist who leaves and comes back (a re-import, a change of tags and back) meanwhile
  loses an upload. `UploadsStay` speaks of artists who stayed in the library.
- `events.py:56`: a full queue loses its oldest event of whatever kind, so many events of one kind ('server-log', 'rate-limits') drop the only one of another; and when a stream has drained
  its queue between the two operations, or another publisher has filled it, it is the *new* event that is given up. Nothing makes that good before the next event of the kind or the next
  connection: lines of the server log that are lost so are not shown. `NothingStale` names the loss of the newest event, and snapshots published at once, as the only ways to a stale panel.
- `radio.py:60`: two requests at once give a user the same station twice; `NoStationTwice` says that this takes two at once.
- `playlists.py:431`: the substitute name of an export is not tested for being in use: the playlist with the id 2 takes over the file of one that somebody called "a (2)".
- `playlists.py:376`: a pass that found a generated file gone unlinks it when it has deleted the row, though the plugin may have written it again meanwhile.
- `playlists.py:458`: an export that failed leaves its row with a place it no longer has; if another playlist takes that place, the next export of the first
  removes the other's file, and no export is to come that would write it again. TLC finds this with five edits and a fault; `DirectoryMatches` exempts the other.
- `playqueue.py:227`: the index a client saves counts all its songs but picks among those that are in the library.

Open questions: a pass that stores a mirrored file over an edit not yet exported; a timer in `loose` when the process exits (timer threads are daemons, so it is lost); a crash between the
deletion of a playlist and its unlink, after which a mirrored one comes back; the files of playlists whose owner's account is deleted; an upgrade of the database that can never be resumed; `import_files` interrupted before it sets its flag; the Sonos
adapter with its stream tokens.

## 6. Not modelled

The library browser, search and serialisation (`serialise.py`, `ids.py`, and of `resolve.py` and `indexes.py` what `LibraryIndex` leaves out) compute the answer of one request from a
database this program does not write. The web forms, parameter checks and permissions of routes are functions of one request; routes
that call a modelled operation are its callers in the model. The start-up code runs once, in order; restarts are actions of the modules whose state they reset.
Of the modelled parts, hashing and encryption, image conversion, external web services, ffmpeg's arguments, validators of settings and the formats of notifications
are left out: they are data or calls of others, and a unit test reaches what can go wrong in them. Templates, styles and scripts are not modelled.
The reasons for each part are in `PROJECT.json`.

Simplifications inside modelled operations, with the lines they concern:

- `WebSessions.DeleteOwn`: no admin deletes the own account; the code forbids it on listeners that serve the admin panel. What an admin can do there is what `ManagerDeletes` does.
- `Shares.ZipFails`: of the errors while a zip is built, those of `stat()` and `utime()` of the cache (`public/routes/shares.py:98`, `:124`), of the last `unlink` (`:138`, after which the slot is not given
  back) and of sending the file are left out. They, too, leave the download counted.
- `HLS.PurgeOld`: the purge of old sessions (`maintenance.py:86`) does not ask whether one is being encoded, and an encode has no limit of time: supposed is that it ends within `HLS_MAX_AGE_SEC` (6 h).
- `HLS.EncodeEnds`: a thread that cannot be started (`stream.py:582`) would keep its slot and its mark.
- `Transcodes.GetChunk`: the cut to the length that was declared (`transcode.py:228`) is left out, so `AllSent` is about what ffmpeg wrote before it. `AtEnd`: the reader is done within the 2 s of the `join`.
- `Settings`: settings that need a restart to take effect are left out.
- `Notifications`: the key of a switch is made of the list of URLs in its order, here of their set; an exception for one of the notifications ends the dispatch of the event to the later ones.
- `EventBus`: what a panel shows of a kind is up to which event of the kind it knows; the content is not modelled.
