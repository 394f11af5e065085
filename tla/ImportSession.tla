---------------------------- MODULE ImportSession ----------------------------
(***************************************************************************)
(* The `beet import` runner of BeetstreamNext                              *)
(* (core/library/beets/interaction.py, class ImportSession): one session   *)
(* object shared by the web, control API, Subsonic and watcher threads, a  *)
(* re-entrant lock, a queue of folders, and for every import it spawns a   *)
(* child process and a pump thread that reads the child's terminal until   *)
(* it exits, then stores the results and starts the next queued folder.    *)
(*                                                                         *)
(* Every section the code runs under `_lock` is one step.  What the pump   *)
(* does after it released the lock (read the results file, store the rows, *)
(* start the next entry) are steps of their own, because other threads run *)
(* in between.                                                             *)
(***************************************************************************)
EXTENDS Integers, Sequences, FiniteSets

CONSTANTS
    Paths,          \* the folders an import can be asked for
    NoPath,         \* `None` for a path
    Pinned,         \* what list_pinned_paths() returns, in its order
    MaxAsked,       \* bound: folders asked for over a behaviour
    MaxLines        \* bound: answer lines waiting in one child's terminal

ASSUME PathsAssumption == NoPath \notin Paths
ASSUME PinnedAssumption ==
    /\ Pinned \in Seq(Paths)
    /\ Pinned # << >>
    /\ \A i, j \in 1..Len(Pinned) : Pinned[i] = Pinned[j] => i = j
ASSUME BoundsAssumption == MaxAsked \in Nat /\ MaxLines \in Nat \ {0}

VARIABLES
    state,      \* _state
    current,    \* _current_path
    fd,         \* _master_fd: the run whose terminal it is, 0 for None
    queue,      \* _queue
    runs,       \* every import spawned so far: child process and pump thread
    results,    \* the results file: the runs that have a record in it
    history,    \* rows stored in import_history
    asked       \* folders asked for (bounds the model)

vars == <<state, current, fd, queue, runs, results, history, asked>>

-----------------------------------------------------------------------------
States == {"idle", "running", "needs_input", "completed", "failed"}

\* Where a pump thread is.  "closed": terminal closed, waiting for the exit
\* status; "finished": the session is marked over; "recorded": the rows are
\* stored, _start_next_queued() is next; "dead": an OSError on the log file ended the thread.
PumpStates == {"opening", "reading", "closed", "finished",
               "recorded", "done", "dead"}
Unfinished == {"opening", "reading", "closed"}
Live       == PumpStates \ {"done", "dead"}

Entry == [path: Paths, quiet: BOOLEAN]

Row == [runPath: Paths, album: Nat]     \* an album reported by run `album`

Run == [path: Paths, quiet: BOOLEAN,
        child: {"busy", "waiting", "exited"},
        tty: 0..MaxLines,               \* answers the child has not read yet
        unread: BOOLEAN,                \* a prompt the pump has not read yet
        pump: PumpStates,
        credit: Paths \cup {NoPath}]    \* `path` in _finish

TypeOK ==
    /\ state \in States
    /\ current \in Paths \cup {NoPath}
    /\ runs \in Seq(Run)
    /\ fd \in 0..Len(runs)
    /\ queue \in Seq(Entry)
    /\ results \subseteq 1..Len(runs)
    /\ history \subseteq Row
    /\ asked \in 0..MaxAsked

RunIds == 1..Len(runs)

IsRunning == state \in {"running", "needs_input"}

QueuedPaths == {queue[i].path : i \in 1..Len(queue)}

NewRun(path, quiet) ==
    [path |-> path, quiet |-> quiet, child |-> "busy", tty |-> 0, unread |-> FALSE, pump |-> "opening", credit |-> NoPath]

(* A run whose pump has ended: what no later step reads is reset.           *)
Over(run) == [NewRun(run.path, TRUE) EXCEPT !.child = "exited", !.pump = "done"]

Init ==
    /\ state = "idle"
    /\ current = NoPath
    /\ fd = 0
    /\ queue = << >>
    /\ runs = << >>
    /\ results = {}
    /\ history = {}
    /\ asked = 0

-----------------------------------------------------------------------------
(* Mutant of Launch: start() does not look whether an import is running.    *)
LaunchUnguarded(path, quiet, rs) ==
    /\ results' = {}
    /\ runs' = Append(rs, NewRun(path, quiet))
    /\ fd' = Len(rs) + 1
    /\ current' = path
    /\ state' = "running"

(* start(), the part of it that succeeds.  `rs` is the run table the caller *)
(* leaves behind.  The results file is emptied (the model takes it, and the  *)
(* beets config, to be usable: the code goes on without reporting if not).  *)
Launch(path, quiet, rs) ==
    /\ ~IsRunning
    /\ results' = {}
    /\ runs' = Append(rs, NewRun(path, quiet))
    /\ fd' = Len(rs) + 1
    /\ current' = path
    /\ state' = "running"

(* start() returning False: busy, not a usable folder, disk writes not      *)
(* allowed, or the process could not be spawned.  A spawn that fails comes  *)
(* after the results file was emptied.                                      *)
Refuse ==
    /\ results' \in IF IsRunning THEN {results} ELSE {results, {}}
    /\ UNCHANGED <<state, current, fd>>

Ask(n) == asked + n <= MaxAsked /\ asked' = asked + n

(* POST /beets/import/start and the reimport button: an interactive import. *)
Start(path) ==
    /\ Ask(1)
    /\ \/ Launch(path, FALSE, runs)
       \/ Refuse /\ UNCHANGED runs
    /\ UNCHANGED <<queue, history>>

(* "Scan pinned folders" and Subsonic startScan.  The queue is replaced.    *)
StartPinned ==
    /\ Ask(Len(Pinned))
    /\ ~IsRunning
    /\ \/ /\ Launch(Pinned[1], TRUE, runs)
          /\ queue' = [i \in 1..Len(Pinned) - 1 |->
                          [path |-> Pinned[i + 1], quiet |-> TRUE]]
       \/ Refuse /\ UNCHANGED <<runs, queue>>
    /\ UNCHANGED history

(* enqueue_pinned(), called by the watcher.                                 *)
EnqueuePinned(path) ==
    /\ Ask(1)
    /\ \/ /\ IsRunning
          /\ queue' = IF path \in QueuedPaths THEN queue
                      ELSE Append(queue, [path |-> path, quiet |-> TRUE])
          /\ UNCHANGED <<state, current, fd, runs, results>>
       \/ Launch(path, TRUE, runs) /\ UNCHANGED queue
       \/ ~IsRunning /\ Refuse /\ UNCHANGED <<runs, queue>>
    /\ UNCHANGED history

(* Mutant of Enqueue: it queues whether or not an import is running.        *)
EnqueueAlways(path, quiet) ==
    /\ Ask(1)
    /\ queue' = IF path = current \/ path \in QueuedPaths THEN queue
                ELSE Append(queue, [path |-> path, quiet |-> quiet])
    /\ UNCHANGED <<state, current, fd, runs, results, history>>

(* enqueue(), called by POST /control-api/trigger-import.                   *)
Enqueue(path, quiet) ==
    /\ Ask(1)
    /\ \/ /\ IsRunning
          /\ queue' = IF path = current \/ path \in QueuedPaths THEN queue
                      ELSE Append(queue, [path |-> path, quiet |-> quiet])
          /\ UNCHANGED <<state, current, fd, runs, results>>
       \/ Launch(path, quiet, runs) /\ UNCHANGED queue
       \/ ~IsRunning /\ Refuse /\ UNCHANGED <<runs, queue>>
    /\ UNCHANGED history

(* send_input(): one line for the child of the current import.              *)
SendInput ==
    /\ IsRunning
    /\ fd # 0
    /\ runs[fd].tty < MaxLines
    /\ runs' = [runs EXCEPT ![fd].tty = @ + 1]
    /\ state' = "running"
    /\ UNCHANGED <<current, fd, queue, results, history, asked>>

-----------------------------------------------------------------------------
(* The child process, as beets and the beetstreamnext_events plugin drive it. *)

(* An interactive child prints a question and blocks on its terminal.       *)
ChildPrompts(r) ==
    /\ runs[r].child = "busy" /\ ~runs[r].quiet
    /\ fd = r
    /\ runs' = [runs EXCEPT ![r].child = "waiting", ![r].unread = TRUE]
    /\ UNCHANGED <<state, current, fd, queue, results, history, asked>>

(* A quiet child prints a line that has one of the prompt snippets in it    *)
(* ("This album is already in the library!") and goes on.                   *)
ChildWarns(r) ==
    /\ runs[r].child = "busy" /\ runs[r].quiet
    /\ fd = r
    /\ runs' = [runs EXCEPT ![r].unread = TRUE]
    /\ UNCHANGED <<state, current, fd, queue, results, history, asked>>

ChildReads(r) ==
    /\ runs[r].child = "waiting" /\ runs[r].tty > 0
    /\ runs' = [runs EXCEPT ![r].child = "busy", ![r].tty = @ - 1]
    /\ UNCHANGED <<state, current, fd, queue, results, history, asked>>

(* The companion plugin appends an album's outcome to the results file.     *)
ChildReports(r) ==
    /\ runs[r].child = "busy"
    /\ r \notin results
    /\ results' = results \cup {r}
    /\ UNCHANGED <<state, current, fd, queue, runs, history, asked>>

(* It ends its work, or finds its terminal closed while it waits.           *)
ChildExits(r) ==
    /\ \/ runs[r].child = "busy"
       \/ runs[r].child = "waiting" /\ runs[r].pump = "closed"
    /\ runs' = [runs EXCEPT ![r].child = "exited"]
    /\ UNCHANGED <<state, current, fd, queue, results, history, asked>>

-----------------------------------------------------------------------------
(* The pump thread of run r. *)

(* open() of the import log: an OSError ends the thread before its `try`.   *)
PumpOpens(r) ==
    /\ runs[r].pump = "opening"
    /\ \E next \in {"reading", "dead"} : runs' = [runs EXCEPT ![r].pump = next]
    /\ UNCHANGED <<state, current, fd, queue, results, history, asked>>

(* _handle_output_chunk() on a chunk with a prompt in it.                   *)
PumpReadsPrompt(r) ==
    /\ runs[r].pump = "reading" /\ runs[r].unread
    /\ runs' = [runs EXCEPT ![r].unread = FALSE]
    /\ state' = IF state = "running" THEN "needs_input" ELSE state
    /\ UNCHANGED <<current, fd, queue, results, history, asked>>

(* Mutant of PumpCloses: _master_fd keeps the closed descriptor.            *)
PumpClosesKeepsFd(r) ==
    /\ runs[r].pump = "reading"
    /\ runs' = [runs EXCEPT ![r].pump = "closed", ![r].tty = 0,
                            ![r].unread = FALSE]
    /\ UNCHANGED <<state, current, fd, queue, results, history, asked>>

(* The `finally` of _pump_output_posix() closes the terminal: at the end of *)
(* the output, or when a chunk cannot be written to the import log.         *)
PumpCloses(r) ==
    /\ runs[r].pump = "reading"
    /\ runs' = [runs EXCEPT ![r].pump = "closed", ![r].tty = 0,
                            ![r].unread = FALSE]
    /\ fd' = IF fd = r THEN 0 ELSE fd
    /\ UNCHANGED <<state, current, queue, results, history, asked>>

PumpSeesEnd(r) ==
    /\ runs[r].child = "exited" /\ ~runs[r].unread
    /\ PumpCloses(r)

PumpLogFails(r) == runs[r].child # "exited" /\ PumpCloses(r)

(* The locked part of _finish(), once proc.wait() has returned; the log     *)
(* line written right after it may raise, which ends the thread.            *)
PumpFinishes(r) ==
    /\ runs[r].pump = "closed" /\ runs[r].child = "exited"
    /\ state' \in {"completed", "failed"}
    /\ \E next \in {"finished", "dead"} :
        runs' = [runs EXCEPT ![r].pump = next, ![r].credit = current]
    /\ UNCHANGED <<current, fd, queue, results, history, asked>>

(* read_results() and import_history.record_run(), without the lock.  One   *)
(* step: only the read can race.  A database error is logged and ignored.   *)
PumpRecords(r) ==
    /\ runs[r].pump = "finished"
    /\ runs' = [runs EXCEPT ![r].pump = "recorded"]
    /\ \/ history' = history \cup
              {[runPath |-> runs[r].credit, album |-> a] : a \in results}
       \/ UNCHANGED history
    /\ UNCHANGED <<state, current, fd, queue, results, asked>>

(* Mutant of PumpAdvances: _finish() does not start the next entry.         *)
PumpForgetsQueue(r) ==
    /\ runs[r].pump = "recorded"
    /\ runs' = [runs EXCEPT ![r] = Over(@)]
    /\ UNCHANGED <<state, current, fd, queue, results, history, asked>>

(* Mutant of PumpAdvances: the last entry is popped, not the first.         *)
PumpAdvancesLast(r) ==
    /\ runs[r].pump = "recorded"
    /\ LET rest == [runs EXCEPT ![r] = Over(@)]
           last == queue[Len(queue)]
       IN  \/ /\ queue = << >>
              /\ runs' = rest
              /\ UNCHANGED <<state, current, fd, queue, results>>
           \/ /\ queue # << >>
              /\ Launch(last.path, last.quiet, rest)
              /\ queue' = SubSeq(queue, 1, Len(queue) - 1)
    /\ UNCHANGED <<history, asked>>

(* _start_next_queued(): the head of the queue is started, and when it      *)
(* cannot be, the whole queue is dropped.                                   *)
PumpAdvances(r) ==
    /\ runs[r].pump = "recorded"
    /\ LET rest == [runs EXCEPT ![r] = Over(@)] IN
        \/ /\ queue = << >>
           /\ runs' = rest
           /\ UNCHANGED <<state, current, fd, queue, results>>
        \/ /\ queue # << >>
           /\ Launch(Head(queue).path, Head(queue).quiet, rest)
           /\ queue' = Tail(queue)
        \/ /\ queue # << >>
           /\ Refuse
           /\ runs' = rest
           /\ queue' = << >>
    /\ UNCHANGED <<history, asked>>

-----------------------------------------------------------------------------
Requests ==
    \/ \E p \in Paths : Start(p) \/ EnqueuePinned(p)
    \/ \E p \in Paths, quiet \in BOOLEAN : Enqueue(p, quiet)
    \/ StartPinned
    \/ SendInput

Child(r) ==
    \/ ChildPrompts(r) \/ ChildWarns(r) \/ ChildReads(r)
    \/ ChildReports(r) \/ ChildExits(r)

Pump(r) ==
    \/ PumpOpens(r) \/ PumpReadsPrompt(r) \/ PumpSeesEnd(r)
    \/ PumpLogFails(r) \/ PumpFinishes(r) \/ PumpRecords(r)
    \/ PumpAdvances(r)

Next == Requests \/ \E r \in RunIds : Child(r) \/ Pump(r)

Spec == Init /\ [][Next]_vars

(* Threads and processes are scheduled, and beets ends its work however many *)
(* questions it asks, as long as each of them is answered.  Nobody has to    *)
(* ask for an import or to answer.                                           *)
Fairness ==
    \A r \in 1..MaxAsked :
        /\ WF_vars(r \in RunIds /\ Pump(r))
        /\ WF_vars(r \in RunIds /\ ChildReads(r))
        /\ SF_vars(r \in RunIds /\ ChildExits(r))

FairSpec == Spec /\ Fairness

-----------------------------------------------------------------------------
(* Two imports never write to the library at once: whoever asked for them,  *)
(* every child but the last one spawned has exited, and the session says    *)
(* "running" exactly until the last one is over (start()'s guard).          *)
OneImport ==
    /\ \A r \in RunIds : r < Len(runs) =>
          runs[r].child = "exited" /\ runs[r].pump \notin Unfinished
    /\ IsRunning =>
          /\ Len(runs) > 0
          /\ runs[Len(runs)].pump \in Unfinished \cup {"dead"}
          /\ runs[Len(runs)].path = current
    /\ ~IsRunning => \A r \in RunIds :
          runs[r].child = "exited" /\ runs[r].pump \notin Unfinished

(* A line typed by an admin can only reach the import that is running: the  *)
(* terminal send_input() writes to is the last run's, and still open.       *)
TerminalOfTheRun ==
    fd # 0 => /\ fd = Len(runs) /\ IsRunning
              /\ runs[fd].pump \in {"opening", "reading", "dead"}

(* When beets blocks on a question, and no answer to it is on its way, the  *)
(* session shows "needs_input", even when answers raced with the pump       *)
(* reading the questions: nobody would know that the import waits.          *)
PromptVisible ==
    \A r \in RunIds :
        /\ runs[r].child = "waiting" /\ runs[r].tty = 0
        /\ runs[r].pump \in {"opening", "reading"} /\ ~runs[r].unread
        => state = "needs_input"

NoPumpDied == \A r \in RunIds : runs[r].pump # "dead"

(* A folder acknowledged with 'Queued.' is never left behind: as long as no *)
(* pump thread died, one of them still has to call _start_next_queued().    *)
QueueServed ==
    queue # << >> /\ NoPumpDied => \E r \in RunIds : runs[r].pump \in Live

(* Every queued folder is started or dropped in the end, unless an import    *)
(* waits for ever for an answer or a pump thread died.                       *)
QueueDrains ==
    \/ []<>(queue = << >>)
    \/ <>[](~NoPumpDied \/ \E r \in RunIds : runs[r].child = "waiting")

(* An import that was asked for while another is running waits behind it:   *)
(* the queue does not lose an entry while an import runs.                   *)
WaitsBehind ==
    [][IsRunning /\ IsRunning' => Len(queue') >= Len(queue)]_vars

(* Every row of the import history names the folder of the run that         *)
(* reported it.                                                             *)
RowsNameTheirRun ==
    \A row \in history : row.runPath = runs[row.album].path

-----------------------------------------------------------------------------
(* The session implements the queue its callers rely on.                    *)
Ending == {r \in RunIds : runs[r].pump \in {"finished", "recorded"}}

Queue == INSTANCE ImportQueue WITH
    active  <- IF IsRunning THEN current ELSE NoPath,
    waiting <- [i \in 1..Len(queue) |-> queue[i].path],
    ending  <- Cardinality(Ending)

ImplementsQueue == Queue!QueueSpec

=============================================================================
