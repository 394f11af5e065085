---------------------------- MODULE ImportWatcher ----------------------------
(***************************************************************************)
(* The thread that polls the watched pinned folders and asks the import    *)
(* session for an import of a folder whose audio files changed and then    *)
(* stayed the same for `import_watch_settle` seconds                       *)
(* (core/library/import_watcher.py, class ImportWatcher).                  *)
(*                                                                         *)
(* The session is ImportQueue, which ImportSession implements.  The        *)
(* contents of a folder are the number of the change that made them, 0     *)
(* when it has no audio files.                                             *)
(***************************************************************************)
EXTENDS ImportQueue, FiniteSets

CONSTANTS
    MaxChanges,     \* bound: changes of a folder's contents
    MaxOthers,       \* bound: imports asked for by somebody else
    MaxEnding       \* bound: imports that are over at a time (`ending`)

ASSUME WatcherBounds ==
    MaxChanges \in Nat /\ MaxOthers \in Nat /\ MaxEnding \in Nat \ {0}

ASSUME PinnedFolders == Pinned \in Seq(Paths) /\ Pinned # << >>

VARIABLES
    files,      \* the contents of each pinned folder
    changes,    \* changes of contents so far (the next version, and a bound)
    watched,    \* the folders listed with watch = 1; none when watching is off
    snapshot,   \* PathState.snapshot, -1 for None
    dirty,      \* PathState.dirty
    settled,    \* now - changed_at >= settle, had the clock been read now
    todo,       \* folders tick() has still to look at
    asking,     \* the folder tick() found no import running for, or NoPath
    tried,      \* the contents the last import of a folder started from
    dropped,    \* folders that left the queue without an import since they changed
    others       \* imports asked for by somebody else (bounds the model)

watchVars  == <<snapshot, dirty, settled, todo, asking>>
outside    == <<files, changes, watched>>
ghosts     == <<tried, dropped>>
stepVars       == <<queueVars, watchVars, outside, ghosts, others>>

PinnedPaths == {Pinned[i] : i \in 1..Len(Pinned)}

WatchInit ==
    /\ QueueInit
    /\ files = [p \in PinnedPaths |-> 0]
    /\ changes = 0
    /\ watched \in SUBSET PinnedPaths
    /\ snapshot = [p \in PinnedPaths |-> -1]
    /\ dirty = [p \in PinnedPaths |-> FALSE]
    /\ settled = [p \in PinnedPaths |-> FALSE]
    /\ todo = {}
    /\ asking = NoPath
    /\ tried = [p \in PinnedPaths |-> 0]
    /\ dropped = {}
    /\ others = 0

-----------------------------------------------------------------------------
(* What a step of the queue does to the two ghosts.                         *)
Follow ==
    LET begun == IF active = NoPath /\ active' # NoPath THEN {active'} ELSE {}
    IN  /\ tried' = [p \in PinnedPaths |->
                        IF p \in begun THEN files[p] ELSE tried[p]]
        /\ dropped' = (dropped \cup ((WaitingPaths \ WaitingPaths') \cap PinnedPaths)) \ begun

Others == /\ others < MaxOthers /\ others' = others + 1
          /\ \/ \E p \in Paths : Direct(p) \/ Wait(p)
             \/ Scan
          /\ Follow
          /\ UNCHANGED <<watchVars, outside>>

(* The session's pump threads (none of them dies here).                     *)
Session == /\ (ending < MaxEnding /\ End) \/ NoneWaits \/ StartNext \/ DropAll
           /\ Follow
           /\ UNCHANGED <<watchVars, outside, others>>

(* Audio files appear in a folder, are written to, or all go away.          *)
Change(p) ==
    /\ changes < MaxChanges /\ changes' = changes + 1
    /\ \E contents \in {0, changes + 1} : files' = [files EXCEPT ![p] = contents]
    /\ dropped' = dropped \ {p}
    /\ UNCHANGED <<queueVars, watchVars, watched, tried, others>>

(* An admin's change of the watch flags or of import_watch_enabled.         *)
SetWatched ==
    /\ \/ \E p \in PinnedPaths : watched' \in {watched \cup {p}, watched \ {p}}
       \/ watched' = {}
    /\ UNCHANGED <<queueVars, watchVars, files, changes, ghosts, others>>

-----------------------------------------------------------------------------
(* The clock passes changed_at + settle.                                    *)
Settle(p) ==
    /\ snapshot[p] >= 0 /\ ~settled[p]
    /\ settled' = [settled EXCEPT ![p] = TRUE]
    /\ UNCHANGED <<queueVars, snapshot, dirty, todo, asking, outside, ghosts, others>>

(* tick(): list the watched folders and forget the state of the others.     *)
TickStarts ==
    /\ todo = {} /\ asking = NoPath
    /\ todo' = watched
    /\ snapshot' = [p \in PinnedPaths |-> IF p \in watched THEN snapshot[p] ELSE -1]
    /\ dirty' = [p \in PinnedPaths |-> p \in watched /\ dirty[p]]
    /\ settled' = [p \in PinnedPaths |-> p \in watched /\ settled[p]]
    /\ UNCHANGED <<queueVars, asking, outside, ghosts, others>>

(* Mutant of TickLooks: what a folder holds when it is first looked at      *)
(* counts as already imported.                                              *)
TickLooksBaseline(p) ==
    /\ p \in todo /\ asking = NoPath
    /\ todo' = todo \ {p}
    /\ \/ /\ snapshot[p] # files[p]
          /\ snapshot' = [snapshot EXCEPT ![p] = files[p]]
          /\ dirty' = [dirty EXCEPT ![p] = files[p] # 0 /\ snapshot[p] >= 0]
          /\ settled' = [settled EXCEPT ![p] = FALSE]
          /\ UNCHANGED asking
       \/ /\ snapshot[p] = files[p]
          /\ asking' = IF dirty[p] /\ settled[p] /\ ~Busy THEN p ELSE NoPath
          /\ UNCHANGED <<snapshot, dirty, settled>>
    /\ UNCHANGED <<queueVars, outside, ghosts, others>>

(* One turn of its loop, up to the is_running() check.                      *)
TickLooks(p) ==
    /\ p \in todo /\ asking = NoPath
    /\ todo' = todo \ {p}
    /\ \/ /\ snapshot[p] # files[p]
          /\ snapshot' = [snapshot EXCEPT ![p] = files[p]]
          /\ dirty' = [dirty EXCEPT ![p] = files[p] # 0]
          /\ settled' = [settled EXCEPT ![p] = FALSE]
          /\ UNCHANGED asking
       \/ /\ snapshot[p] = files[p]
          /\ asking' = IF dirty[p] /\ settled[p] /\ ~Busy THEN p ELSE NoPath
          /\ UNCHANGED <<snapshot, dirty, settled>>
    /\ UNCHANGED <<queueVars, outside, ghosts, others>>

(* Mutant of Answered: `dirty` is cleared whatever enqueue_pinned() says.   *)
AnsweredAlways(ok) ==
    /\ dirty' = [dirty EXCEPT ![asking] = FALSE]
    /\ asking' = NoPath
    /\ Follow
    /\ UNCHANGED <<snapshot, settled, todo, outside, others>>

(* enqueue_pinned(), and the rest of the turn.  By now another import may   *)
(* be running, and then the folder is queued.                               *)
Answered(ok) ==
    /\ dirty' = IF ok THEN [dirty EXCEPT ![asking] = FALSE] ELSE dirty
    /\ asking' = NoPath
    /\ Follow
    /\ UNCHANGED <<snapshot, settled, todo, outside, others>>

TickAsks ==
    /\ asking # NoPath
    /\ \/ Direct(asking)
       \/ Wait(asking)
       \/ Busy /\ asking \in WaitingPaths /\ UNCHANGED queueVars
    /\ Answered(TRUE)

(* start() returned False.                                                  *)
TickRefused ==
    /\ asking # NoPath /\ ~Busy
    /\ UNCHANGED queueVars
    /\ Answered(FALSE)

Watcher == TickStarts \/ (\E p \in PinnedPaths : TickLooks(p)) \/ TickAsks

WatchNext ==
    \/ Others \/ Session
    \/ (\E p \in PinnedPaths : Change(p)) \/ SetWatched
    \/ (\E p \in PinnedPaths : Settle(p))
    \/ Watcher \/ TickRefused

(* The watcher polls for ever and time passes; imports end (somebody        *)
(* answers what they ask) and their threads go on.  start() does not refuse *)
(* a folder every time it is asked (SF on TickAsks).                        *)
WatchSpec ==
    /\ WatchInit /\ [][WatchNext]_stepVars
    /\ WF_stepVars(Watcher) /\ WF_stepVars(Session) /\ SF_stepVars(TickAsks)
    /\ \A p \in PinnedPaths : WF_stepVars(Settle(p))

-----------------------------------------------------------------------------
New(p) == files[p] \notin {0, tried[p]}

(* New audio files in a watched folder are never forgotten: until an import *)
(* of the folder has started after they came, the watcher still has to see  *)
(* them, holds the folder as dirty, or the session has queued it, and the   *)
(* one way out is that the session dropped its queue.                       *)
Remembered ==
    \A p \in watched :
        New(p) => \/ snapshot[p] # files[p]
                  \/ dirty[p]
                  \/ p \in WaitingPaths \cup dropped

(* ... and when the folder stays watched an import of it does start, unless *)
(* the session dropped it from its queue.                                   *)
WatchedImported ==
    \A p \in PinnedPaths :
        (p \in watched /\ New(p)) ~> (p \notin watched \/ ~New(p) \/ p \in dropped)

=============================================================================
