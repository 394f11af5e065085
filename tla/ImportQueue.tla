----------------------------- MODULE ImportQueue -----------------------------
(***************************************************************************)
(* What the import session promises to the threads that ask for imports:   *)
(* one import at a time, later ones waiting in a queue that is first in    *)
(* first out.  A waiting folder leaves the queue when it is started, when  *)
(* a scan of the pinned folders replaces the queue, or when the next       *)
(* folder cannot be started and the whole queue is dropped.                *)
(*                                                                         *)
(* ImportSession implements this module; ImportWatcher is built on it.     *)
(***************************************************************************)
EXTENDS Integers, Sequences

CONSTANTS Paths, NoPath, Pinned

VARIABLES
    active,     \* the folder being imported, or NoPath
    waiting,    \* the folders queued behind it
    ending      \* imports that are over but have not started the next one yet

queueVars == <<active, waiting, ending>>

QueueTypeOK ==
    /\ active \in Paths \cup {NoPath}
    /\ waiting \in Seq(Paths)
    /\ ending \in Nat

QueueInit == active = NoPath /\ waiting = << >> /\ ending = 0

Busy == active # NoPath

WaitingPaths == {waiting[i] : i \in 1..Len(waiting)}

Begin(path) == ~Busy /\ active' = path

(* start(), and enqueue() or enqueue_pinned() while nothing runs            *)
Direct(path) == Begin(path) /\ UNCHANGED <<waiting, ending>>

(* enqueue() or enqueue_pinned() while an import runs                       *)
Wait(path) ==
    /\ Busy /\ path \notin WaitingPaths
    /\ waiting' = Append(waiting, path)
    /\ UNCHANGED <<active, ending>>

(* start_pinned()                                                           *)
Scan ==
    /\ Begin(Pinned[1])
    /\ waiting' = Tail(Pinned)
    /\ UNCHANGED ending

(* _finish(): the import is over ...                                        *)
End ==
    /\ Busy
    /\ active' = NoPath
    /\ ending' = ending + 1
    /\ UNCHANGED waiting

(* ... or it is over and its thread died, so that it starts no other import *)
EndAlone == Busy /\ active' = NoPath /\ UNCHANGED <<waiting, ending>>

(* _start_next_queued()                                                     *)
NoneWaits == ending > 0 /\ waiting = << >> /\ ending' = ending - 1
             /\ UNCHANGED <<active, waiting>>

StartNext ==
    /\ ending > 0 /\ waiting # << >>
    /\ Begin(Head(waiting))
    /\ waiting' = Tail(waiting)
    /\ ending' = ending - 1

DropAll ==
    /\ ending > 0 /\ waiting # << >>
    /\ waiting' = << >>
    /\ ending' = ending - 1
    /\ UNCHANGED active

QueueNext ==
    \/ \E p \in Paths : Direct(p) \/ Wait(p)
    \/ Scan
    \/ End \/ EndAlone
    \/ NoneWaits \/ StartNext \/ DropAll

QueueSpec == QueueInit /\ [][QueueNext]_queueVars

=============================================================================
