--------------------------- MODULE PlaylistsProofs ---------------------------
(***************************************************************************)
(* Playlists, for any number of playlists, users, names, edits and exports *)
(* at once: no edit is left without an export that is still to read it,    *)
(* files of other programs are left alone, and when everything has settled *)
(* the playlist directory holds the playlists.                             *)
(***************************************************************************)
EXTENDS Playlists, FiniteSetTheorems, TLAPS

(***************************************************************************)
(* Three invariants, one on top of the other. PInv has the timers: an edit *)
(* that no export has read has one that is to come. HInv has the types,    *)
(* and keeps the hands of exports and passes off what is not theirs. DInv  *)
(* is about own playlists that nothing has disturbed: the paths each one   *)
(* lays claim to, in its row or in its export, are apart from whatever     *)
(* anybody else records, touches or unlinks, so that what its export       *)
(* writes stays until the row says so.                                     *)
(***************************************************************************)

(* The records of the exports have the fields their step needs.             *)
ThreadShape ==
    /\ DOMAIN thread = Exports
    /\ \A t \in Exports :
        \/ thread[t] \in {Idle, Raised(t)}
        \/ /\ thread[t].pc \in {"fired", "popped"} /\ thread[t].id \in Ids
           /\ thread[t] = [pc |-> thread[t].pc, id |-> thread[t].id]
        \/ /\ thread[t].pc \in {"read", "tracks"}
           /\ thread[t] = [pc |-> thread[t].pc, id |-> thread[t].id, row |-> thread[t].row]
        \/ /\ thread[t].pc \in {"chosen", "replaced", "unlinked"}
           /\ thread[t] = [pc |-> thread[t].pc, id |-> thread[t].id,
                           row |-> thread[t].row, target |-> thread[t].target]

TimerShape ==
    /\ entry \in [Ids -> {"none", "waits", "over"}]
    /\ loose \in [Ids -> Nat]
    /\ unscheduled \subseteq Ids /\ unread \subseteq Ids /\ flushing \subseteq Ids
    /\ exiting \in BOOLEAN /\ (exiting \/ flushing = {})

(* An id is never given twice: a playlist whose file is being removed has   *)
(* no edits to come, and a new one none from before.                        *)
IdsOnce ==
    /\ config \in Configurations /\ created \in 0..MaxIds
    /\ DOMAIN playlist \subseteq 1..created /\ unread \subseteq 1..created
    /\ \A d \in unlinking : d.id \in 1..created /\ ~Live(d.id)

(* EditsFollowed, with the edits the exit handler has given up among those  *)
(* it has taken over.                                                       *)
EditsHeld ==
    \A p \in unread : Live(p) =>
        \/ p \in unscheduled \cup flushing
        \/ entry[p] = "waits" \/ loose[p] > 0
        \/ \E t \in Exports : thread[t].pc \in {"fired", "popped"} /\ thread[t].id = p

(* The inductive invariant. *)
PInv == ThreadShape /\ TimerShape /\ IdsOnce /\ EditsHeld

(* The export at one step is all that the steps of an export replace.       *)
LEMMA ReplaceThread ==
    ASSUME ThreadShape, NEW t \in Exports, NEW x, thread' = [thread EXCEPT ![t] = x]
    PROVE  /\ DOMAIN thread' = Exports /\ thread'[t] = x
           /\ \A u \in Exports : u # t => thread'[u] = thread[u]
  BY DEF ThreadShape

(* An export that has ended, by an exception or without, has no more steps. *)
LEMMA AtRest ==
    ASSUME NEW t, NEW x \in {Idle, Raised(t)}
    PROVE  x.pc \in {"idle", "raised"}
  BY DEF Idle, Raised

LEMMA EndsAtRest ==
    ASSUME ThreadShape, NEW t \in Exports, Record(t) \/ Fails(t)
    PROVE  \E x \in {Idle, Raised(t)} :
              /\ thread' = [thread EXCEPT ![t] = x] /\ thread'[t] = x
              /\ \A u \in Exports : u # t => thread'[u] = thread[u]
  <1>1. \E x \in {Idle, Raised(t)} : thread' = [thread EXCEPT ![t] = x]
    BY DEF Record, Fails, Failed
  <1> QED
    BY <1>1, ReplaceThread

LEMMA InitPInv == Init => PInv
  <1> SUFFICES ASSUME Init PROVE PInv
    OBVIOUS
  <1>1. ThreadShape /\ TimerShape
    BY DEF Init, ThreadShape, TimerShape, Idle
  <1>2. IdsOnce
    BY BoundsAssumption DEF Init, IdsOnce, Live
  <1>3. EditsHeld
    BY DEF Init, EditsHeld
  <1> QED
    BY <1>1, <1>2, <1>3 DEF PInv

LEMMA EditKeeps ==
    ASSUME PInv, NEW p \in Ids, Edited(p), created' \in 0..MaxIds, created' >= created,
           DOMAIN playlist' \subseteq 1..created', \A q \in Ids \ {p} : Live(q)' => Live(q),
           p \in 1..created', p \in DOMAIN playlist \/ p > created
    PROVE  PInv'
  <1>1. ThreadShape'
    BY DEF PInv, ThreadShape, Edited
  <1>2. TimerShape'
    BY DEF PInv, TimerShape, Edited, timers
  <1>3. IdsOnce'
    <2>1. created \in Nat /\ MaxIds \in Nat
      BY BoundsAssumption DEF PInv, IdsOnce
    <2> QED
      BY <2>1 DEF PInv, IdsOnce, Edited, Live, Ids
  <1>4. EditsHeld'
    <2> SUFFICES ASSUME NEW q \in unread', Live(q)'
                 PROVE  \/ q \in unscheduled' \cup flushing'
                        \/ entry'[q] = "waits" \/ loose'[q] > 0
                        \/ \E t \in Exports : thread'[t].pc \in {"fired", "popped"}
                                              /\ thread'[t].id = q
      BY DEF EditsHeld
    <2>1. CASE q = p
      BY <2>1 DEF Edited
    <2>2. CASE q # p
      BY <2>2 DEF PInv, EditsHeld, Edited, timers, TimerShape
    <2> QED
      BY <2>1, <2>2
  <1> QED
    BY <1>1, <1>2, <1>3, <1>4 DEF PInv

LEMMA RequestsKeep ==
    ASSUME PInv, NEW p \in Ids,
           \/ \E owner \in Users, name \in Names : Create(owner, name)
           \/ \E name \in Names, public \in BOOLEAN : Update(p, name, public)
           \/ EditTracks(p)
    PROVE  PInv'
  <1>1. created \in Nat /\ MaxIds \in Nat /\ config.ids \in 1..MaxIds
    BY BoundsAssumption, ConfigAssumption DEF PInv, IdsOnce
  <1>2. ASSUME NEW owner \in Users, NEW name \in Names, Create(owner, name) PROVE PInv'
    <2>1. /\ created + 1 \in Ids /\ created' = created + 1 /\ Edited(created + 1)
      BY <1>1, <1>2 DEF Create, Ids
    <2>2. DOMAIN playlist' = DOMAIN playlist \cup {created + 1}
      BY <1>2 DEF Create, With
    <2> QED
      BY <1>1, <2>1, <2>2, EditKeeps DEF PInv, IdsOnce, Live, Ids
  <1>3. ASSUME NEW name \in Names, NEW public \in BOOLEAN, Update(p, name, public) PROVE PInv'
    <2> DEFINE row == [playlist[p] EXCEPT !.name = name, !.public = public]
    <2>1. playlist' = [playlist EXCEPT ![p] = row]
      BY <1>3 DEF Update
    <2> HIDE DEF row
    <2>2. DOMAIN playlist' = DOMAIN playlist /\ created' = created /\ p \in DOMAIN playlist
          /\ Edited(p)
      BY <1>3, <2>1 DEF Update, CanEdit, Live
    <2> QED
      BY <1>1, <2>2, EditKeeps DEF PInv, IdsOnce, Live
  <1>4. ASSUME EditTracks(p) PROVE PInv'
    <2>1. PICK row : playlist' = [playlist EXCEPT ![p] = row]
      BY <1>4 DEF EditTracks
    <2>2. DOMAIN playlist' = DOMAIN playlist /\ created' = created /\ p \in DOMAIN playlist
      BY <1>4, <2>1 DEF EditTracks, CanEdit, Live
    <2> QED
      BY <1>1, <1>4, <2>2, EditKeeps DEF PInv, IdsOnce, Live, EditTracks
  <1> QED
    BY <1>2, <1>3, <1>4

(* Deleting a row leaves fewer edits to follow.                             *)
LEMMA RowDeletedKeeps ==
    ASSUME PInv, NEW p, Live(p), NEW by, RowDeleted(p, by)
    PROVE  PInv'
  <1>1. DOMAIN playlist' = DOMAIN playlist \ {p}
    BY DEF RowDeleted, Without, Restrict
  <1>2. ThreadShape' /\ TimerShape'
    BY DEF PInv, RowDeleted, ThreadShape, TimerShape, timers
  <1>3. IdsOnce'
    BY <1>1 DEF PInv, RowDeleted, IdsOnce, Live
  <1>4. EditsHeld'
    BY <1>1 DEF PInv, RowDeleted, EditsHeld, Live, timers
  <1> QED
    BY <1>2, <1>3, <1>4 DEF PInv

LEMMA ScheduleKeeps ==
    ASSUME PInv, NEW p \in Ids, Schedule(p)
    PROVE  PInv'
  <1>1. entry' = [entry EXCEPT ![p] = "waits"] /\ entry'[p] = "waits"
        /\ \A q \in Ids : q # p => entry'[q] = entry[q]
    BY DEF Schedule, PInv, TimerShape
  <1>2. ThreadShape' /\ TimerShape' /\ IdsOnce'
    BY <1>1 DEF PInv, Schedule, ThreadShape, TimerShape, IdsOnce, Live, rows, ghosts
  <1>3. EditsHeld'
    BY <1>1 DEF PInv, Schedule, EditsHeld, TimerShape, Live, rows, ghosts
  <1> QED
    BY <1>2, <1>3 DEF PInv

LEMMA UnlinkKeeps ==
    ASSUME PInv, NEW d \in unlinking, Unlink(d)
    PROVE  PInv'
  <1>1. d.id \in Ids /\ ~Live(d.id)
    BY BoundsAssumption DEF PInv, IdsOnce, Ids
  <1>2. \A q \in Ids : q # d.id => entry'[q] = entry[q]
    BY DEF Unlink, PInv, TimerShape
  <1>3. ThreadShape' /\ TimerShape' /\ IdsOnce'
    BY <1>1 DEF PInv, Unlink, ThreadShape, TimerShape, IdsOnce, Live, rows, ghosts
  <1>4. EditsHeld'
    BY <1>1, <1>2 DEF PInv, Unlink, EditsHeld, TimerShape, Live, rows, ghosts
  <1> QED
    BY <1>3, <1>4 DEF PInv

LEMMA FireKeeps ==
    ASSUME PInv, NEW t \in Exports, NEW p \in Ids, Fire(t, p)
    PROVE  PInv'
  <1>1. /\ DOMAIN thread' = Exports /\ thread'[t] = [pc |-> "fired", id |-> p]
        /\ \A u \in Exports : u # t => thread'[u] = thread[u]
    BY ReplaceThread DEF PInv, Fire
  <1>2. /\ entry' \in [Ids -> {"none", "waits", "over"}] /\ loose' \in [Ids -> Nat]
        /\ \A q \in Ids : q # p => entry'[q] = entry[q] /\ loose'[q] = loose[q]
    BY DEF PInv, Fire, TimerShape
  <1>3. ThreadShape'
    BY <1>1 DEF PInv, ThreadShape
  <1>4. TimerShape' /\ IdsOnce'
    BY <1>2 DEF PInv, Fire, TimerShape, IdsOnce, Live, rows, ghosts
  <1>5. EditsHeld'
    <2>1. thread[t].pc = "idle"
      BY DEF Fire, Idle
    <2> QED
      BY <1>1, <1>2, <2>1 DEF PInv, Fire, EditsHeld, TimerShape, Live, rows, ghosts
  <1> QED
    BY <1>3, <1>4, <1>5 DEF PInv

LEMMA PopKeeps ==
    ASSUME PInv, NEW t \in Exports, Pop(t)
    PROVE  PInv'
  <1> DEFINE p == thread[t].id
  <1>1. /\ thread[t].pc = "fired" /\ p \in Ids
        /\ thread[t] = [pc |-> "fired", id |-> p]
    BY DEF PInv, ThreadShape, Pop, Idle, Raised
  <1>2. thread' = [thread EXCEPT ![t] = [pc |-> "popped", id |-> p]]
    BY <1>1 DEF Pop
  <1>3. /\ DOMAIN thread' = Exports /\ thread'[t] = [pc |-> "popped", id |-> p]
        /\ \A u \in Exports : u # t => thread'[u] = thread[u]
    BY <1>2, ReplaceThread DEF PInv
  <1>4. /\ entry' \in [Ids -> {"none", "waits", "over"}] /\ loose' \in [Ids -> Nat]
        /\ \A q \in Ids : q # p => entry'[q] = entry[q] /\ loose'[q] = loose[q]
    BY <1>1 DEF PInv, Pop, TimerShape
  <1>5. ThreadShape'
    BY <1>1, <1>3 DEF PInv, ThreadShape
  <1>6. TimerShape' /\ IdsOnce'
    BY <1>4 DEF PInv, Pop, TimerShape, IdsOnce, Live, rows, ghosts
  <1>7. EditsHeld'
    BY <1>1, <1>3, <1>4 DEF PInv, Pop, EditsHeld, TimerShape, Live, rows, ghosts
  <1> QED
    BY <1>5, <1>6, <1>7 DEF PInv

(* The only step that reads a row ends the wait of its edits.               *)
LEMMA ReadRowKeeps ==
    ASSUME PInv, NEW t \in Exports, ReadRow(t)
    PROVE  PInv'
  <1> DEFINE p == thread[t].id
  <1>1. thread[t].pc = "popped" /\ unread' = unread \ {p}
    BY DEF ReadRow
  <1>2. PICK x : /\ thread' = [thread EXCEPT ![t] = x]
                 /\ x = Idle \/ x = [pc |-> "read", id |-> p, row |-> playlist[p]]
    BY DEF ReadRow
  <1>3. /\ DOMAIN thread' = Exports /\ thread'[t] = x
        /\ \A u \in Exports : u # t => thread'[u] = thread[u]
    BY <1>2, ReplaceThread DEF PInv
  <1>4. ThreadShape'
    BY <1>2, <1>3 DEF PInv, ThreadShape
  <1>5. TimerShape' /\ IdsOnce'
    BY <1>1 DEF PInv, ReadRow, TimerShape, IdsOnce, Live, rows, timers
  <1>6. EditsHeld'
    BY <1>1, <1>3 DEF PInv, ReadRow, EditsHeld, Live, rows, timers
  <1> QED
    BY <1>4, <1>5, <1>6 DEF PInv

(* All later steps of an export leave edits and timers alone.               *)
LEMMA WritingKeeps ==
    ASSUME PInv, NEW t \in Exports, NEW x, thread' = [thread EXCEPT ![t] = x],
           thread[t].pc \notin {"fired", "popped"},
           \/ x \in {Idle, Raised(t)}
           \/ \E p, row : x = [pc |-> "tracks", id |-> p, row |-> row]
           \/ \E pc \in {"chosen", "replaced", "unlinked"} : \E p, row, target :
                 x = Writing(pc, p, row, target),
           DOMAIN playlist' = DOMAIN playlist,
           UNCHANGED <<config, created, unscheduled, timers, unlinking, exiting, flushing,
                     unread>>
    PROVE  PInv'
  <1>1. /\ DOMAIN thread' = Exports /\ thread'[t] = x
        /\ \A u \in Exports : u # t => thread'[u] = thread[u]
    BY ReplaceThread DEF PInv
  <1>2. ThreadShape'
    BY <1>1 DEF PInv, ThreadShape, Writing, Raised
  <1>3. TimerShape' /\ IdsOnce'
    BY DEF PInv, TimerShape, IdsOnce, Live, timers
  <1>4. EditsHeld'
    BY <1>1 DEF PInv, EditsHeld, Live, timers
  <1> QED
    BY <1>2, <1>3, <1>4 DEF PInv

LEMMA ExportKeeps ==
    ASSUME PInv, NEW t \in Exports, Export(t) \/ Fails(t)
    PROVE  PInv'
  <1>1. ASSUME NEW p \in Ids, Fire(t, p) PROVE PInv'
    BY <1>1, FireKeeps
  <1>2. CASE Pop(t)
    BY <1>2, PopKeeps
  <1>3. CASE ReadRow(t)
    BY <1>3, ReadRowKeeps
  <1>4. CASE ReadTracks(t)
    <2> DEFINE row == [thread[t].row EXCEPT !.tracks =
                          IF Live(thread[t].id) THEN playlist[thread[t].id].tracks ELSE 0]
               x == [pc |-> "tracks", id |-> thread[t].id, row |-> row]
    <2>1. thread' = [thread EXCEPT ![t] = x]
      BY <1>4 DEF ReadTracks
    <2>2. thread[t].pc = "read" /\ UNCHANGED <<playlist, config, created, unscheduled, timers,
                                               unlinking, exiting, flushing, unread>>
      BY <1>4 DEF ReadTracks, rows, ghosts
    <2>3. \E p, r : x = [pc |-> "tracks", id |-> p, row |-> r]
      OBVIOUS
    <2> HIDE DEF x
    <2> QED
      BY <2>1, <2>2, <2>3, WritingKeeps
  <1>5. CASE Choose(t)
    <2>1. PICK target : thread' = [thread EXCEPT ![t] =
                            Writing("chosen", thread[t].id, thread[t].row, target)]
      BY <1>5 DEF Choose
    <2>2. thread[t].pc = "tracks" /\ UNCHANGED <<playlist, config, created, unscheduled, timers,
                                                 unlinking, exiting, flushing, unread>>
      BY <1>5 DEF Choose, rows
    <2> QED
      BY <2>1, <2>2, WritingKeeps
  <1>6. CASE Replace(t)
    <2>1. PICK pc \in {"unlinked", "replaced"} : thread' = [thread EXCEPT ![t] =
                            Writing(pc, thread[t].id, thread[t].row, thread[t].target)]
      BY <1>6 DEF Replace
    <2>2. thread[t].pc = "chosen" /\ UNCHANGED <<playlist, config, created, unscheduled, timers,
                                                 unlinking, exiting, flushing, unread>>
      BY <1>6 DEF Replace, rows, ghosts
    <2> QED
      BY <2>1, <2>2, WritingKeeps
  <1>7. CASE UnlinkOld(t)
    BY <1>7, WritingKeeps DEF UnlinkOld, rows, ghosts
  <1>8. CASE Record(t)
    <2>1. DOMAIN playlist' = DOMAIN playlist
      BY <1>8 DEF Record
    <2>2. PICK x \in {Idle, Raised(t)} : thread' = [thread EXCEPT ![t] = x]
      BY <1>8, EndsAtRest DEF PInv
    <2>3. thread[t].pc \notin {"fired", "popped"}
          /\ UNCHANGED <<config, created, unscheduled, timers, unlinking, exiting, flushing, unread>>
      BY <1>8 DEF Record, ghosts
    <2> QED
      BY <2>1, <2>2, <2>3, WritingKeeps
  <1>9. CASE Fails(t)
    <2>1. PICK x \in {Idle, Raised(t)} : thread' = [thread EXCEPT ![t] = x]
      BY <1>9, EndsAtRest DEF PInv
    <2>2. thread[t].pc \notin {"fired", "popped"} /\ DOMAIN playlist' = DOMAIN playlist
          /\ UNCHANGED <<config, created, unscheduled, timers, unlinking, exiting, flushing, unread>>
      BY <1>9 DEF Fails, rows
    <2> QED
      BY <2>1, <2>2, WritingKeeps
  <1> QED
    BY <1>1, <1>2, <1>3, <1>4, <1>5, <1>6, <1>7, <1>8, <1>9 DEF Export

(* A pass over the mirrored directories gives no playlist an edit to write  *)
(* out, and new ids to the rows it adds.                                    *)
LEMMA SyncStoreKeeps ==
    ASSUME PInv, SyncStore
    PROVE  PInv'
  <1>1. created \in Nat /\ MaxIds \in Nat /\ config.ids \in 1..MaxIds
    BY BoundsAssumption, ConfigAssumption DEF PInv, IdsOnce
  <1> PICK name : Store(name)
    BY DEF SyncStore
  <1>2. UNCHANGED <<config, unscheduled, timers, thread, unlinking, exiting, flushing, unread>>
    BY DEF Store, ghosts
  <1>3. \/ DOMAIN playlist' = DOMAIN playlist /\ created' = created
        \/ /\ created < config.ids /\ created' = created + 1
           /\ DOMAIN playlist' = DOMAIN playlist \cup {created + 1}
    <2> DEFINE f == sync.path
               ids == {k.id : k \in {m \in sync.known : m.source = f}}
    <2>1. CASE ids # {}
      BY <2>1 DEF Store
    <2>2. CASE ids = {}
      BY <2>2 DEF Store, With, rows
    <2> QED
      BY <2>1, <2>2
  <1>4. created' \in 0..MaxIds /\ created' >= created
        /\ DOMAIN playlist' \subseteq 1..created'
    BY <1>1, <1>3 DEF PInv, IdsOnce
  <1>5. \A q \in 1..created : Live(q)' => Live(q)
    BY <1>1, <1>3 DEF Live
  <1>6. ThreadShape' /\ TimerShape'
    BY <1>2 DEF PInv, ThreadShape, TimerShape, timers
  <1>7. IdsOnce'
    BY <1>1, <1>2, <1>4, <1>5 DEF PInv, IdsOnce
  <1>8. EditsHeld'
    BY <1>2, <1>5 DEF PInv, IdsOnce, EditsHeld, timers
  <1> QED
    BY <1>6, <1>7, <1>8 DEF PInv

(* Steps that change none of what the invariant speaks of.                  *)
LEMMA OthersKeep ==
    ASSUME PInv, UNCHANGED <<config, rows, unscheduled, timers, thread, unlinking,
                             exiting, flushing, unread>>
    PROVE  PInv'
  <1>1. ThreadShape' /\ TimerShape' /\ IdsOnce'
    BY DEF PInv, ThreadShape, TimerShape, IdsOnce, Live, rows, timers
  <1>2. EditsHeld'
    BY DEF PInv, EditsHeld, Live, rows, timers
  <1> QED
    BY <1>1, <1>2 DEF PInv

LEMMA SyncKeeps ==
    ASSUME PInv, Sync
    PROVE  PInv'
  <1>1. CASE SyncList
    BY <1>1, OthersKeep DEF SyncList, ghosts
  <1>2. CASE SyncRead
    BY <1>2, OthersKeep DEF SyncRead, ghosts
  <1>3. CASE SyncStore
    BY <1>3, SyncStoreKeeps
  <1>4. ASSUME NEW k \in sync.gone, SyncDelete(k) PROVE PInv'
    <2>1. CASE Live(k.id)
      BY <1>4, <2>1, RowDeletedKeeps DEF SyncDelete
    <2>2. CASE ~Live(k.id)
      BY <1>4, <2>2, OthersKeep DEF SyncDelete, ghosts
    <2> QED
      BY <2>1, <2>2
  <1>5. ASSUME NEW f \in sync.todo, SyncLook(f) PROVE PInv'
    BY <1>5, OthersKeep DEF SyncLook, ghosts
  <1> QED
    BY <1>1, <1>2, <1>3, <1>4, <1>5 DEF Sync

(* At its exit, the process takes over the edits whose timers it knows; the *)
(* forgotten timers are still there.                                        *)
LEMMA ExitKeeps ==
    ASSUME PInv, Exit
    PROVE  PInv'
  <1>1. /\ entry' \in [Ids -> {"none", "waits", "over"}]
        /\ \A p \in Ids : entry[p] = "waits" => p \in flushing'
        /\ flushing' \subseteq Ids /\ unscheduled = {} /\ unscheduled' = unscheduled
    BY DEF PInv, Exit, TimerShape
  <1>2. ThreadShape' /\ TimerShape' /\ IdsOnce'
    BY <1>1 DEF PInv, Exit, ThreadShape, TimerShape, IdsOnce, Live, rows, ghosts
  <1>3. flushing = {}
    BY DEF PInv, TimerShape, Exit
  <1>4. EditsHeld'
    BY <1>1, <1>3 DEF PInv, Exit, EditsHeld, TimerShape, Live, rows, ghosts
  <1> QED
    BY <1>2, <1>4 DEF PInv

LEMMA FlushNextKeeps ==
    ASSUME PInv, NEW p \in flushing, FlushNext(p)
    PROVE  PInv'
  <1>1. p \in Ids /\ Main \in Exports /\ thread[Main].pc = "idle"
    BY DEF PInv, TimerShape, FlushNext, Exports, Idle
  <1>2. /\ DOMAIN thread' = Exports /\ thread'[Main] = [pc |-> "fired", id |-> p]
        /\ \A u \in Exports : u # Main => thread'[u] = thread[u]
    BY <1>1, ReplaceThread DEF PInv, FlushNext
  <1>3. ThreadShape'
    BY <1>1, <1>2 DEF PInv, ThreadShape
  <1>4. TimerShape' /\ IdsOnce'
    BY DEF PInv, FlushNext, TimerShape, IdsOnce, Live, rows, timers, ghosts
  <1>5. EditsHeld'
    BY <1>1, <1>2 DEF PInv, FlushNext, EditsHeld, Live, rows, timers, ghosts
  <1> QED
    BY <1>3, <1>4, <1>5 DEF PInv

(* What a process that is gone has not written stays so, until its playlist *)
(* is edited again.                                                         *)
LEMMA RestartedKeeps ==
    ASSUME PInv, Restarted
    PROVE  PInv'
  <1>1. ThreadShape' /\ TimerShape'
    BY DEF Restarted, ThreadShape, TimerShape, Idle
  <1>2. IdsOnce'
    BY DEF PInv, Restarted, IdsOnce, rows
  <1>3. EditsHeld'
    BY DEF Restarted, EditsHeld
  <1> QED
    BY <1>1, <1>2, <1>3 DEF PInv

LEMMA NextPInv == PInv /\ [Next]_vars => PInv'
  <1> SUFFICES ASSUME PInv, [Next]_vars PROVE PInv'
    OBVIOUS
  <1>1. CASE Requests
    <2>1. ASSUME NEW owner \in Users, NEW name \in Names, Create(owner, name) PROVE PInv'
      <3>1. 1 \in Ids
        BY BoundsAssumption DEF Ids
      <3> QED
        BY <2>1, <3>1, RequestsKeep
    <2>2. ASSUME NEW p \in Ids,
                 \/ \E name \in Names, public \in BOOLEAN : Update(p, name, public)
                 \/ EditTracks(p)
          PROVE  PInv'
      BY <2>2, RequestsKeep
    <2>3. ASSUME NEW p \in Ids, Delete(p) PROVE PInv'
      BY <2>3, RowDeletedKeeps DEF Delete, CanEdit
    <2> QED
      BY <1>1, <2>1, <2>2, <2>3 DEF Requests
  <1>2. CASE Finish
    BY <1>2, ScheduleKeeps, UnlinkKeeps DEF Finish
  <1>3. CASE Sync
    BY <1>3, SyncKeeps
  <1>4. CASE \E t \in Exports : Export(t) \/ Fails(t)
    BY <1>4, ExportKeeps
  <1>5. ASSUME NEW f \in Dirs \X Names, External(f) PROVE PInv'
    BY <1>5, OthersKeep DEF External, ghosts
  <1>6. CASE Exit
    BY <1>6, ExitKeeps
  <1>7. CASE Stopping
    BY <1>7, FlushNextKeeps, RestartedKeeps DEF Stopping, Ended
  <1>8. CASE Crash
    BY <1>8, RestartedKeeps DEF Crash
  <1>9. CASE UNCHANGED vars
    BY <1>9, OthersKeep DEF vars, ghosts
  <1> QED
    BY <1>1, <1>2, <1>3, <1>4, <1>5, <1>6, <1>7, <1>8, <1>9 DEF Next

(* The invariant behind the export timers holds in every behaviour.         *)
THEOREM PlaylistsInvariant == Spec => []PInv
  <1> QED
    BY InitPInv, NextPInv, PTL DEF Spec

(* Every edit of a playlist is followed by an export that reads it, for any *)
(* number of playlists, users and exports that run at once, unless an       *)
(* export that raises ends the exit handler (flush_exports()) before.       *)
THEOREM EditsAreFollowed == Spec => []EditsFollowed
  <1>1. PInv => EditsFollowed
    BY DEF PInv, EditsHeld, EditsFollowed
  <1> QED
    BY <1>1, PlaylistsInvariant, PTL

-----------------------------------------------------------------------------
(* What is on disk.  A path is Ours if no file of another program is there, *)
(* nor one that a plugin generates: no step makes another path foreign.     *)
MirrorPaths == Mirrored \X Stems

Foreign(x) == OnDisk(x) /\ x[1] \notin Mirrored /\ file[x].by = 0 /\ x[2] \notin Substitutes

Ours(x) == x[1] # "smart" /\ ~Foreign(x)

(* Own playlists have names from requests; a mirrored one is never exported *)
(* to the playlist directory, and a generated one never edited.             *)
OwnRow(row) ==
    /\ ~row.readonly /\ row.name \in Names
    /\ row.exported = None \/ row.exported[1] \notin Mirrored
    /\ Ours(row.exported)

MirrorRow(row) ==
    /\ row.source \in MirrorPaths /\ row.exported = None
    /\ row.source[1] = "smart" => row.readonly

RowOK(row) == row \in Row /\ IF row.source = None THEN OwnRow(row) ELSE MirrorRow(row)

Placed(t) == thread[t].pc \in {"chosen", "replaced", "unlinked"}

Places(p, row) == {<<Folder(row), row.name>>, <<Folder(row), Numbered(row.name, p)>>}

ExportOK(t) ==
    LET row == thread[t].row
    IN  /\ thread[t].id \in 1..created
        /\ RowOK(row) /\ ~row.readonly
        /\ Live(thread[t].id) => (playlist[thread[t].id].source = None) = (row.source = None)
        /\ Placed(t) => /\ thread[t].target \in Paths /\ Ours(thread[t].target)
                        /\ row.source = None => thread[t].target \in Places(thread[t].id, row)
                        /\ row.source # None => thread[t].target[1] = row.source[1]
        /\ thread[t].pc = "replaced" => Current(row) \notin {None, thread[t].target}

(* What a pass knows of the rows.                                           *)
KnownOK(known) ==
    \A k \in known :
        /\ k.id \in 1..created /\ k.source \in MirrorPaths
        /\ Live(k.id) => /\ playlist[k.id].source # None
                         /\ playlist[k.id].source[1] = "smart" => k.source[1] = "smart"

PassOK(s) ==
    /\ s.todo \subseteq MirrorPaths /\ KnownOK(s.known) /\ s.gone \subseteq s.known
    /\ s.taken \subseteq Stems /\ IsFiniteSet(s.taken)

SyncOK ==
    \/ sync = Asleep
    \/ /\ sync.pc = "listed"
       /\ sync = [pc |-> "listed", files |-> sync.files]
       /\ sync.files \subseteq MirrorPaths
    \/ /\ sync.pc = "read"
       /\ sync = [pc |-> "read", todo |-> sync.todo, known |-> sync.known,
                  gone |-> sync.gone, taken |-> sync.taken]
       /\ PassOK(sync)
    \/ /\ sync.pc = "parsed"
       /\ sync = [pc |-> "parsed", todo |-> sync.todo, known |-> sync.known, gone |-> sync.gone,
                  taken |-> sync.taken, path |-> sync.path, parsed |-> sync.parsed]
       /\ PassOK(sync) /\ sync.path \in MirrorPaths /\ sync.parsed \in File

DiskOK == /\ DOMAIN file \subseteq Paths /\ file = [f \in DOMAIN file |-> file[f]]
          /\ \A f \in DOMAIN file : file[f] \in File /\ file[f].by \in 0..created

UnlinkOK(d) == /\ d.path \in Paths \cup {None}
               /\ Ours(d.path) \/ (d.by = "sync" /\ d.path[1] = "smart")

(* The types, and what keeps the hands of exports off other files.          *)
HInv == /\ \A p \in DOMAIN playlist : RowOK(playlist[p])
        /\ \A t \in Exports : Exporting(t) => ExportOK(t)
        /\ \A d \in unlinking : UnlinkOK(d)
        /\ DiskOK /\ SyncOK
        /\ nr \in Contents /\ clock \in Mtimes /\ disturbed \subseteq Ids

-----------------------------------------------------------------------------
(* An own playlist that nothing has disturbed, and the files it lays claim  *)
(* to: the one its row records, and the one its export has chosen.          *)
Own(p) == Live(p) /\ p \notin disturbed /\ playlist[p].source = None

ExportOf(t, p) == Exporting(t) /\ thread[t].id = p

Claims(p, x) ==
    /\ x # None
    /\ \/ x = playlist[p].exported
       \/ \E t \in Exports : ExportOf(t, p) /\ Placed(t) /\ x = thread[t].target

(* Nobody else records, touches or unlinks them ...                         *)
Apart ==
    \A p \in Ids : Own(p) => \A x : Claims(p, x) =>
        /\ \A q \in DOMAIN playlist \ {p} : playlist[q].exported # x
        /\ \A u \in Exports : Exporting(u) /\ thread[u].id # p => x \notin Touches(thread[u])
        /\ \A d \in unlinking : d.path # x

(* ... and it has one export at most, of the row as far as it matters.      *)
Lone ==
    \A t \in Exports, p \in Ids : ExportOf(t, p) /\ p \notin disturbed =>
        /\ Live(p) /\ thread[t].row.exported = playlist[p].exported
        /\ \A u \in Exports : ExportOf(u, p) => u = t

(* A file that is written is there, and an old one that is removed is not.  *)
Written ==
    \A t \in Exports, p \in Ids :
        ExportOf(t, p) /\ Own(p) /\ thread[t].pc \in {"replaced", "unlinked"} =>
        /\ OnDisk(thread[t].target) /\ file[thread[t].target].by = p
        /\ file[thread[t].target].tracks = thread[t].row.tracks
        /\ thread[t].pc = "unlinked" => \A f \in DOMAIN file :
              f[1] \notin Mirrored /\ file[f].by = p => f = thread[t].target

(* An export that reads the last edit has it; later the file does.          *)
Matches(t, p) ==
    /\ thread[t].row.name = playlist[p].name /\ Folder(thread[t].row) = Folder(playlist[p])
    /\ thread[t].pc # "read" => thread[t].row.tracks = playlist[p].tracks

Settled(p) ==
    LET place == playlist[p].exported
    IN  /\ place \in Places(p, playlist[p]) /\ OnDisk(place)
        /\ file[place].by = p /\ file[place].tracks = playlist[p].tracks

Fresh ==
    \A p \in Ids \ unread : "own" \in config.dirs /\ Own(p) =>
        /\ \A t \in Exports : ExportOf(t, p) => Matches(t, p)
        /\ (\A t \in Exports : ~ExportOf(t, p)) => Settled(p)

(* Each file belongs to a row, to an export, or to a deletion.              *)
FilesOwned ==
    \A f \in DOMAIN file, p \in Ids \ disturbed : f[1] \notin Mirrored /\ file[f].by = p =>
        \/ Live(p) /\ playlist[p].exported = f
        \/ \E t \in Exports : /\ ExportOf(t, p) /\ thread[t].pc \in {"replaced", "unlinked"}
                              /\ thread[t].target = f
        \/ \E d \in unlinking : d.id = p /\ d.path = f

DInv == Apart /\ Lone /\ Written /\ Fresh /\ FilesOwned

-----------------------------------------------------------------------------
(* The facts about paths and rows that the steps need. *)
LEMMA PathFacts ==
    /\ None \notin Paths /\ None[1] = "none" /\ MirrorPaths \subseteq Paths
    /\ \A x \in Paths : x[1] \in Dirs /\ x[2] \in Stems
    /\ \A x \in MirrorPaths : x[1] \in Mirrored /\ x[2] \in Stems
    /\ \A d \in Dirs, s \in Stems : /\ <<d, s>> \in Paths /\ <<d, s>> # None
                                    /\ <<d, s>>[1] = d /\ <<d, s>>[2] = s
  BY DEF None, Paths, MirrorPaths, Dirs, Mirrored

LEMMA StemFacts ==
    /\ Names \subseteq Stems
    /\ \A s \in Stems, n \in Nat : Numbered(s, n) \in Stems
    /\ \A n \in Names, p \in Ids : Numbered(n, p) \in Substitutes
  BY NamesAssumption DEF Stems, Numbered, Substitutes

LEMMA RowFields ==
    ASSUME NEW row \in Row
    PROVE  /\ row.name \in Stems /\ row.owner \in Users \cup {NoUser} /\ row.public \in BOOLEAN
           /\ row.tracks \in Nat /\ row.source \in Paths \cup {None} /\ row.mtime \in Nat
           /\ row.readonly \in BOOLEAN /\ row.exported \in Paths \cup {None}
  BY DEF Row, Contents, Mtimes

LEMMA FolderIsOwn ==
    ASSUME NEW row \in Row
    PROVE  Folder(row) \in Dirs /\ Folder(row) \notin Mirrored
  BY RowFields, UsersAssumption DEF Folder, Dirs, Mirrored, NoUser

(* Where the place of an export may be.                                     *)
LEMMA TargetPlaces ==
    ASSUME NEW row, RowOK(row), NEW p \in Ids
    PROVE  /\ Target(p, row) \in Paths
           /\ row.source = None => Target(p, row) \in Places(p, row)
           /\ row.source # None => Target(p, row)[1] = row.source[1]
           /\ ~row.readonly => Ours(Target(p, row))
  <1>1. row \in Row /\ p \in Nat
    BY DEF RowOK, Ids
  <1>2. CASE row.source = None
    <2>1. Folder(row) \in Dirs /\ Folder(row) \notin Mirrored /\ row.name \in Names
          /\ row.name \in Stems /\ Numbered(row.name, p) \in Stems
          /\ Numbered(row.name, p) \in Substitutes /\ Ours(row.exported)
      BY <1>1, <1>2, FolderIsOwn, RowFields, StemFacts DEF RowOK, OwnRow
    <2>2. Target(p, row) \in Places(p, row)
      BY <1>2 DEF Target, Places
    <2>3. Ours(<<Folder(row), Numbered(row.name, p)>>)
      BY <2>1, PathFacts DEF Ours, Foreign, Mirrored
    <2>4. Ours(Target(p, row))
      <3>1. CASE <<Folder(row), row.name>> = Current(row)
        BY <1>2, <2>1, <3>1 DEF Target, Current
      <3>2. CASE ~OnDisk(<<Folder(row), row.name>>)
        <4>1. Ours(<<Folder(row), row.name>>)
          BY <2>1, <3>2, PathFacts DEF Ours, Foreign, Mirrored
        <4> QED
          BY <1>2, <3>2, <4>1 DEF Target
      <3> QED
        BY <1>2, <2>3, <3>1, <3>2 DEF Target
    <2> QED
      BY <1>2, <2>1, <2>2, <2>4, PathFacts DEF Places
  <1>3. CASE row.source # None
    <2>1. row.source \in MirrorPaths /\ row.name \in Stems
          /\ (row.source[1] = "smart" => row.readonly)
      BY <1>1, <1>3, RowFields DEF RowOK, MirrorRow
    <2>2. row.source \in Paths /\ row.source[1] \in Mirrored /\ row.source[1] \in Dirs
      BY <2>1, PathFacts
    <2>3. Target(p, row) \in {<<row.source[1], row.name>>, row.source}
      BY <1>3 DEF Target
    <2>4. Target(p, row) \in Paths /\ Target(p, row)[1] = row.source[1]
      BY <2>1, <2>2, <2>3, PathFacts
    <2> QED
      BY <1>3, <2>1, <2>2, <2>4 DEF Ours, Foreign
  <1> QED
    BY <1>2, <1>3

-----------------------------------------------------------------------------
(* No step of a request, an export or a pass makes a file foreign.          *)
FewerForeign == \A x : Foreign(x)' => Foreign(x)

(* No step gives an id again, or makes another kind of playlist of a row.   *)
SameKind ==
    /\ created \in Nat /\ created' \in Nat /\ created' >= created
    /\ \A p \in 1..created : Live(p)' =>
        /\ Live(p)
        /\ (playlist'[p].source = None) = (playlist[p].source = None)
        /\ playlist'[p].source[1] = "smart" => playlist[p].source[1] = "smart"

LEMMA DiskStays ==
    ASSUME DiskOK, UNCHANGED file, SameKind
    PROVE  DiskOK' /\ FewerForeign
  <1>1. 0..created \subseteq 0..created'
    BY DEF SameKind
  <1>2. DiskOK'
    BY <1>1 DEF DiskOK
  <1>3. FewerForeign
    BY DEF FewerForeign, Foreign, OnDisk
  <1> QED
    BY <1>2, <1>3

LEMMA DiskRemoves ==
    ASSUME DiskOK, NEW x, file' = Without(file, x), UNCHANGED created
    PROVE  /\ DiskOK' /\ FewerForeign /\ DOMAIN file' = DOMAIN file \ {x}
           /\ \A f \in DOMAIN file' : file'[f] = file[f]
  <1>1. DOMAIN file' = DOMAIN file \ {x} /\ \A f \in DOMAIN file' : file'[f] = file[f]
    BY DEF Without, Restrict
  <1>2. DiskOK'
    <2>1. file' = [f \in DOMAIN file' |-> file'[f]]
      BY DEF Without, Restrict
    <2>2. DOMAIN file' \subseteq Paths
          /\ \A f \in DOMAIN file' : file'[f] \in File /\ file'[f].by \in 0..created'
      BY <1>1 DEF DiskOK
    <2> QED
      BY <2>1, <2>2 DEF DiskOK
  <1>3. FewerForeign
    BY <1>1 DEF FewerForeign, Foreign, OnDisk
  <1> QED
    BY <1>1, <1>2, <1>3

LEMMA DiskWrites ==
    ASSUME DiskOK, NEW x \in Paths, NEW e \in File, e.by \in 0..created,
           e.by # 0 \/ x[1] \in Mirrored, file' = With(file, x, e), UNCHANGED created
    PROVE  /\ DiskOK' /\ FewerForeign /\ DOMAIN file' = DOMAIN file \cup {x} /\ file'[x] = e
           /\ \A f \in DOMAIN file : f # x => file'[f] = file[f]
  <1>1. DOMAIN file' = DOMAIN file \cup {x} /\ file'[x] = e
        /\ \A f \in DOMAIN file : f # x => file'[f] = file[f]
    BY DEF With
  <1>2. DiskOK'
    <2>1. file' = [f \in DOMAIN file' |-> file'[f]]
      BY DEF With
    <2>2. DOMAIN file' \subseteq Paths
      BY <1>1 DEF DiskOK
    <2>3. ASSUME NEW f \in DOMAIN file'
          PROVE  file'[f] \in File /\ file'[f].by \in 0..created'
      BY <1>1 DEF DiskOK
    <2> QED
      BY <2>1, <2>2, <2>3 DEF DiskOK
  <1>3. FewerForeign
    BY <1>1 DEF FewerForeign, Foreign, OnDisk
  <1> QED
    BY <1>1, <1>2, <1>3

(* What does not change stays as it should be.                              *)
LEMMA RowStays ==
    ASSUME NEW row, RowOK(row), FewerForeign
    PROVE  RowOK(row)'
  <1>1. Ours(row.exported) => Ours(row.exported)'
    BY DEF Ours, FewerForeign
  <1> QED
    BY <1>1 DEF RowOK, OwnRow, MirrorRow

LEMMA UnlinkStays ==
    ASSUME NEW d, UnlinkOK(d), FewerForeign
    PROVE  UnlinkOK(d)'
  <1>1. Ours(d.path) => Ours(d.path)'
    BY DEF Ours, FewerForeign
  <1> QED
    BY <1>1 DEF UnlinkOK

LEMMA ExportStays ==
    ASSUME NEW t, ExportOK(t), thread'[t] = thread[t], SameKind, FewerForeign
    PROVE  ExportOK(t)'
  <1>1. RowOK(thread[t].row) => RowOK(thread[t].row)'
    <2>1. ASSUME NEW row, RowOK(row) PROVE RowOK(row)'
      BY <2>1, RowStays
    <2> QED
      BY <2>1
  <1>2. Ours(thread[t].target) => Ours(thread[t].target)'
    BY DEF Ours, FewerForeign
  <1>3. thread[t].id \in 1..created /\ 1..created \subseteq 1..created'
    BY DEF ExportOK, SameKind
  <1> QED
    BY <1>1, <1>2, <1>3 DEF ExportOK, Placed, SameKind, Live

LEMMA KnownStays ==
    ASSUME NEW known, KnownOK(known), SameKind
    PROVE  KnownOK(known)'
  <1> SUFFICES ASSUME NEW k \in known
               PROVE  /\ k.id \in 1..created' /\ k.source \in MirrorPaths
                      /\ Live(k.id)' => /\ playlist'[k.id].source # None
                                        /\ playlist'[k.id].source[1] = "smart" => k.source[1] = "smart"
    BY DEF KnownOK
  <1>1. /\ k.id \in 1..created /\ k.source \in MirrorPaths
        /\ Live(k.id) => /\ playlist[k.id].source # None
                         /\ playlist[k.id].source[1] = "smart" => k.source[1] = "smart"
    BY DEF KnownOK
  <1>2. 1..created \subseteq 1..created'
    BY DEF SameKind
  <1> QED
    BY <1>1, <1>2 DEF SameKind

LEMMA SyncStays ==
    ASSUME SyncOK, UNCHANGED sync, SameKind
    PROVE  SyncOK'
  <1>1. ASSUME NEW known, KnownOK(known) PROVE KnownOK(known)'
    BY <1>1, KnownStays
  <1>2. PassOK(sync) => PassOK(sync)'
    BY <1>1 DEF PassOK
  <1> QED
    BY <1>2 DEF SyncOK

(* Putting the parts together.                                              *)
LEMMA HStep ==
    ASSUME HInv, SameKind, FewerForeign, DiskOK', SyncOK',
           \A p \in DOMAIN playlist' : RowOK(playlist[p])',
           \A t \in Exports : Exporting(t)' =>
              \/ Exporting(t) /\ thread'[t] = thread[t]
              \/ ExportOK(t)',
           \A d \in unlinking' : d \in unlinking \/ UnlinkOK(d)',
           nr' \in Nat, clock' \in Nat, disturbed' \subseteq Ids
    PROVE  HInv'
  <1>1. ASSUME NEW t \in Exports, Exporting(t)' PROVE ExportOK(t)'
    BY <1>1, ExportStays DEF HInv
  <1>2. ASSUME NEW d \in unlinking' PROVE UnlinkOK(d)'
    BY <1>2, UnlinkStays DEF HInv
  <1> QED
    BY <1>1, <1>2 DEF HInv, Contents, Mtimes

(* Rows that stay, of a table that only loses some.                         *)
LEMMA RowsStay ==
    ASSUME HInv, FewerForeign, DOMAIN playlist' \subseteq DOMAIN playlist,
           \A p \in DOMAIN playlist' : playlist'[p] = playlist[p], UNCHANGED created,
           created \in Nat
    PROVE  SameKind /\ \A p \in DOMAIN playlist' : RowOK(playlist[p])'
  <1>1. ASSUME NEW p \in DOMAIN playlist' PROVE RowOK(playlist[p])'
    BY <1>1, RowStays DEF HInv
  <1>2. SameKind
    BY DEF SameKind, Live
  <1> QED
    BY <1>1, <1>2

-----------------------------------------------------------------------------
(* Requests.                                                                *)
LEMMA CreatedFacts ==
    ASSUME PInv
    PROVE  /\ created \in Nat /\ MaxIds \in Nat \ {0} /\ 1..created \subseteq Ids
           /\ DOMAIN playlist \subseteq 1..created /\ DOMAIN playlist \subseteq Ids
           /\ 0 \notin Ids /\ Ids \subseteq Nat
  BY BoundsAssumption DEF PInv, IdsOnce, Ids

LEMMA EditHeld ==
    ASSUME HInv, PInv, NEW p, Edited(p), SameKind,
           \A q \in DOMAIN playlist' : RowOK(playlist[q])', nr' \in Nat
    PROVE  HInv'
  <1>1. UNCHANGED <<thread, unlinking, sync, file, clock, disturbed>>
    BY DEF Edited
  <1>2. DiskOK' /\ FewerForeign
    BY <1>1, DiskStays DEF HInv
  <1>3. SyncOK'
    BY <1>1, SyncStays DEF HInv
  <1>4. clock \in Nat /\ disturbed \subseteq Ids
    BY DEF HInv, Mtimes
  <1>5. \A t \in Exports : Exporting(t)' => Exporting(t)
    BY <1>1 DEF Exporting
  <1> QED
    BY <1>1, <1>2, <1>3, <1>4, <1>5, HStep

(* A row that keeps what it records, and its kind.                          *)
Renamed(row, name, public) == [row EXCEPT !.name = name, !.public = public]
Refilled(row, tracks)      == [row EXCEPT !.tracks = tracks]

LEMMA RowRenamed ==
    ASSUME NEW row, RowOK(row), ~row.readonly, NEW name \in Names, NEW public \in BOOLEAN
    PROVE  RowOK(Renamed(row, name, public)) /\ Renamed(row, name, public).source = row.source
  <1> DEFINE r == Renamed(row, name, public)
  <1>1. row \in Row /\ name \in Stems
    BY StemFacts DEF RowOK
  <1>2. /\ r \in Row /\ r.source = row.source /\ r.exported = row.exported /\ r.name = name
        /\ r.readonly = row.readonly
    BY <1>1 DEF Row, Renamed
  <1> HIDE DEF r
  <1>3. RowOK(r)
    BY <1>2 DEF RowOK, OwnRow, MirrorRow
  <1> QED
    BY <1>2, <1>3 DEF r

LEMMA RowRefilled ==
    ASSUME NEW row, RowOK(row), ~row.readonly, NEW tracks \in Nat
    PROVE  RowOK(Refilled(row, tracks)) /\ Refilled(row, tracks).source = row.source
  <1> DEFINE r == Refilled(row, tracks)
  <1>1. row \in Row
    BY DEF RowOK
  <1>2. /\ r \in Row /\ r.source = row.source /\ r.exported = row.exported /\ r.name = row.name
        /\ r.readonly = row.readonly
    BY <1>1 DEF Row, Contents, Refilled
  <1> HIDE DEF r
  <1>3. RowOK(r)
    BY <1>2 DEF RowOK, OwnRow, MirrorRow
  <1> QED
    BY <1>2, <1>3 DEF r

(* One row is replaced, by one of its kind.                                 *)
LEMMA RowReplaced ==
    ASSUME HInv, PInv, FewerForeign, NEW p \in DOMAIN playlist, NEW row, RowOK(row),
           playlist' = [playlist EXCEPT ![p] = row], UNCHANGED created,
           (row.source = None) = (playlist[p].source = None),
           row.source[1] = "smart" => playlist[p].source[1] = "smart"
    PROVE  SameKind /\ \A q \in DOMAIN playlist' : RowOK(playlist[q])'
  <1>1. DOMAIN playlist' = DOMAIN playlist /\ playlist'[p] = row
        /\ \A q \in DOMAIN playlist : q # p => playlist'[q] = playlist[q]
    OBVIOUS
  <1>2. SameKind
    BY <1>1, CreatedFacts DEF SameKind, Live
  <1>3. ASSUME NEW q \in DOMAIN playlist, q # p PROVE RowOK(playlist[q])'
    <2>1. RowOK(playlist[q])
      BY DEF HInv
    <2> QED
      BY <1>1, <1>3, <2>1, RowStays
  <1>4. RowOK(playlist[p])'
    <2>1. RowOK(row)'
      BY RowStays
    <2> QED
      BY <1>1, <2>1
  <1> QED
    BY <1>1, <1>2, <1>3, <1>4

(* One row is added, under an id that has not been given yet.               *)
LEMMA RowAdded ==
    ASSUME HInv, PInv, FewerForeign, NEW row, RowOK(row), created' = created + 1,
           playlist' = With(playlist, created + 1, row)
    PROVE  SameKind /\ \A q \in DOMAIN playlist' : RowOK(playlist[q])'
  <1>1. /\ DOMAIN playlist' = DOMAIN playlist \cup {created + 1}
        /\ playlist'[created + 1] = row
        /\ \A q \in DOMAIN playlist : q # created + 1 => playlist'[q] = playlist[q]
    BY DEF With
  <1>2. created + 1 \notin DOMAIN playlist /\ created \in Nat
    BY CreatedFacts
  <1>3. SameKind
    BY <1>1, <1>2 DEF SameKind, Live
  <1>4. ASSUME NEW q \in DOMAIN playlist PROVE RowOK(playlist[q])'
    <2>1. RowOK(playlist[q])
      BY DEF HInv
    <2> QED
      BY <1>1, <1>2, <2>1, RowStays
  <1>5. RowOK(row)'
    BY RowStays
  <1> QED
    BY <1>1, <1>3, <1>4, <1>5

LEMMA RequestsHeld ==
    ASSUME HInv, PInv, NEW p \in Ids,
           \/ \E owner \in Users, name \in Names : Create(owner, name)
           \/ \E name \in Names, public \in BOOLEAN : Update(p, name, public)
           \/ EditTracks(p)
    PROVE  HInv'
  <1>0. nr \in Nat
    BY DEF HInv, Contents
  <1>1. ASSUME NEW owner \in Users, NEW name \in Names, Create(owner, name) PROVE HInv'
    <2> DEFINE row == [name |-> name, owner |-> owner, public |-> FALSE, tracks |-> nr + 1,
                       source |-> None, mtime |-> 0, readonly |-> FALSE, exported |-> None]
    <2>1. /\ created' = created + 1 /\ nr' = nr + 1 /\ Edited(created + 1)
          /\ playlist' = With(playlist, created + 1, row)
      BY <1>1 DEF Create
    <2>2. RowOK(row)
      <3>1. row \in Row
        BY <1>0, StemFacts DEF Row, Contents, Mtimes
      <3>2. Ours(None)
        BY PathFacts DEF Ours, Foreign, OnDisk, HInv, DiskOK
      <3> QED
        BY <3>1, <3>2 DEF RowOK, OwnRow
    <2> HIDE DEF row
    <2>3. FewerForeign
      BY <2>1 DEF Edited, FewerForeign, Foreign, OnDisk
    <2>4. SameKind /\ \A q \in DOMAIN playlist' : RowOK(playlist[q])'
      BY <2>1, <2>2, <2>3, RowAdded
    <2> QED
      BY <1>0, <2>1, <2>4, EditHeld
  <1>2. ASSUME NEW name \in Names, NEW public \in BOOLEAN, Update(p, name, public) PROVE HInv'
    <2> DEFINE row == Renamed(playlist[p], name, public)
    <2>1. playlist' = [playlist EXCEPT ![p] = row]
      BY <1>2 DEF Update, Renamed
    <2>2. p \in DOMAIN playlist /\ RowOK(playlist[p]) /\ ~playlist[p].readonly
      BY <1>2 DEF Update, CanEdit, Live, HInv
    <2>3. RowOK(row) /\ row.source = playlist[p].source
      BY <2>2, RowRenamed
    <2> HIDE DEF row
    <2>4. UNCHANGED <<created, nr, file>> /\ Edited(p)
      BY <1>2 DEF Update, Edited
    <2>5. FewerForeign
      BY <2>4 DEF FewerForeign, Foreign, OnDisk
    <2>7. SameKind /\ \A q \in DOMAIN playlist' : RowOK(playlist[q])'
      BY <2>1, <2>2, <2>3, <2>4, <2>5, RowReplaced
    <2> QED
      BY <1>0, <2>4, <2>7, EditHeld
  <1>3. ASSUME EditTracks(p) PROVE HInv'
    <2> DEFINE row == Refilled(playlist[p], nr + 1)
    <2>1. playlist' = [playlist EXCEPT ![p] = row]
      BY <1>3 DEF EditTracks, Refilled
    <2>2. p \in DOMAIN playlist /\ RowOK(playlist[p]) /\ ~playlist[p].readonly
      BY <1>3 DEF EditTracks, CanEdit, Live, HInv
    <2>3. RowOK(row) /\ row.source = playlist[p].source
      <3>1. nr + 1 \in Nat
        BY <1>0
      <3> QED
        BY <2>2, <3>1, RowRefilled
    <2> HIDE DEF row
    <2>4. UNCHANGED <<created, file>> /\ Edited(p) /\ nr' = nr + 1
      BY <1>3 DEF EditTracks, Edited
    <2>5. FewerForeign
      BY <2>4 DEF FewerForeign, Foreign, OnDisk
    <2>7. SameKind /\ \A q \in DOMAIN playlist' : RowOK(playlist[q])'
      BY <2>1, <2>2, <2>3, <2>4, <2>5, RowReplaced
    <2> QED
      BY <1>0, <2>4, <2>7, EditHeld
  <1> QED
    BY <1>1, <1>2, <1>3

-----------------------------------------------------------------------------
(* Deletions, and what they unlink.                                         *)
LEMMA RowDeletedHeld ==
    ASSUME HInv, PInv, NEW p, Live(p), NEW by, RowDeleted(p, by), SameKind => SyncOK',
           by = "sync" \/ ~playlist[p].readonly
    PROVE  HInv'
  <1>1. DOMAIN playlist' = DOMAIN playlist \ {p}
        /\ \A q \in DOMAIN playlist' : playlist'[q] = playlist[q]
    BY DEF RowDeleted, Without, Restrict
  <1>2. UNCHANGED <<created, thread, file, nr, clock>>
        /\ unlinking' = unlinking \cup {[id |-> p, path |-> FileOf(p), by |-> by]}
    BY DEF RowDeleted
  <1>3. FewerForeign
    BY <1>2 DEF FewerForeign, Foreign, OnDisk
  <1>4. SameKind /\ \A q \in DOMAIN playlist' : RowOK(playlist[q])'
    BY <1>1, <1>2, <1>3, CreatedFacts, RowsStay
  <1>5. DiskOK'
    BY <1>2, <1>4, DiskStays DEF HInv
  <1>6. RowOK(playlist[p]) /\ p \in Ids
    BY CreatedFacts DEF HInv, Live
  <1>7. FileOf(p) \in Paths \cup {None}
        /\ (Ours(FileOf(p)) \/ (by = "sync" /\ FileOf(p)[1] = "smart"))
    <2>1. CASE playlist[p].source = None
      BY <1>6, <2>1, RowFields DEF RowOK, OwnRow, FileOf
    <2>2. CASE playlist[p].source # None
      <3>1. /\ FileOf(p) = playlist[p].source /\ FileOf(p) \in MirrorPaths
            /\ FileOf(p)[1] = "smart" => playlist[p].readonly
        BY <1>6, <2>2 DEF RowOK, MirrorRow, FileOf
      <3>2. FileOf(p) \in Paths /\ FileOf(p)[1] \in Mirrored
        BY <3>1, PathFacts
      <3> QED
        BY <3>1, <3>2 DEF Ours, Foreign
    <2> QED
      BY <2>1, <2>2
  <1>8. ASSUME NEW path, path \in Paths \cup {None},
               Ours(path) \/ (by = "sync" /\ path[1] = "smart")
        PROVE  UnlinkOK([id |-> p, path |-> path, by |-> by])'
    <2>1. Ours(path) => Ours(path)'
      BY <1>3 DEF Ours, FewerForeign
    <2> QED
      BY <1>8, <2>1 DEF UnlinkOK
  <1>9. \A d \in unlinking' : d \in unlinking \/ UnlinkOK(d)'
    <2> DEFINE d0 == [id |-> p, path |-> FileOf(p), by |-> by]
    <2>1. PICK path : path = FileOf(p)
      OBVIOUS
    <2>2. unlinking' = unlinking \cup {[id |-> p, path |-> path, by |-> by]}
      BY <1>2, <2>1
    <2>3. UnlinkOK([id |-> p, path |-> path, by |-> by])'
      BY <1>7, <1>8, <2>1
    <2> QED
      BY <2>2, <2>3
  <1>10. disturbed' \subseteq Ids /\ nr \in Nat /\ clock \in Nat
    BY <1>6 DEF RowDeleted, HInv, Contents, Mtimes
  <1>11. \A t \in Exports : Exporting(t)' => Exporting(t)
    BY <1>2 DEF Exporting
  <1> QED
    BY <1>2, <1>3, <1>4, <1>5, <1>9, <1>10, <1>11, HStep

LEMMA UnlinkHeld ==
    ASSUME HInv, PInv, NEW d \in unlinking, Unlink(d)
    PROVE  HInv'
  <1>1. UNCHANGED <<playlist, created, thread, sync, nr, clock, disturbed>>
        /\ file' = Without(file, d.path) /\ unlinking' = unlinking \ {d}
    BY DEF Unlink, rows, ghosts
  <1>2. DiskOK' /\ FewerForeign
    BY <1>1, DiskRemoves DEF HInv
  <1>3. SameKind /\ \A q \in DOMAIN playlist' : RowOK(playlist[q])'
    BY <1>1, <1>2, CreatedFacts, RowsStay
  <1>4. SyncOK'
    BY <1>1, <1>3, SyncStays DEF HInv
  <1>5. \A t \in Exports : Exporting(t)' => Exporting(t)
    BY <1>1 DEF Exporting
  <1>6. nr \in Nat /\ clock \in Nat /\ disturbed \subseteq Ids
    BY DEF HInv, Contents, Mtimes
  <1> QED
    BY <1>1, <1>2, <1>3, <1>4, <1>5, <1>6, HStep

-----------------------------------------------------------------------------
(* Exports.  A step of one that neither writes nor records.                 *)
LEMMA ThreadHeld ==
    ASSUME HInv, PInv, NEW t \in Exports, NEW x, thread' = [thread EXCEPT ![t] = x],
           Exporting(t)' => ExportOK(t)',
           UNCHANGED <<playlist, created, unlinking, sync, file, nr, clock>>,
           disturbed' \subseteq Ids
    PROVE  HInv'
  <1>1. /\ DOMAIN thread' = Exports /\ thread'[t] = x
        /\ \A u \in Exports : u # t => thread'[u] = thread[u]
    BY ReplaceThread DEF PInv
  <1>2. SameKind
    BY CreatedFacts DEF SameKind, Live
  <1>3. DiskOK' /\ FewerForeign
    BY <1>2, DiskStays DEF HInv
  <1>4. \A q \in DOMAIN playlist' : RowOK(playlist[q])'
    BY <1>3, CreatedFacts, RowsStay
  <1>5. SyncOK'
    BY <1>2, SyncStays DEF HInv
  <1>6. ASSUME NEW u \in Exports, Exporting(u)'
        PROVE  \/ Exporting(u) /\ thread'[u] = thread[u]
               \/ ExportOK(u)'
    BY <1>1, <1>6 DEF Exporting
  <1>7. nr \in Nat /\ clock \in Nat
    BY DEF HInv, Contents, Mtimes
  <1> QED
    BY <1>2, <1>3, <1>4, <1>5, <1>6, <1>7, HStep

LEMMA NotYetHeld ==
    ASSUME HInv, PInv, NEW t \in Exports,
           (\E p \in Ids : Fire(t, p)) \/ Pop(t)
    PROVE  HInv'
  <1>1. PICK x : thread' = [thread EXCEPT ![t] = x] /\ x.pc \in {"fired", "popped"}
    <2>1. ASSUME NEW pc \in {"fired", "popped"}, NEW p,
                 thread' = [thread EXCEPT ![t] = [pc |-> pc, id |-> p]]
          PROVE  \E y : thread' = [thread EXCEPT ![t] = y] /\ y.pc \in {"fired", "popped"}
      <3> DEFINE y == [pc |-> pc, id |-> p]
      <3>1. thread' = [thread EXCEPT ![t] = y] /\ y.pc \in {"fired", "popped"}
        BY <2>1
      <3> QED
        BY <3>1
    <2>2. ASSUME NEW p \in Ids, Fire(t, p)
          PROVE  thread' = [thread EXCEPT ![t] = [pc |-> "fired", id |-> p]]
      BY <2>2 DEF Fire
    <2>3. ASSUME Pop(t)
          PROVE  thread' = [thread EXCEPT ![t] = [pc |-> "popped", id |-> thread[t].id]]
      BY <2>3 DEF Pop
    <2> QED
      BY <2>1, <2>2, <2>3
  <1>2. thread'[t] = x
    BY <1>1, ReplaceThread DEF PInv
  <1>3. ~Exporting(t)'
    BY <1>1, <1>2 DEF Exporting
  <1>4. UNCHANGED <<playlist, created, unlinking, sync, file, nr, clock, disturbed>>
    BY DEF Fire, Pop, rows, ghosts
  <1>5. disturbed \subseteq Ids
    BY DEF HInv
  <1> QED
    BY <1>1, <1>3, <1>4, <1>5, ThreadHeld

(* The thread of an export that goes on is a record.                        *)
LEMMA ExportFacts ==
    ASSUME HInv, PInv, NEW t \in Exports, Exporting(t)
    PROVE  /\ ExportOK(t) /\ thread[t].id \in 1..created /\ thread[t].id \in Ids
           /\ RowOK(thread[t].row) /\ ~thread[t].row.readonly /\ thread[t].row \in Row
  BY CreatedFacts DEF HInv, ExportOK, RowOK

LEMMA ReadRowHeld ==
    ASSUME HInv, PInv, NEW t \in Exports, ReadRow(t)
    PROVE  HInv'
  <1> DEFINE p == thread[t].id
  <1>1. thread[t].pc = "popped" /\ p \in Ids
    BY DEF PInv, ThreadShape, ReadRow, Idle, Raised
  <1>2. UNCHANGED <<playlist, created, unlinking, sync, file, nr, clock>>
    BY DEF ReadRow, rows
  <1>3. PICK x : /\ thread' = [thread EXCEPT ![t] = x]
                 /\ \/ x = Idle
                    \/ /\ Live(p) /\ ~playlist[p].readonly
                       /\ x = [pc |-> "read", id |-> p, row |-> playlist[p]]
    BY DEF ReadRow
  <1>4. thread'[t] = x
    BY <1>3, ReplaceThread DEF PInv
  <1>5. ASSUME Exporting(t)' PROVE ExportOK(t)'
    <2>1. /\ Live(p) /\ ~playlist[p].readonly
          /\ thread'[t] = [pc |-> "read", id |-> p, row |-> playlist[p]]
      BY <1>3, <1>4, <1>5 DEF Exporting, Idle
    <2>2. p \in 1..created /\ RowOK(playlist[p])
      BY <2>1, CreatedFacts DEF HInv, Live
    <2>3. FewerForeign
      BY <1>2 DEF FewerForeign, Foreign, OnDisk
    <2>4. PICK row : row = playlist[p]
      OBVIOUS
    <2>5. RowOK(row)'
      BY <2>2, <2>3, <2>4, RowStays
    <2>6. thread'[t].row = row /\ thread'[t].id = p /\ thread'[t].pc = "read"
      BY <2>1, <2>4
    <2>7. RowOK(thread[t].row)'
      BY <2>5, <2>6
    <2>8. p \in 1..created' /\ playlist'[p] = row /\ ~row.readonly
      BY <1>2, <2>1, <2>2, <2>4
    <2> HIDE DEF p
    <2> QED
      BY <2>6, <2>7, <2>8 DEF ExportOK, Placed
  <1>6. disturbed' \subseteq Ids
    BY <1>1 DEF ReadRow, HInv
  <1> QED
    BY <1>2, <1>3, <1>5, <1>6, ThreadHeld

LEMMA ReadTracksHeld ==
    ASSUME HInv, PInv, NEW t \in Exports, ReadTracks(t)
    PROVE  HInv'
  <1> PICK p : p = thread[t].id
    OBVIOUS
  <1> DEFINE tracks == IF Live(p) THEN playlist[p].tracks ELSE 0
             row == [thread[t].row EXCEPT !.tracks = tracks]
  <1>1. thread[t].pc = "read" /\ Exporting(t)
    BY DEF ReadTracks, Exporting
  <1>2. UNCHANGED <<playlist, created, unlinking, sync, file, nr, clock, disturbed>>
        /\ thread' = [thread EXCEPT ![t] = [pc |-> "tracks", id |-> p, row |-> row]]
    BY DEF ReadTracks, rows, ghosts
  <1>3. p \in 1..created /\ RowOK(thread[t].row) /\ ~thread[t].row.readonly /\ ExportOK(t)
    BY <1>1, ExportFacts
  <1>4. tracks \in Nat
    BY RowFields DEF HInv, RowOK, Live
  <1>5. RowOK(row) /\ row.source = thread[t].row.source /\ ~row.readonly
    <2> HIDE DEF tracks
    <2>1. thread[t].row \in Row
      BY <1>3 DEF RowOK
    <2>2. row \in Row /\ row.source = thread[t].row.source
          /\ row.exported = thread[t].row.exported /\ row.name = thread[t].row.name
          /\ row.readonly = thread[t].row.readonly
      BY <1>4, <2>1 DEF Row, Contents
    <2> HIDE DEF row
    <2> QED
      BY <1>3, <2>2 DEF RowOK, OwnRow, MirrorRow
  <1>6. thread'[t] = [pc |-> "tracks", id |-> p, row |-> row]
    BY <1>2, ReplaceThread DEF PInv
  <1> HIDE DEF row, tracks
  <1>7. ExportOK(t)'
    <2>1. FewerForeign
      BY <1>2 DEF FewerForeign, Foreign, OnDisk
    <2>2. PICK r : r = row
      OBVIOUS
    <2>3. RowOK(r)'
      BY <1>5, <2>1, <2>2, RowStays
    <2>4. thread'[t].row = r /\ thread'[t].id = p /\ thread'[t].pc = "tracks"
      BY <1>6, <2>2
    <2>5. RowOK(thread[t].row)'
      BY <2>3, <2>4
    <2>6. p \in 1..created' /\ ~r.readonly /\ r.source = thread[t].row.source
      BY <1>2, <1>3, <1>5, <2>2
    <2>7. Live(p)' => (playlist'[p].source = None) = (r.source = None)
      BY <1>2, <1>3, <2>6 DEF ExportOK, Live
    <2> QED
      BY <2>4, <2>5, <2>6, <2>7 DEF ExportOK, Placed
  <1>8. disturbed \subseteq Ids
    BY DEF HInv
  <1> QED
    BY <1>2, <1>7, <1>8, ThreadHeld

LEMMA ChooseHeld ==
    ASSUME HInv, PInv, NEW t \in Exports, Choose(t)
    PROVE  HInv'
  <1> PICK p : p = thread[t].id
    OBVIOUS
  <1> PICK row : row = thread[t].row
    OBVIOUS
  <1> PICK target : target = Target(p, row)
    OBVIOUS
  <1>1. thread[t].pc = "tracks" /\ Exporting(t)
    BY DEF Choose, Exporting
  <1>2. UNCHANGED <<playlist, created, unlinking, sync, file, nr, clock>>
        /\ thread' = [thread EXCEPT ![t] = Writing("chosen", p, row, target)]
    BY DEF Choose, rows
  <1>3. p \in 1..created /\ p \in Ids /\ RowOK(row) /\ ~row.readonly /\ ExportOK(t)
    BY <1>1, ExportFacts
  <1>4. /\ target \in Paths /\ Ours(target)
        /\ row.source = None => target \in Places(p, row)
        /\ row.source # None => target[1] = row.source[1]
    BY <1>3, TargetPlaces
  <1>5. /\ thread'[t].pc = "chosen" /\ thread'[t].id = p
        /\ thread'[t].row = row /\ thread'[t].target = target
    BY <1>2, ReplaceThread DEF PInv, Writing
  <1>6. ExportOK(t)'
    <2>1. FewerForeign
      BY <1>2 DEF FewerForeign, Foreign, OnDisk
    <2>2. RowOK(row)' /\ (Ours(target) => Ours(target)')
      BY <1>3, <2>1, RowStays DEF Ours, FewerForeign
    <2>3. RowOK(thread[t].row)' /\ Ours(thread[t].target)'
      BY <1>4, <1>5, <2>2
    <2>4. Live(p)' => (playlist'[p].source = None) = (row.source = None)
      BY <1>2, <1>3 DEF ExportOK, Live
    <2> QED
      BY <1>2, <1>3, <1>4, <1>5, <2>3, <2>4 DEF ExportOK, Placed
  <1>7. disturbed' \subseteq Ids
    <2>1. \A u \in Exports : Exporting(u) => thread[u].id \in Ids
      BY ExportFacts
    <2>2. DOMAIN playlist \subseteq Ids
      BY CreatedFacts
    <2> QED
      BY <1>3, <2>1, <2>2 DEF Choose, HInv
  <1> QED
    BY <1>2, <1>6, <1>7, ThreadHeld

(* The steps that follow keep the row and the place.                        *)
LEMMA PlacedStays ==
    ASSUME HInv, PInv, NEW t \in Exports, Exporting(t), Placed(t),
           NEW pc \in {"chosen", "replaced", "unlinked"},
           pc = "replaced" => Current(thread[t].row) \notin {None, thread[t].target},
           thread' = [thread EXCEPT ![t] =
                         Writing(pc, thread[t].id, thread[t].row, thread[t].target)],
           FewerForeign, UNCHANGED <<playlist, created>>
    PROVE  ExportOK(t)'
  <1> PICK x : x = thread[t]
    OBVIOUS
  <1>1. ExportOK(t)
    BY ExportFacts
  <1>2. /\ thread'[t].pc = pc /\ thread'[t].id = x.id
        /\ thread'[t].row = x.row /\ thread'[t].target = x.target
    BY ReplaceThread DEF PInv, Writing
  <1>3. RowOK(x.row)' /\ Ours(x.target)'
    <2>1. RowOK(x.row) /\ Ours(x.target)
      BY <1>1 DEF ExportOK
    <2> QED
      BY <2>1, RowStays DEF Ours, FewerForeign
  <1>4. RowOK(thread[t].row)' /\ Ours(thread[t].target)'
    BY <1>2, <1>3
  <1> QED
    BY <1>1, <1>2, <1>4 DEF ExportOK, Placed, Live, Current, Places, Folder

LEMMA WriteHeld ==
    ASSUME HInv, PInv, NEW t \in Exports, Replace(t) \/ UnlinkOld(t)
    PROVE  HInv'
  <1> PICK x : x = thread[t]
    OBVIOUS
  <1>1. Exporting(t) /\ Placed(t) /\ ExportOK(t)
    BY ExportFacts DEF Replace, UnlinkOld, Exporting, Placed
  <1>2. x.id \in 1..created /\ x.row \in Row /\ x.target \in Paths /\ x.row.tracks \in Nat
    BY <1>1, RowFields DEF ExportOK, RowOK
  <1>3. UNCHANGED <<playlist, created, unlinking, sync, nr, disturbed>>
    BY DEF Replace, UnlinkOld, rows, ghosts
  <1>4. clock \in Nat /\ nr \in Nat /\ disturbed \subseteq Ids
    BY DEF HInv, Contents, Mtimes
  <1>5. DiskOK' /\ FewerForeign /\ clock' \in Nat
    <2>1. CASE Replace(t)
      <3> DEFINE mtime == IF x.target[1] \in Mirrored THEN clock + 1 ELSE 0
                 e == [by |-> x.id, tracks |-> x.row.tracks, mtime |-> mtime]
      <3>1. file' = With(file, x.target, e) /\ clock' = IF mtime = 0 THEN clock ELSE mtime
        BY <2>1 DEF Replace
      <3>2. mtime \in Nat
        BY <1>4
      <3>3. e \in File /\ e.by # 0 /\ e.by \in 0..created
        BY <1>2, <3>2, CreatedFacts DEF File, Contents, Mtimes
      <3> HIDE DEF e, mtime
      <3>4. clock' \in Nat
        BY <1>4, <3>1, <3>2
      <3> QED
        BY <1>2, <1>3, <3>1, <3>3, <3>4, DiskWrites DEF HInv
    <2>2. CASE UnlinkOld(t)
      <3>1. PICK f : f = Current(x.row)
        OBVIOUS
      <3>2. file' = Without(file, f) /\ clock' = clock
        BY <2>2, <3>1 DEF UnlinkOld
      <3> QED
        BY <1>3, <1>4, <3>2, DiskRemoves DEF HInv
    <2> QED
      BY <2>1, <2>2
  <1>6. PICK pc \in {"replaced", "unlinked"} :
            /\ thread' = [thread EXCEPT ![t] = Writing(pc, x.id, x.row, x.target)]
            /\ pc = "replaced" => Current(x.row) \notin {None, x.target}
    BY DEF Replace, UnlinkOld
  <1>7. ExportOK(t)'
    BY <1>1, <1>3, <1>5, <1>6, PlacedStays
  <1>8. SameKind /\ \A q \in DOMAIN playlist' : RowOK(playlist[q])'
    BY <1>3, <1>5, CreatedFacts, RowsStay
  <1>9. SyncOK'
    BY <1>3, <1>8, SyncStays DEF HInv
  <1>10. ASSUME NEW u \in Exports, Exporting(u)'
         PROVE  \/ Exporting(u) /\ thread'[u] = thread[u]
                \/ ExportOK(u)'
    <2>1. \A v \in Exports : v # t => thread'[v] = thread[v]
      BY <1>6, ReplaceThread DEF PInv
    <2> QED
      BY <1>7, <1>10, <2>1 DEF Exporting
  <1> QED
    BY <1>3, <1>4, <1>5, <1>8, <1>9, <1>10, HStep

LEMMA FailsHeld ==
    ASSUME HInv, PInv, NEW t \in Exports, Fails(t)
    PROVE  HInv'
  <1>1. UNCHANGED <<playlist, created, unlinking, sync, file, nr, clock>>
        /\ disturbed' = disturbed \cup {thread[t].id}
    BY DEF Fails, rows
  <1>2. thread[t].id \in Ids
    BY ExportFacts DEF Fails, Exporting
  <1>3. PICK x \in {Idle, Raised(t)} : thread' = [thread EXCEPT ![t] = x] /\ thread'[t] = x
    BY EndsAtRest DEF PInv
  <1>4. ~Exporting(t)'
    BY <1>3, AtRest DEF Exporting
  <1>5. disturbed' \subseteq Ids
    BY <1>1, <1>2 DEF HInv
  <1> QED
    BY <1>1, <1>3, <1>4, <1>5, ThreadHeld

(* A row's record of its file changes within its kind.                      *)
Moved(row, target, mtime) == [row EXCEPT !.source = target, !.mtime = mtime]

LEMMA SourceRecorded ==
    ASSUME NEW row, RowOK(row), NEW target \in MirrorPaths, Ours(target), NEW mtime \in Nat,
           row.source # None
    PROVE  RowOK(Moved(row, target, mtime)) /\ Moved(row, target, mtime).source = target
  <1> DEFINE r == Moved(row, target, mtime)
  <1>1. row \in Row /\ target # None /\ target \in Paths
    BY PathFacts DEF RowOK
  <1>2. r \in Row /\ r.source = target /\ r.exported = row.exported /\ r.readonly = row.readonly
    BY <1>1 DEF Row, Mtimes, Moved
  <1> HIDE DEF r
  <1>3. RowOK(r)
    BY <1>1, <1>2 DEF RowOK, MirrorRow, Ours
  <1> QED
    BY <1>2, <1>3 DEF r

LEMMA PlaceRecorded ==
    ASSUME NEW row, RowOK(row), NEW target \in Paths, Ours(target), target[1] \notin Mirrored,
           row.source = None
    PROVE  /\ RowOK([row EXCEPT !.exported = target])
           /\ [row EXCEPT !.exported = target].source = None
           /\ [row EXCEPT !.exported = target].exported = target
           /\ [row EXCEPT !.exported = target].name = row.name
           /\ [row EXCEPT !.exported = target].owner = row.owner
           /\ [row EXCEPT !.exported = target].public = row.public
           /\ [row EXCEPT !.exported = target].tracks = row.tracks
  <1> DEFINE r == [row EXCEPT !.exported = target]
  <1>1. row \in Row
    BY DEF RowOK
  <1>2. r \in Row /\ r.exported = target /\ r.source = row.source /\ r.readonly = row.readonly
        /\ r.name = row.name /\ r.owner = row.owner /\ r.public = row.public
        /\ r.tracks = row.tracks
    BY <1>1 DEF Row
  <1> HIDE DEF r
  <1>3. RowOK(r)
    BY <1>2 DEF RowOK, OwnRow
  <1> QED
    BY <1>2, <1>3 DEF r

(* An export of a playlist chose a place of the kind its row asks for.      *)
LEMMA TargetKind ==
    ASSUME NEW t, ExportOK(t), Placed(t)
    PROVE  /\ thread[t].row.source = None => thread[t].target[1] \notin Mirrored
           /\ thread[t].row.source # None => thread[t].target \in MirrorPaths
  <1> PICK row : row = thread[t].row
    OBVIOUS
  <1>1. row \in Row /\ RowOK(row) /\ thread[t].target \in Paths
    BY DEF ExportOK, RowOK
  <1>2. CASE row.source = None
    <2>1. thread[t].target \in Places(thread[t].id, row)
      BY <1>2 DEF ExportOK
    <2>2. Folder(row) \notin Mirrored
      BY <1>1, FolderIsOwn
    <2> QED
      BY <1>2, <2>1, <2>2 DEF Places
  <1>3. CASE row.source # None
    <2>1. thread[t].target[1] = row.source[1]
      BY <1>3 DEF ExportOK
    <2>2. row.source[1] \in Mirrored
      BY <1>1, <1>3, PathFacts DEF RowOK, MirrorRow
    <2> QED
      BY <1>1, <1>3, <2>1, <2>2 DEF Paths, MirrorPaths
  <1> QED
    BY <1>2, <1>3

LEMMA RecordHeld ==
    ASSUME HInv, PInv, NEW t \in Exports, Record(t)
    PROVE  HInv'
  <1> PICK p : p = thread[t].id
    OBVIOUS
  <1> PICK target : target = thread[t].target
    OBVIOUS
  <1>1. thread[t].pc = "unlinked" /\ Exporting(t) /\ Placed(t) /\ ExportOK(t)
    BY ExportFacts DEF Record, Exporting, Placed
  <1>2. UNCHANGED <<created, unlinking, sync, file, nr, clock, disturbed>>
    BY DEF Record, ghosts
  <1>3. FewerForeign
    BY <1>2 DEF FewerForeign, Foreign, OnDisk
  <1>4. target \in Paths /\ Ours(target) /\ target[1] # "smart"
    BY <1>1 DEF ExportOK, Ours
  <1>5. /\ thread[t].row.source = None => target[1] \notin Mirrored
        /\ thread[t].row.source # None => target \in MirrorPaths
    BY <1>1, TargetKind
  <1>6. SameKind /\ \A q \in DOMAIN playlist' : RowOK(playlist[q])'
    <2>1. CASE playlist' = playlist
      BY <1>2, <1>3, <2>1, CreatedFacts, RowsStay
    <2>2. CASE Live(p) /\ thread[t].row.source # None /\ OnDisk(target)
               /\ playlist' = [playlist EXCEPT ![p] =
                      [@ EXCEPT !.source = target, !.mtime = file[target].mtime]]
      <3> PICK mtime : mtime = file[target].mtime
        OBVIOUS
      <3> PICK row : row = playlist[p]
        OBVIOUS
      <3> DEFINE r == Moved(row, target, mtime)
      <3>1. p \in DOMAIN playlist /\ RowOK(row) /\ row.source # None
        BY <1>1, <2>2 DEF HInv, Live, ExportOK
      <3>2. mtime \in Nat
        BY <2>2 DEF HInv, DiskOK, OnDisk, File, Mtimes
      <3>3. RowOK(r) /\ r.source = target
        <4>1. target \in MirrorPaths /\ Ours(target)
          BY <1>4, <1>5, <2>2
        <4> QED
          BY <3>1, <3>2, <4>1, SourceRecorded
      <3>4. playlist' = [playlist EXCEPT ![p] = r]
        BY <2>2 DEF Moved
      <3>5. target # None
        BY <1>4, PathFacts
      <3> HIDE DEF r
      <3> QED
        BY <1>2, <1>3, <1>4, <3>1, <3>3, <3>4, <3>5, RowReplaced
    <2>3. CASE Live(p) /\ thread[t].row.source = None
               /\ playlist' = [playlist EXCEPT ![p].exported = target]
      <3> DEFINE r == [playlist[p] EXCEPT !.exported = target]
      <3>1. p \in DOMAIN playlist /\ RowOK(playlist[p]) /\ playlist[p].source = None
        BY <1>1, <2>3 DEF HInv, Live, ExportOK
      <3>3. RowOK(r) /\ r.source = None
        BY <1>4, <1>5, <2>3, <3>1, PlaceRecorded
      <3>4. playlist' = [playlist EXCEPT ![p] = r]
        BY <2>3
      <3> HIDE DEF r
      <3>5. r.source[1] # "smart"
        BY <3>3, PathFacts
      <3> QED
        BY <1>2, <1>3, <3>1, <3>3, <3>4, <3>5, RowReplaced
    <2> QED
      BY <2>1, <2>2, <2>3 DEF Record
  <1>7. DiskOK'
    BY <1>2, <1>6, DiskStays DEF HInv
  <1>8. SyncOK'
    BY <1>2, <1>6, SyncStays DEF HInv
  <1>9. ASSUME NEW u \in Exports, Exporting(u)' PROVE Exporting(u) /\ thread'[u] = thread[u]
    <2>1. PICK x \in {Idle, Raised(t)} :
             thread'[t] = x /\ \A v \in Exports : v # t => thread'[v] = thread[v]
      BY EndsAtRest DEF PInv
    <2> QED
      BY <1>9, <2>1, AtRest DEF Exporting
  <1>10. nr \in Nat /\ clock \in Nat /\ disturbed \subseteq Ids
    BY DEF HInv, Contents, Mtimes
  <1> QED
    BY <1>2, <1>3, <1>6, <1>7, <1>8, <1>9, <1>10, HStep

-----------------------------------------------------------------------------
(* Steps of the process: none of them touches rows or files.                *)
LEMMA ProcessHeld ==
    ASSUME HInv, PInv, Exit \/ (\E p \in flushing : FlushNext(p)) \/ Restarted
    PROVE  HInv'
  <1>1. UNCHANGED <<playlist, created, file, nr, clock>>
    BY DEF Exit, FlushNext, Restarted, rows
  <1>2. SameKind
    BY <1>1, CreatedFacts DEF SameKind, Live
  <1>3. DiskOK' /\ FewerForeign
    BY <1>1, <1>2, DiskStays DEF HInv
  <1>4. \A q \in DOMAIN playlist' : RowOK(playlist[q])'
    BY <1>1, <1>3, CreatedFacts, RowsStay
  <1>5. sync' = sync \/ sync' = Asleep
    BY DEF Exit, FlushNext, Restarted
  <1>6. SyncOK'
    <2>1. CASE sync' = sync
      BY <1>2, <2>1, SyncStays DEF HInv
    <2>2. CASE sync' = Asleep
      BY <2>2 DEF SyncOK
    <2> QED
      BY <1>5, <2>1, <2>2
  <1>7. \A d \in unlinking' : d \in unlinking
    BY DEF Exit, FlushNext, Restarted
  <1>8. ASSUME NEW t \in Exports, Exporting(t)' PROVE Exporting(t) /\ thread'[t] = thread[t]
    <2>1. CASE Exit
      BY <1>8, <2>1 DEF Exit, Exporting
    <2>2. ASSUME NEW p \in flushing, FlushNext(p) PROVE Exporting(t) /\ thread'[t] = thread[t]
      <3>1. Main \in Exports /\ thread' = [thread EXCEPT ![Main] = [pc |-> "fired", id |-> p]]
        BY <2>2 DEF FlushNext, Exports
      <3>2. /\ thread'[Main] = [pc |-> "fired", id |-> p]
            /\ \A u \in Exports : u # Main => thread'[u] = thread[u]
        BY <3>1, ReplaceThread DEF PInv
      <3> QED
        BY <1>8, <3>2 DEF Exporting
    <2>3. CASE Restarted
      BY <1>8, <2>3 DEF Restarted, Exporting, Idle
    <2> QED
      BY <2>1, <2>2, <2>3
  <1>9. disturbed' \subseteq Ids
    <2>1. CASE Restarted
      <3>1. \A t \in Exports : Exporting(t) => thread[t].id \in Ids
        BY ExportFacts
      <3>2. \A d \in unlinking : d.id \in Ids
        BY CreatedFacts DEF PInv, IdsOnce
      <3> QED
        BY <2>1, <3>1, <3>2 DEF Restarted, HInv, PInv, TimerShape
    <2>2. CASE ~Restarted
      BY <2>2 DEF Exit, FlushNext, HInv, ghosts
    <2> QED
      BY <2>1, <2>2
  <1>10. nr \in Nat /\ clock \in Nat
    BY DEF HInv, Contents, Mtimes
  <1> QED
    BY <1>1, <1>2, <1>3, <1>4, <1>6, <1>7, <1>8, <1>9, <1>10, HStep

-----------------------------------------------------------------------------
(* A pass.  Its steps that only look change nothing but what it knows.      *)
LEMMA LookHeld ==
    ASSUME HInv, PInv, SyncOK',
           UNCHANGED <<playlist, created, thread, unlinking, file, nr, clock, disturbed>>
    PROVE  HInv'
  <1>1. SameKind
    BY CreatedFacts DEF SameKind, Live
  <1>2. DiskOK' /\ FewerForeign
    BY <1>1, DiskStays DEF HInv
  <1>3. \A q \in DOMAIN playlist' : RowOK(playlist[q])'
    BY <1>2, CreatedFacts, RowsStay
  <1>4. \A t \in Exports : Exporting(t)' => Exporting(t)
    BY DEF Exporting
  <1>5. nr \in Nat /\ clock \in Nat /\ disturbed \subseteq Ids
    BY DEF HInv, Contents, Mtimes
  <1> QED
    BY <1>1, <1>2, <1>3, <1>4, <1>5, HStep

Reading(todo, known, gone, taken) ==
    [pc |-> "read", todo |-> todo, known |-> known, gone |-> gone, taken |-> taken]

(* A pass goes on with less to do, or is over.                              *)
LEMMA OnwardOK ==
    ASSUME NEW todo, NEW known, NEW gone, NEW taken,
           sync' = Onward(Reading(todo, known, gone, taken)),
           todo \subseteq MirrorPaths, KnownOK(known)', gone \subseteq known,
           taken \subseteq Stems, IsFiniteSet(taken)
    PROVE  SyncOK'
  <1>1. sync' = Asleep \/ sync' = Reading(todo, known, gone, taken)
    BY DEF Onward
  <1>2. ASSUME sync' = Reading(todo, known, gone, taken) PROVE SyncOK'
    BY <1>2 DEF Reading, SyncOK, PassOK
  <1> QED
    BY <1>1, <1>2 DEF SyncOK

LEMMA SyncListHeld ==
    ASSUME HInv, PInv, SyncList
    PROVE  HInv'
  <1> DEFINE files == {f \in DOMAIN file : f[1] \in Mirrored \cap config.dirs}
  <1>1. sync' = [pc |-> "listed", files |-> files]
    BY DEF SyncList
  <1>2. files \subseteq MirrorPaths
    <2>1. DOMAIN file \subseteq Paths
      BY DEF HInv, DiskOK
    <2> QED
      BY <2>1 DEF Paths, MirrorPaths
  <1> HIDE DEF files
  <1>3. SyncOK'
    BY <1>1, <1>2 DEF SyncOK
  <1> QED
    BY <1>3, LookHeld DEF SyncList, rows, ghosts

(* What a pass reads of the rows is true of them, and finite.               *)
LEMMA RowsFinite ==
    ASSUME PInv
    PROVE  IsFiniteSet(DOMAIN playlist)
  <1>1. 1..created \in SUBSET (1..created) /\ IsFiniteSet(1..created)
    BY CreatedFacts, FS_Interval
  <1> QED
    BY <1>1, CreatedFacts, FS_Subset

LEMMA SyncReadHeld ==
    ASSUME HInv, PInv, SyncRead
    PROVE  HInv'
  <1> DEFINE mirrors == {q \in DOMAIN playlist : playlist[q].source # None}
             public  == {q \in DOMAIN playlist : playlist[q].owner = NoUser}
  <1> PICK known : known = {[source |-> playlist[p].source, id |-> p,
                             mtime |-> playlist[p].mtime] : p \in mirrors}
    OBVIOUS
  <1> PICK gone : gone = Vanished(known, sync.files)
    OBVIOUS
  <1> PICK taken : taken = {playlist[p].name : p \in public}
    OBVIOUS
  <1> PICK files : files = sync.files
    OBVIOUS
  <1>1. sync' = Onward(Reading(files, known, gone, taken))
    BY DEF SyncRead, Reading
  <1>2. UNCHANGED <<playlist, created, thread, unlinking, file, nr, clock, disturbed>>
    BY DEF SyncRead, rows, ghosts
  <1>3. files \subseteq MirrorPaths
    BY DEF SyncRead, HInv, SyncOK, Asleep
  <1>4. KnownOK(known)'
    <2> SUFFICES ASSUME NEW p \in mirrors
                 PROVE  /\ p \in 1..created' /\ playlist[p].source \in MirrorPaths
                        /\ playlist'[p] = playlist[p] /\ playlist[p].source # None
      BY <1>2 DEF KnownOK
    <2>1. p \in DOMAIN playlist /\ RowOK(playlist[p]) /\ p \in 1..created
      BY CreatedFacts DEF HInv
    <2> QED
      BY <1>2, <2>1 DEF RowOK, MirrorRow
  <1>5. gone \subseteq known
    BY DEF Vanished
  <1>6. taken \subseteq Stems
    BY RowFields DEF HInv, RowOK
  <1>7. IsFiniteSet(taken)
    <2>1. IsFiniteSet(public)
      BY RowsFinite, FS_Subset
    <2> QED
      <3> DEFINE f == [p \in public |-> playlist[p].name]
      <3>1. f \in Surjection(public, taken)
        BY DEF Surjection
      <3> QED
        BY <2>1, <3>1, FS_Surjection
  <1>8. SyncOK'
    BY <1>1, <1>3, <1>4, <1>5, <1>6, <1>7, OnwardOK
  <1> QED
    BY <1>2, <1>8, LookHeld

(* What a pass that reads has.                                              *)
LEMMA ReadingFacts ==
    ASSUME SyncOK, sync.pc = "read"
    PROVE  /\ sync = Reading(sync.todo, sync.known, sync.gone, sync.taken)
           /\ PassOK(sync)
  BY DEF SyncOK, Reading, Asleep

LEMMA SyncDeleteHeld ==
    ASSUME HInv, PInv, NEW k \in sync.gone, SyncDelete(k)
    PROVE  HInv'
  <1> PICK todo, known, gone, taken : /\ todo = sync.todo /\ known = sync.known
                                      /\ gone = sync.gone /\ taken = sync.taken
    OBVIOUS
  <1>1. sync = Reading(todo, known, gone, taken) /\ PassOK(sync)
    BY ReadingFacts DEF SyncDelete, InPass, HInv
  <1>2. /\ todo \subseteq MirrorPaths /\ KnownOK(known) /\ gone \ {k} \subseteq known
        /\ taken \subseteq Stems /\ IsFiniteSet(taken)
    BY <1>1 DEF PassOK
  <1>3. CASE Live(k.id)
    <2>1. RowDeleted(k.id, "sync") /\ sync' = Onward([sync EXCEPT !.gone = @ \ {k}])
      BY <1>3 DEF SyncDelete
    <2>2. [sync EXCEPT !.gone = @ \ {k}] = Reading(todo, known, gone \ {k}, taken)
      BY <1>1 DEF Reading
    <2>3. PICK g : g = gone \ {k}
      OBVIOUS
    <2>4. SameKind => SyncOK'
      <3> SUFFICES ASSUME SameKind PROVE SyncOK'
        OBVIOUS
      <3>1. KnownOK(known)'
        BY <1>2, KnownStays
      <3>2. sync' = Onward(Reading(todo, known, g, taken))
        BY <2>1, <2>2, <2>3
      <3> QED
        BY <1>2, <2>3, <3>1, <3>2, OnwardOK
    <2> QED
      BY <1>3, <2>1, <2>4, RowDeletedHeld
  <1>4. CASE ~Live(k.id)
    <2>1. sync' = Asleep
          /\ UNCHANGED <<playlist, created, thread, unlinking, file, nr, clock, disturbed>>
      BY <1>4 DEF SyncDelete, rows, ghosts
    <2>2. SyncOK'
      BY <2>1 DEF SyncOK
    <2> QED
      BY <2>1, <2>2, LookHeld
  <1> QED
    BY <1>3, <1>4

LEMMA DeleteHeld ==
    ASSUME HInv, PInv, NEW p \in Ids, Delete(p)
    PROVE  HInv'
  <1>1. Live(p) /\ ~playlist[p].readonly /\ RowDeleted(p, "request") /\ UNCHANGED sync
    BY DEF Delete, CanEdit
  <1>2. SameKind => SyncOK'
    BY <1>1, SyncStays DEF HInv
  <1> QED
    BY <1>1, <1>2, RowDeletedHeld

LEMMA SyncLookHeld ==
    ASSUME HInv, PInv, NEW f \in sync.todo, SyncLook(f)
    PROVE  HInv'
  <1> PICK todo, known, gone, taken : /\ todo = sync.todo /\ known = sync.known
                                      /\ gone = sync.gone /\ taken = sync.taken
    OBVIOUS
  <1>1. sync = Reading(todo, known, gone, taken) /\ PassOK(sync)
    BY ReadingFacts DEF SyncLook, InPass, HInv
  <1>2. /\ todo \ {f} \subseteq MirrorPaths /\ KnownOK(known) /\ gone \subseteq known
        /\ taken \subseteq Stems /\ IsFiniteSet(taken) /\ f \in MirrorPaths
    BY <1>1 DEF PassOK
  <1>3. UNCHANGED <<playlist, created, thread, unlinking, file, nr, clock, disturbed>>
    BY DEF SyncLook, rows, ghosts
  <1>4. SameKind
    BY <1>3, CreatedFacts DEF SameKind, Live
  <1>5. KnownOK(known)'
    BY <1>2, <1>4, KnownStays
  <1>6. PICK left : left = todo \ {f}
    OBVIOUS
  <1>7. \/ sync' = Onward([sync EXCEPT !.todo = @ \ {f}])
        \/ OnDisk(f) /\ sync' = [pc |-> "parsed", todo |-> left, known |-> known,
                                 gone |-> {}, taken |-> taken, path |-> f, parsed |-> file[f]]
    BY <1>6 DEF SyncLook
  <1>8. CASE sync' = Onward([sync EXCEPT !.todo = @ \ {f}])
    <2>1. [sync EXCEPT !.todo = @ \ {f}] = Reading(left, known, gone, taken)
      BY <1>1, <1>6 DEF Reading
    <2>2. SyncOK'
      BY <1>2, <1>5, <1>6, <1>8, <2>1, OnwardOK
    <2> QED
      BY <1>3, <2>2, LookHeld
  <1>9. CASE OnDisk(f) /\ sync' = [pc |-> "parsed", todo |-> left, known |-> known, gone |-> {},
                                   taken |-> taken, path |-> f, parsed |-> file[f]]
    <2>1. file[f] \in File
      BY <1>9 DEF HInv, DiskOK, OnDisk
    <2>2. SyncOK'
      BY <1>2, <1>5, <1>6, <1>9, <2>1 DEF SyncOK, PassOK
    <2> QED
      BY <1>3, <2>2, LookHeld
  <1> QED
    BY <1>7, <1>8, <1>9

LEMMA FreeNames ==
    ASSUME NEW stem \in Stems, IsFiniteSet(sync.taken)
    PROVE  FreeName(stem) \subseteq Stems
  <1>1. Cardinality(sync.taken) \in Nat
    BY FS_CardinalityType
  <1>2. \A n \in 2..Cardinality(sync.taken) + 2 : n \in Nat
    BY <1>1
  <1>3. \A n \in 2..Cardinality(sync.taken) + 2 : Numbered(stem, n) \in Stems
    BY <1>2, StemFacts
  <1> QED
    BY <1>3 DEF FreeName

(* The rows a pass stores a file in.                                        *)
Stored(row, f, parsed) ==
    [row EXCEPT !.tracks = parsed.tracks, !.mtime = parsed.mtime, !.readonly = f[1] = "smart"]

LEMMA StoredOK ==
    ASSUME NEW row, RowOK(row), NEW f, NEW parsed \in File, row.source # None,
           row.source[1] = "smart" => f[1] = "smart"
    PROVE  RowOK(Stored(row, f, parsed)) /\ Stored(row, f, parsed).source = row.source
  <1> DEFINE r == Stored(row, f, parsed)
  <1>1. parsed.tracks \in Nat /\ parsed.mtime \in Nat /\ row \in Row
    BY DEF File, Contents, Mtimes, RowOK
  <1>2. r \in Row /\ r.source = row.source /\ r.exported = row.exported
        /\ r.readonly = (f[1] = "smart")
    BY <1>1 DEF Row, Contents, Mtimes, Stored
  <1> HIDE DEF r
  <1>3. RowOK(r)
    BY <1>2 DEF RowOK, MirrorRow
  <1> QED
    BY <1>2, <1>3 DEF r

LEMMA StoreHeld ==
    ASSUME HInv, PInv, SyncStore
    PROVE  HInv'
  <1> PICK todo, known, taken, f, parsed :
         /\ todo = sync.todo /\ known = sync.known /\ taken = sync.taken /\ f = sync.path
         /\ parsed = sync.parsed
    OBVIOUS
  <1> PICK name \in FreeName(f[2]) : Store(name)
    BY DEF SyncStore
  <1>1. /\ todo \subseteq MirrorPaths /\ KnownOK(known) /\ taken \subseteq Stems
        /\ IsFiniteSet(taken) /\ f \in MirrorPaths /\ parsed \in File
    BY DEF SyncStore, HInv, SyncOK, PassOK, Asleep
  <1>2. f[2] \in Stems /\ f[1] \in Mirrored /\ name \in Stems /\ f \in Paths /\ f # None
    BY <1>1, PathFacts, FreeNames
  <1> DEFINE ids == {k.id : k \in {m \in known : m.source = f}}
  <1> PICK new : new = [name |-> name, owner |-> NoUser, public |-> TRUE, exported |-> None,
                tracks |-> parsed.tracks, source |-> f, mtime |-> parsed.mtime,
                readonly |-> f[1] = "smart"]
    OBVIOUS
  <1> PICK seen : seen = IF ids = {} THEN taken \cup {name} ELSE taken
    OBVIOUS
  <1>3. UNCHANGED <<thread, unlinking, file, nr, clock, disturbed>>
        /\ sync' = Onward(Reading(todo, known, {}, seen))
    BY DEF Store, Reading, ghosts
  <1>4. FewerForeign
    BY <1>3 DEF FewerForeign, Foreign, OnDisk
  <1>5. SameKind /\ \A q \in DOMAIN playlist' : RowOK(playlist[q])'
    <2>1. CASE ids # {}
      <3>1. /\ playlist' = [p \in DOMAIN playlist |->
                  IF p \notin ids THEN playlist[p] ELSE Stored(playlist[p], f, parsed)]
            /\ UNCHANGED created
        BY <2>1 DEF Store, Stored
      <3>2. ASSUME NEW p \in DOMAIN playlist, p \in ids
            PROVE  /\ RowOK(Stored(playlist[p], f, parsed))
                   /\ Stored(playlist[p], f, parsed).source = playlist[p].source
        <4>1. RowOK(playlist[p]) /\ playlist[p].source # None
              /\ (playlist[p].source[1] = "smart" => f[1] = "smart")
          BY <1>1, <3>2 DEF HInv, KnownOK, Live
        <4> QED
          BY <1>1, <4>1, StoredOK
      <3>3. DOMAIN playlist' = DOMAIN playlist
        BY <3>1
      <3>4. ASSUME NEW p \in DOMAIN playlist
            PROVE  RowOK(playlist[p])' /\ playlist'[p].source = playlist[p].source
        <4>1. PICK row : row = IF p \notin ids THEN playlist[p]
                               ELSE Stored(playlist[p], f, parsed)
          OBVIOUS
        <4>2. RowOK(row) /\ row.source = playlist[p].source
          <5> HIDE DEF ids
          <5> QED
            BY <3>2, <4>1 DEF HInv
        <4>3. playlist'[p] = row
          BY <3>1, <4>1
        <4> QED
          BY <1>4, <4>2, <4>3, RowStays
      <3>5. SameKind
        BY <3>1, <3>3, <3>4, CreatedFacts DEF SameKind, Live
      <3> QED
        BY <3>3, <3>4, <3>5
    <2>2. CASE created' = created + 1 /\ playlist' = With(playlist, created + 1, new)
      <3>1. RowOK(new)
        <4>1. parsed.tracks \in Nat /\ parsed.mtime \in Nat
          BY <1>1 DEF File, Contents, Mtimes
        <4>2. new \in Row
          BY <1>2, <4>1 DEF Row, Contents, Mtimes
        <4> QED
          BY <1>1, <1>2, <4>2 DEF RowOK, MirrorRow
      <3> QED
        BY <1>4, <2>2, <3>1, RowAdded
    <2>3. CASE UNCHANGED rows
      BY <1>4, <2>3, CreatedFacts, RowsStay DEF rows
    <2> QED
      BY <2>1, <2>2, <2>3 DEF Store
  <1>6. SyncOK'
    <2>1. KnownOK(known)'
      BY <1>1, <1>5, KnownStays
    <2>2. seen \subseteq Stems /\ IsFiniteSet(seen)
      BY <1>1, <1>2, FS_AddElement
    <2> QED
      BY <1>1, <1>3, <2>1, <2>2, OnwardOK
  <1>7. DiskOK'
    BY <1>3, <1>5, DiskStays DEF HInv
  <1>8. \A t \in Exports : Exporting(t)' => Exporting(t)
    BY <1>3 DEF Exporting
  <1>9. nr \in Nat /\ clock \in Nat /\ disturbed \subseteq Ids
    BY DEF HInv, Contents, Mtimes
  <1> QED
    BY <1>3, <1>4, <1>5, <1>6, <1>7, <1>8, <1>9, HStep

LEMMA ExternalHeld ==
    ASSUME HInv, PInv, NEW f \in Dirs \X Names, External(f)
    PROVE  HInv'
  <1>1. UNCHANGED <<playlist, created, thread, unlinking, sync, disturbed>>
    BY DEF External, rows, ghosts
  <1>2. nr \in Nat /\ clock \in Nat /\ disturbed \subseteq Ids
    BY DEF HInv, Contents, Mtimes
  <1>3. DiskOK' /\ FewerForeign /\ nr' \in Nat /\ clock' \in Nat
    <2>1. CASE /\ nr' = nr + 1 /\ clock' = clock + 1
               /\ file' = With(file, f, [by |-> 0, tracks |-> nr + 1, mtime |-> clock + 1])
      <3>1. f \in Paths /\ f[1] \in Mirrored
        BY StemFacts DEF External, Paths
      <3>2. PICK e : e = [by |-> 0, tracks |-> nr + 1, mtime |-> clock + 1]
        OBVIOUS
      <3>3. e \in File /\ e.by \in 0..created
        BY <1>2, <3>2, CreatedFacts DEF File, Contents, Mtimes
      <3>4. file' = With(file, f, e)
        BY <2>1, <3>2
      <3>5. DiskOK' /\ FewerForeign
        BY <1>1, <3>1, <3>3, <3>4, DiskWrites DEF HInv
      <3>6. nr' \in Nat /\ clock' \in Nat
        BY <1>2, <2>1
      <3> QED
        BY <3>5, <3>6
    <2>2. CASE file' = Without(file, f) /\ UNCHANGED <<nr, clock>>
      BY <1>1, <1>2, <2>2, DiskRemoves DEF HInv
    <2> QED
      BY <2>1, <2>2 DEF External
  <1>4. SameKind /\ \A q \in DOMAIN playlist' : RowOK(playlist[q])'
    BY <1>1, <1>3, CreatedFacts, RowsStay
  <1>5. SyncOK'
    BY <1>1, <1>4, SyncStays DEF HInv
  <1>6. \A t \in Exports : Exporting(t)' => Exporting(t)
    BY <1>1 DEF Exporting
  <1> QED
    BY <1>1, <1>2, <1>3, <1>4, <1>5, <1>6, HStep

-----------------------------------------------------------------------------
LEMMA InitHInv == Init => HInv
  <1> SUFFICES ASSUME Init PROVE HInv
    OBVIOUS
  <1>1. \A p \in DOMAIN playlist : RowOK(playlist[p])
    BY DEF Init
  <1>2. \A t \in Exports : ~Exporting(t)
    BY DEF Init, Exporting, Idle
  <1>3. DiskOK
    <2>1. PICK foreign \in SUBSET ((config.dirs \cap {"own"}) \X Names) :
             file = [f \in foreign |-> [by |-> 0, tracks |-> 0, mtime |-> 0]]
      BY DEF Init
    <2>2. foreign \subseteq Paths
      BY StemFacts DEF Paths, Dirs
    <2>3. [by |-> 0, tracks |-> 0, mtime |-> 0] \in File
      BY DEF File, Contents, Mtimes
    <2> QED
      BY <2>1, <2>2, <2>3 DEF DiskOK, Init
  <1>4. SyncOK
    BY DEF Init, SyncOK
  <1> QED
    BY <1>1, <1>2, <1>3, <1>4 DEF HInv, Init, Contents, Mtimes

LEMMA NextHInv == HInv /\ PInv /\ [Next]_vars => HInv'
  <1> SUFFICES ASSUME HInv, PInv, [Next]_vars PROVE HInv'
    OBVIOUS
  <1>1. CASE Requests
    <2>1. ASSUME NEW owner \in Users, NEW name \in Names, Create(owner, name) PROVE HInv'
      <3>1. 1 \in Ids
        BY BoundsAssumption DEF Ids
      <3> QED
        BY <2>1, <3>1, RequestsHeld
    <2>2. ASSUME NEW p \in Ids,
                 \/ \E name \in Names, public \in BOOLEAN : Update(p, name, public)
                 \/ EditTracks(p)
          PROVE  HInv'
      BY <2>2, RequestsHeld
    <2> QED
      BY <1>1, <2>1, <2>2, DeleteHeld DEF Requests
  <1>2. ASSUME NEW p \in Ids, Schedule(p) PROVE HInv'
    <2>1. SyncOK'
      BY <1>2, SyncStays, CreatedFacts DEF HInv, Schedule, SameKind, Live, rows
    <2> QED
      BY <1>2, <2>1, LookHeld DEF Schedule, rows, ghosts
  <1>3. CASE Finish
    BY <1>2, <1>3, UnlinkHeld DEF Finish
  <1>4. CASE Sync
    BY <1>4, SyncListHeld, SyncReadHeld, StoreHeld, SyncDeleteHeld, SyncLookHeld DEF Sync
  <1>5. ASSUME NEW t \in Exports, Export(t) \/ Fails(t) PROVE HInv'
    BY <1>5, NotYetHeld, ReadRowHeld, ReadTracksHeld, ChooseHeld, WriteHeld, RecordHeld,
       FailsHeld DEF Export
  <1>6. ASSUME NEW f \in Dirs \X Names, External(f) PROVE HInv'
    BY <1>6, ExternalHeld
  <1>7. CASE Exit
    BY <1>7, ProcessHeld
  <1>8. CASE Stopping
    BY <1>8, ProcessHeld DEF Stopping, Ended
  <1>9. CASE Crash
    BY <1>9, ProcessHeld DEF Crash
  <1>10. CASE UNCHANGED vars
    <2>1. SyncOK'
      BY <1>10, SyncStays, CreatedFacts DEF HInv, vars, SameKind, Live, rows
    <2> QED
      BY <1>10, <2>1, LookHeld DEF vars, rows, ghosts
  <1> QED
    BY <1>1, <1>3, <1>4, <1>5, <1>6, <1>7, <1>8, <1>9, <1>10 DEF Next

-----------------------------------------------------------------------------
LEMMA ExternalSteps ==
    ASSUME [Next]_vars
    PROVE  \/ external' = external
           \/ external' = external + 1 /\ \E f \in Dirs \X Names : External(f)
  <1>1. Requests => external' = external
    BY DEF Requests, Create, Update, EditTracks, Delete, Edited, RowDeleted
  <1>2. Finish \/ Exit \/ Stopping \/ Crash \/ UNCHANGED vars => external' = external
    BY DEF Finish, Schedule, Unlink, Exit, Stopping, FlushNext, Ended, Crash, Restarted, vars, bounds
  <1>3. Sync => external' = external
    BY DEF Sync, SyncList, SyncRead, SyncStore, Store, SyncDelete, SyncLook, RowDeleted, bounds
  <1>4. ASSUME NEW t \in Exports, Export(t) \/ Fails(t) PROVE external' = external
    BY <1>4 DEF Export, Fails, Fire, Pop, ReadRow, ReadTracks, Choose, Replace, UnlinkOld,
                Record, bounds
  <1>5. ASSUME NEW f \in Dirs \X Names, External(f) PROVE external' = external + 1
    BY <1>5 DEF External
  <1> QED
    BY <1>1, <1>2, <1>3, <1>4, <1>5 DEF Next

LEMMA HoldsHInv == Spec => [](PInv /\ HInv /\ external \in Nat)
  <1>1. HInv /\ PInv /\ [Next]_vars => HInv'
    BY NextHInv
  <1>2. Init => external \in Nat
    BY DEF Init
  <1>3. external \in Nat /\ [Next]_vars => (external \in Nat)'
    BY ExternalSteps
  <1> QED
    BY InitHInv, PlaylistsInvariant, <1>1, <1>2, <1>3, PTL DEF Spec

(* A protected path is not one of Ours.                                     *)
LEMMA ProtectedApart ==
    ASSUME NEW f \in DOMAIN file, Ours(f)
    PROVE  ~Protected(f)
  BY DEF Ours, Foreign, Protected, OnDisk

OthersStay ==
    \A f \in DOMAIN file : Protected(f) =>
        \/ OnDisk(f)' /\ file'[f] = file[f]
        \/ \E d \in unlinking \ unlinking' : d.by = "sync" /\ d.path = f

LEMMA StepSparesOthers ==
    HInv /\ PInv /\ external \in Nat /\ [Next]_vars => (external' = external => OthersStay)
  <1> SUFFICES ASSUME HInv, PInv, external \in Nat, [Next]_vars, external' = external
               PROVE  OthersStay
    OBVIOUS
  <1>1. CASE UNCHANGED file
    BY <1>1 DEF OthersStay, OnDisk
  <1>2. ASSUME NEW x, Ours(x), file' = Without(file, x) PROVE OthersStay
    <2>1. \A f \in DOMAIN file : f # x => OnDisk(f)' /\ file'[f] = file[f]
      BY <1>2 DEF Without, Restrict, OnDisk
    <2> QED
      BY <1>2, <2>1, ProtectedApart DEF OthersStay
  <1>3. ASSUME NEW x, Ours(x), NEW e, file' = With(file, x, e) PROVE OthersStay
    <2>1. \A f \in DOMAIN file : f # x => OnDisk(f)' /\ file'[f] = file[f]
      BY <1>3 DEF With, OnDisk
    <2> QED
      BY <1>3, <2>1, ProtectedApart DEF OthersStay
  <1>4. ASSUME NEW d \in unlinking, Unlink(d) PROVE OthersStay
    <2>1. UnlinkOK(d) /\ file' = Without(file, d.path) /\ unlinking' = unlinking \ {d}
      BY <1>4 DEF Unlink, HInv
    <2>2. CASE Ours(d.path)
      BY <1>2, <2>1, <2>2
    <2>3. CASE d.by = "sync"
      <3>1. \A f \in DOMAIN file : f # d.path => OnDisk(f)' /\ file'[f] = file[f]
        BY <2>1 DEF Without, Restrict, OnDisk
      <3>2. d \in unlinking \ unlinking'
        BY <2>1
      <3> QED
        BY <2>3, <3>1, <3>2 DEF OthersStay
    <2> QED
      BY <2>1, <2>2, <2>3 DEF UnlinkOK
  <1>5. ASSUME NEW t \in Exports, Replace(t) PROVE OthersStay
    <2>1. ExportOK(t) /\ Placed(t)
      BY <1>5, ExportFacts DEF Replace, Exporting, Placed
    <2>2. Ours(thread[t].target)
      BY <2>1 DEF ExportOK
    <2> QED
      BY <1>3, <1>5, <2>2 DEF Replace
  <1>6. ASSUME NEW t \in Exports, UnlinkOld(t) PROVE OthersStay
    <2> PICK row : row = thread[t].row
      OBVIOUS
    <2>1. RowOK(row) /\ ~row.readonly
      BY <1>6, ExportFacts DEF UnlinkOld, Exporting
    <2>2. Ours(Current(row))
      <3>1. CASE row.source = None
        BY <2>1, <3>1 DEF RowOK, OwnRow, Current
      <3>2. CASE row.source # None
        <4>1. row.source[1] \in Mirrored
          BY <2>1, <3>2, PathFacts DEF RowOK, MirrorRow
        <4> QED
          BY <2>1, <3>2, <4>1 DEF RowOK, MirrorRow, Current, Ours, Foreign
      <3> QED
        BY <3>1, <3>2
    <2> QED
      BY <1>2, <1>6, <2>2 DEF UnlinkOld
  <1>7. ASSUME NEW t \in Exports, Export(t) \/ Fails(t)
        PROVE  UNCHANGED file \/ Replace(t) \/ UnlinkOld(t)
    BY <1>7 DEF Export, Fails, Fire, Pop, ReadRow, ReadTracks, Choose, Record
  <1>8. Requests \/ Sync => UNCHANGED file
    BY DEF Requests, Create, Update, EditTracks, Delete, Edited, RowDeleted, Sync, SyncList,
       SyncRead, SyncStore, Store, SyncDelete, SyncLook
  <1>9. ASSUME NEW f \in Dirs \X Names, External(f) PROVE FALSE
    BY <1>9 DEF External
  <1>10. (\E p \in Ids : Schedule(p)) \/ Exit \/ Stopping \/ Crash \/ UNCHANGED vars
            => UNCHANGED file
    BY DEF Schedule, Exit, Stopping, FlushNext, Ended, Crash, Restarted, vars
  <1> QED
    BY <1>1, <1>4, <1>5, <1>6, <1>7, <1>8, <1>9, <1>10 DEF Next, Finish

(* Files of other programs in the playlist directory, and playlists that    *)
(* plugins generate, are left alone by edits, exports, deletions and passes *)
(* (the two exceptions apart), for any users, names and exports at once.    *)
THEOREM OthersStayUntouched == Spec => OthersUntouched
  <1>1. HInv /\ PInv /\ external \in Nat /\ [Next]_vars => [external' = external => OthersStay]_vars
    BY StepSparesOthers
  <1>2. [external' = external => OthersStay]_vars => 
           [external' = external =>
              \A f \in DOMAIN file : Protected(f) =>
                 \/ OnDisk(f)' /\ file'[f] = file[f]
                 \/ \E d \in unlinking \ unlinking' : d.by = "sync" /\ d.path = f]_vars
    BY DEF OthersStay
  <1> QED
    BY <1>1, <1>2, HoldsHInv, PTL DEF Spec, OthersUntouched

-----------------------------------------------------------------------------
(* Parts of the invariant in the next state.                                *)
LEMMA ApartNext ==
    ASSUME \A p \in Ids : Own(p)' => \A x : Claims(p, x)' =>
              /\ \A q \in DOMAIN playlist' \ {p} : playlist'[q].exported # x
              /\ \A u \in Exports : Exporting(u)' /\ thread'[u].id # p
                                          => x \notin Touches(thread'[u])
              /\ \A d \in unlinking' : d.path # x
    PROVE  Apart'
  BY DEF Apart, Touches, Current

LEMMA WrittenNext ==
    ASSUME \A t \in Exports, p \in Ids :
              ExportOf(t, p)' /\ Own(p)' /\ thread'[t].pc \in {"replaced", "unlinked"} =>
              /\ thread'[t].target \in DOMAIN file' /\ file'[thread'[t].target].by = p
              /\ file'[thread'[t].target].tracks = thread'[t].row.tracks
              /\ thread'[t].pc = "unlinked" => \A f \in DOMAIN file' :
                    f[1] \notin Mirrored /\ file'[f].by = p => f = thread'[t].target
    PROVE  Written'
  BY DEF Written, OnDisk

(* The files of an own playlist are not in a mirrored directory.            *)
LEMMA ClaimsOwn ==
    ASSUME HInv, NEW p, Own(p), NEW x, Claims(p, x)
    PROVE  x[1] \notin Mirrored /\ x # None
  <1>1. RowOK(playlist[p]) /\ playlist[p].source = None
    BY DEF Own, Live, HInv
  <1>2. CASE x = playlist[p].exported
    BY <1>1, <1>2 DEF RowOK, OwnRow, Claims
  <1>3. ASSUME NEW t \in Exports, ExportOf(t, p), Placed(t), x = thread[t].target
        PROVE  x[1] \notin Mirrored
    <2>1. ExportOK(t) /\ thread[t].row.source = None
      BY <1>1, <1>3 DEF HInv, ExportOf, ExportOK, Own
    <2> QED
      BY <1>3, <2>1, TargetKind
  <1> QED
    BY <1>2, <1>3 DEF Claims

(* A step that leaves own rows and own files alone, and all exports but     *)
(* those it disturbs.                                                       *)
Aside ==
    /\ \A p \in Ids :
        /\ Live(p) => /\ Live(p)'
                      /\ \/ playlist'[p] = playlist[p]
                         \/ playlist[p].source # None /\ playlist'[p].source # None
        /\ Live(p)' /\ playlist'[p].source = None => Live(p)
    /\ \A f : f[1] \notin Mirrored => /\ OnDisk(f)' = OnDisk(f)
                                      /\ OnDisk(f) => file'[f] = file[f]
    /\ \A t \in Exports : Exporting(t)' => Exporting(t) /\ thread'[t] = thread[t]
    /\ \A t \in Exports : Exporting(t) /\ ~Exporting(t)' =>
          thread[t].id \in disturbed' \/ thread[t].row.source # None
    /\ unlinking' \subseteq unlinking
    /\ \A d \in unlinking \ unlinking' : d.id \in disturbed'
    /\ disturbed \subseteq disturbed'
    /\ config' = config
    /\ \A p \in Ids \ unread' : "own" \in config.dirs /\ Own(p)' => p \notin unread

LEMMA AsideKeeps ==
    ASSUME HInv, HInv', PInv, PInv', DInv, Aside
    PROVE  DInv'
  <1>1. ASSUME NEW p \in Ids, Own(p)' PROVE Own(p) /\ playlist'[p] = playlist[p]
    BY <1>1 DEF Own, Aside
  <1>2. ASSUME NEW t \in Exports, NEW p, ExportOf(t, p)'
        PROVE  ExportOf(t, p) /\ thread'[t] = thread[t]
    BY <1>2 DEF ExportOf, Aside
  <1>3. ASSUME NEW p \in Ids, Own(p)', NEW x, Claims(p, x)' PROVE Claims(p, x)
    BY <1>1, <1>2, <1>3 DEF Claims, Placed
  <1>4. ASSUME NEW p \in DOMAIN playlist'
        PROVE  \/ p \in DOMAIN playlist /\ playlist'[p].exported = playlist[p].exported
               \/ playlist'[p].exported = None
    <2>1. p \in Ids /\ RowOK(playlist[p])'
      BY CreatedFacts DEF HInv, PInv, IdsOnce, Ids
    <2>2. playlist'[p].source # None => playlist'[p].exported = None
      BY <2>1 DEF RowOK, MirrorRow
    <2> QED
      BY <2>1, <2>2 DEF Aside, Live
  <1>5. Apart'
    <2> SUFFICES ASSUME NEW p \in Ids, Own(p)', NEW x, Claims(p, x)'
                 PROVE  /\ \A q \in DOMAIN playlist' \ {p} : playlist'[q].exported # x
                        /\ \A u \in Exports : Exporting(u)' /\ thread'[u].id # p
                                                => x \notin Touches(thread'[u])
                        /\ \A d \in unlinking' : d.path # x
      BY ApartNext
    <2>1. Own(p) /\ Claims(p, x) /\ x # None
      BY <1>1, <1>3 DEF Claims
    <2>2. /\ \A q \in DOMAIN playlist \ {p} : playlist[q].exported # x
          /\ \A u \in Exports : Exporting(u) /\ thread[u].id # p => x \notin Touches(thread[u])
          /\ \A d \in unlinking : d.path # x
      BY <2>1 DEF DInv, Apart
    <2> QED
      BY <1>4, <2>1, <2>2 DEF Aside
  <1>6. Lone'
    <2> SUFFICES ASSUME NEW t \in Exports, NEW p \in Ids, ExportOf(t, p)', p \notin disturbed'
                 PROVE  /\ Live(p)' /\ thread'[t].row.exported = playlist'[p].exported
                        /\ \A u \in Exports : ExportOf(u, p)' => u = t
      BY DEF Lone
    <2>1. ExportOf(t, p) /\ p \notin disturbed /\ thread'[t] = thread[t]
      BY <1>2 DEF Aside
    <2>2. /\ Live(p) /\ thread[t].row.exported = playlist[p].exported
          /\ \A u \in Exports : ExportOf(u, p) => u = t
      BY <2>1 DEF DInv, Lone
    <2>3. Live(p)'
      BY <2>2 DEF Aside
    <2>4. playlist'[p].exported = playlist[p].exported
      <3>1. CASE playlist'[p] = playlist[p]
        BY <3>1
      <3>2. CASE playlist[p].source # None /\ playlist'[p].source # None
        <4>1. RowOK(playlist[p]) /\ RowOK(playlist[p])'
          BY <2>2, <2>3 DEF HInv, Live
        <4> QED
          BY <3>2, <4>1 DEF RowOK, MirrorRow
      <3> QED
        BY <2>2, <3>1, <3>2 DEF Aside
    <2> QED
      BY <1>2, <2>1, <2>2, <2>3, <2>4
  <1>7. Written'
    <2> SUFFICES ASSUME NEW t \in Exports, NEW p \in Ids, ExportOf(t, p)', Own(p)',
                        thread'[t].pc \in {"replaced", "unlinked"}
                 PROVE  /\ OnDisk(thread[t].target)' /\ file'[thread'[t].target].by = p
                        /\ file'[thread'[t].target].tracks = thread'[t].row.tracks
                        /\ thread'[t].pc = "unlinked" => \A f \in DOMAIN file' :
                              f[1] \notin Mirrored /\ file'[f].by = p => f = thread'[t].target
      BY DEF Written
    <2>1. ExportOf(t, p) /\ Own(p) /\ thread'[t] = thread[t]
      BY <1>1, <1>2
    <2>2. Claims(p, thread[t].target)
      <3>1. ExportOK(t) /\ Placed(t)
        BY <2>1 DEF HInv, ExportOf, Placed
      <3> QED
        BY <2>1, <3>1, PathFacts DEF Claims, ExportOK
    <2>3. thread[t].target[1] \notin Mirrored
      BY <2>1, <2>2, ClaimsOwn
    <2>4. /\ OnDisk(thread[t].target) /\ file[thread[t].target].by = p
          /\ file[thread[t].target].tracks = thread[t].row.tracks
          /\ thread[t].pc = "unlinked" => \A f \in DOMAIN file :
                f[1] \notin Mirrored /\ file[f].by = p => f = thread[t].target
      BY <2>1 DEF DInv, Written
    <2> QED
      BY <2>1, <2>3, <2>4 DEF Aside, OnDisk
  <1>8. Fresh'
    <2> SUFFICES ASSUME NEW p \in Ids \ unread', "own" \in config'.dirs, Own(p)'
                 PROVE  /\ \A t \in Exports : ExportOf(t, p)' => Matches(t, p)'
                        /\ (\A t \in Exports : ~ExportOf(t, p)') => Settled(p)'
      BY DEF Fresh
    <2>1. Own(p) /\ playlist'[p] = playlist[p] /\ p \in Ids \ unread /\ "own" \in config.dirs
      BY <1>1 DEF Aside
    <2>2. /\ \A t \in Exports : ExportOf(t, p) => Matches(t, p)
          /\ (\A t \in Exports : ~ExportOf(t, p)) => Settled(p)
      BY <2>1 DEF DInv, Fresh
    <2>3. ASSUME NEW t \in Exports, ExportOf(t, p)' PROVE Matches(t, p)'
      BY <1>2, <2>1, <2>2, <2>3 DEF Matches, Folder
    <2>4. ASSUME \A t \in Exports : ~ExportOf(t, p)' PROVE Settled(p)'
      <3>1. \A t \in Exports : ~ExportOf(t, p)
        <4> SUFFICES ASSUME NEW t \in Exports, ExportOf(t, p) PROVE FALSE
          OBVIOUS
        <4>1. thread[t].row.source = None
          BY <2>1 DEF HInv, ExportOf, ExportOK, Own
        <4> QED
          BY <2>1, <2>4, <4>1 DEF ExportOf, Aside, Own
      <3>2. Settled(p)
        BY <2>2, <3>1
      <3>3. Claims(p, playlist[p].exported)
        <4>1. playlist[p] \in Row
          BY <2>1 DEF Own, Live, HInv, RowOK
        <4> QED
          BY <3>2, <4>1, FolderIsOwn, PathFacts DEF Claims, Settled, OnDisk, HInv, DiskOK
      <3>4. playlist[p].exported[1] \notin Mirrored
        BY <2>1, <3>3, ClaimsOwn
      <3> QED
        BY <2>1, <3>2, <3>4 DEF Settled, Places, Folder, Aside
    <2> QED
      BY <2>3, <2>4
  <1>9. FilesOwned'
    <2> SUFFICES ASSUME NEW f \in DOMAIN file', NEW p \in Ids \ disturbed', f[1] \notin Mirrored,
                        file'[f].by = p
                 PROVE  \/ Live(p)' /\ playlist'[p].exported = f
                        \/ \E t \in Exports : /\ ExportOf(t, p)'
                                              /\ thread'[t].pc \in {"replaced", "unlinked"}
                                              /\ thread'[t].target = f
                        \/ \E d \in unlinking' : d.id = p /\ d.path = f
      BY DEF FilesOwned
    <2>1. f \in DOMAIN file /\ file[f].by = p /\ p \in Ids \ disturbed
      BY DEF Aside, OnDisk
    <2>2. \/ Live(p) /\ playlist[p].exported = f
          \/ \E t \in Exports : /\ ExportOf(t, p) /\ thread[t].pc \in {"replaced", "unlinked"}
                                /\ thread[t].target = f
          \/ \E d \in unlinking : d.id = p /\ d.path = f
      BY <2>1 DEF DInv, FilesOwned
    <2>3. CASE Live(p) /\ playlist[p].exported = f
      <3>1. f # None /\ RowOK(playlist[p])
        BY <2>1, <2>3, PathFacts DEF HInv, DiskOK, Live
      <3>2. playlist[p].source = None
        BY <2>3, <3>1 DEF RowOK, MirrorRow
      <3> QED
        BY <2>3, <3>2 DEF Aside
    <2>4. ASSUME NEW t \in Exports, ExportOf(t, p), thread[t].pc \in {"replaced", "unlinked"},
                 thread[t].target = f
          PROVE  ExportOf(t, p)' /\ thread'[t] = thread[t]
      <3>1. Placed(t) /\ ExportOK(t)
        BY <2>4 DEF Placed, HInv, ExportOf
      <3>2. thread[t].row.source = None
        BY <2>4, <3>1, TargetKind, PathFacts
      <3> QED
        BY <2>4, <3>2 DEF ExportOf, Aside
    <2>5. ASSUME NEW d \in unlinking, d.id = p PROVE d \in unlinking'
      BY <2>5 DEF Aside
    <2> QED
      BY <2>2, <2>3, <2>4, <2>5
  <1> QED
    BY <1>5, <1>6, <1>7, <1>8, <1>9 DEF DInv

-----------------------------------------------------------------------------
(* An edit leaves what its row records, and waits to be read.               *)
LEMMA EditSound ==
    ASSUME HInv, PInv, DInv, NEW p \in Ids,
           \/ /\ Live(p) /\ playlist'[p].exported = playlist[p].exported
              /\ playlist'[p].source = playlist[p].source
           \/ p > created /\ playlist'[p].exported = None,
           DOMAIN playlist' = DOMAIN playlist \cup {p}, p \in unread',
           \A q \in DOMAIN playlist : q # p => playlist'[q] = playlist[q],
           unread \subseteq unread',
           UNCHANGED <<config, thread, unlinking, file, disturbed>>
    PROVE  DInv'
  <1>1. ASSUME NEW t \in Exports, Exporting(t) PROVE thread[t].id \in 1..created
    BY <1>1, ExportFacts
  <1>2. \A t \in Exports : Exporting(t)' = Exporting(t)
    BY DEF Exporting
  <1>3. ASSUME NEW q \in Ids, Own(q)', Live(q)
        PROVE  Own(q) /\ playlist'[q].exported = playlist[q].exported
    BY <1>3, CreatedFacts DEF Own, Live
  <1>4. ASSUME NEW q \in Ids, Own(q)', ~Live(q) PROVE \A x : ~Claims(q, x)'
    <2>1. q = p /\ p > created /\ playlist'[p].exported = None
      BY <1>4 DEF Own, Live
    <2>2. \A t \in Exports : ~ExportOf(t, q)'
      BY <1>1, <1>2, <2>1, CreatedFacts DEF ExportOf
    <2> QED
      BY <2>1, <2>2 DEF Claims
  <1>5. Apart'
    <2> SUFFICES ASSUME NEW q \in Ids, Own(q)', NEW x, Claims(q, x)'
                 PROVE  /\ \A r \in DOMAIN playlist' \ {q} : playlist'[r].exported # x
                        /\ \A u \in Exports : Exporting(u)' /\ thread'[u].id # q
                                                => x \notin Touches(thread'[u])
                        /\ \A d \in unlinking' : d.path # x
      BY ApartNext
    <2>1. Live(q)
      BY <1>4
    <2>2. Own(q) /\ Claims(q, x) /\ x # None
      BY <1>2, <1>3, <2>1 DEF Claims, ExportOf, Placed
    <2>3. /\ \A r \in DOMAIN playlist \ {q} : playlist[r].exported # x
          /\ \A u \in Exports : Exporting(u) /\ thread[u].id # q => x \notin Touches(thread[u])
          /\ \A d \in unlinking : d.path # x
      BY <2>2 DEF DInv, Apart
    <2> QED
      BY <1>2, <2>2, <2>3, CreatedFacts DEF Live
  <1>6. Lone'
    BY <1>1, <1>2, CreatedFacts DEF DInv, Lone, ExportOf, Live
  <1>7. Written'
    <2>1. ASSUME NEW t \in Exports, NEW q \in Ids, ExportOf(t, q)', Own(q)'
          PROVE  Own(q) /\ ExportOf(t, q)
      BY <1>1, <1>2, <1>3, <2>1, CreatedFacts DEF ExportOf, Own, Live
    <2> QED
      BY <2>1 DEF DInv, Written, OnDisk
  <1>8. Fresh'
    <2> SUFFICES ASSUME NEW q \in Ids \ unread', "own" \in config.dirs, Own(q)'
                 PROVE  /\ \A t \in Exports : ExportOf(t, q)' => Matches(t, q)'
                        /\ (\A t \in Exports : ~ExportOf(t, q)') => Settled(q)'
      BY DEF Fresh
    <2>1. q # p /\ q \in Ids \ unread /\ Own(q) /\ playlist'[q] = playlist[q]
      BY DEF Own, Live
    <2>2. /\ \A t \in Exports : ExportOf(t, q) => Matches(t, q)
          /\ (\A t \in Exports : ~ExportOf(t, q)) => Settled(q)
      BY <2>1 DEF DInv, Fresh
    <2> QED
      BY <1>2, <2>1, <2>2 DEF ExportOf, Matches, Settled, OnDisk, Places, Folder
  <1>9. FilesOwned'
    <2>1. \A f \in DOMAIN file : f # None
      BY PathFacts DEF HInv, DiskOK
    <2>2. \A q \in Ids : Live(q) => Live(q)' /\ playlist'[q].exported = playlist[q].exported
      BY CreatedFacts DEF Live
    <2> QED
      BY <1>2, <2>1, <2>2 DEF DInv, FilesOwned, ExportOf
  <1> QED
    BY <1>5, <1>6, <1>7, <1>8, <1>9 DEF DInv

LEMMA RequestsSound ==
    ASSUME HInv, PInv, DInv, NEW p \in Ids,
           \/ \E owner \in Users, name \in Names : Create(owner, name)
           \/ \E name \in Names, public \in BOOLEAN : Update(p, name, public)
           \/ EditTracks(p)
    PROVE  DInv'
  <1>1. ASSUME NEW owner \in Users, NEW name \in Names, Create(owner, name) PROVE DInv'
    <2>1. /\ created < config.ids /\ Edited(created + 1)
          /\ playlist'[created + 1].exported = None
          /\ DOMAIN playlist' = DOMAIN playlist \cup {created + 1}
          /\ \A q \in DOMAIN playlist : q # created + 1 => playlist'[q] = playlist[q]
      BY <1>1 DEF Create, With
    <2>2. created + 1 \in Ids /\ created + 1 > created
      BY <2>1, CreatedFacts, ConfigAssumption DEF Ids, PInv, IdsOnce
    <2> QED
      BY <2>1, <2>2, EditSound DEF Edited
  <1>2. ASSUME NEW name \in Names, NEW public \in BOOLEAN, Update(p, name, public) PROVE DInv'
    <2> PICK row : row = playlist[p]
      OBVIOUS
    <2>1. Live(p) /\ row \in Row /\ playlist' = [playlist EXCEPT ![p] =
                        [row EXCEPT !.name = name, !.public = public]]
      BY <1>2 DEF Update, CanEdit, HInv, RowOK, Live
    <2>2. [row EXCEPT !.name = name, !.public = public].exported = row.exported
          /\ [row EXCEPT !.name = name, !.public = public].source = row.source
      BY <2>1 DEF Row
    <2>3. /\ playlist'[p].exported = row.exported /\ playlist'[p].source = row.source
          /\ DOMAIN playlist' = DOMAIN playlist \cup {p}
          /\ \A q \in DOMAIN playlist : q # p => playlist'[q] = playlist[q]
      BY <2>1, <2>2 DEF Live
    <2> QED
      BY <1>2, <2>1, <2>3, EditSound DEF Update, Edited
  <1>3. ASSUME EditTracks(p) PROVE DInv'
    <2> PICK row : row = playlist[p]
      OBVIOUS
    <2>1. Live(p) /\ row \in Row /\ playlist' = [playlist EXCEPT ![p] =
                        [row EXCEPT !.tracks = nr + 1]]
      BY <1>3 DEF EditTracks, CanEdit, HInv, RowOK, Live
    <2>2. [row EXCEPT !.tracks = nr + 1].exported = row.exported
          /\ [row EXCEPT !.tracks = nr + 1].source = row.source
      BY <2>1 DEF Row
    <2>3. /\ playlist'[p].exported = row.exported /\ playlist'[p].source = row.source
          /\ DOMAIN playlist' = DOMAIN playlist \cup {p}
          /\ \A q \in DOMAIN playlist : q # p => playlist'[q] = playlist[q]
      BY <2>1, <2>2 DEF Live
    <2> QED
      BY <1>3, <2>1, <2>3, EditSound DEF EditTracks, Edited
  <1> QED
    BY <1>1, <1>2, <1>3

(* Of a deleted row the file is still to be unlinked, unless an export had  *)
(* it, which is then disturbed.                                             *)
LEMMA RowDeletedSound ==
    ASSUME HInv, PInv, DInv, NEW p, Live(p), NEW by, RowDeleted(p, by)
    PROVE  DInv'
  <1> PICK d0 : d0 = [id |-> p, path |-> FileOf(p), by |-> by]
    OBVIOUS
  <1>1. DOMAIN playlist' = DOMAIN playlist \ {p}
        /\ \A q \in DOMAIN playlist' : playlist'[q] = playlist[q]
    BY DEF RowDeleted, Without, Restrict
  <1>2. UNCHANGED <<config, created, thread, file, unread>>
        /\ unlinking' = unlinking \cup {d0} /\ disturbed \subseteq disturbed'
        /\ d0.id = p /\ d0.path = FileOf(p)
    BY DEF RowDeleted, ghosts
  <1>3. ASSUME NEW t \in Exports, ExportOf(t, p) PROVE p \in disturbed'
    BY <1>3 DEF RowDeleted, ExportOf
  <1>4. \A t \in Exports : \A q : ExportOf(t, q)' = ExportOf(t, q) /\ Exporting(t)' = Exporting(t)
    BY <1>2 DEF ExportOf, Exporting
  <1>5. RowOK(playlist[p])
    BY DEF HInv, Live
  <1>6. ASSUME NEW q, Own(q)' PROVE q # p /\ Own(q) /\ playlist'[q] = playlist[q]
    BY <1>1, <1>2, <1>6 DEF Own, Live
  <1>7. Apart'
    <2> SUFFICES ASSUME NEW q \in Ids, Own(q)', NEW x, Claims(q, x)'
                 PROVE  /\ \A r \in DOMAIN playlist' \ {q} : playlist'[r].exported # x
                        /\ \A u \in Exports : Exporting(u)' /\ thread'[u].id # q
                                                => x \notin Touches(thread'[u])
                        /\ \A d \in unlinking' : d.path # x
      BY ApartNext
    <2>1. Own(q) /\ Claims(q, x) /\ q # p
      BY <1>2, <1>4, <1>6 DEF Claims, Placed
    <2>2. /\ \A r \in DOMAIN playlist \ {q} : playlist[r].exported # x
          /\ \A u \in Exports : Exporting(u) /\ thread[u].id # q => x \notin Touches(thread[u])
          /\ \A d \in unlinking : d.path # x
      BY <2>1 DEF DInv, Apart
    <2>3. d0.path # x
      <3>1. CASE playlist[p].source = None
        BY <1>2, <2>1, <2>2, <3>1 DEF FileOf, Live
      <3>2. CASE playlist[p].source # None
        <4>1. FileOf(p)[1] \in Mirrored
          BY <1>5, <3>2, PathFacts DEF FileOf, RowOK, MirrorRow
        <4> QED
          BY <1>2, <2>1, <4>1, ClaimsOwn
      <3> QED
        BY <3>1, <3>2
    <2> QED
      BY <1>1, <1>2, <1>4, <2>2, <2>3
  <1>8. Lone'
    <2> SUFFICES ASSUME NEW t \in Exports, NEW q \in Ids, ExportOf(t, q)', q \notin disturbed'
                 PROVE  /\ Live(q)' /\ thread'[t].row.exported = playlist'[q].exported
                        /\ \A u \in Exports : ExportOf(u, q)' => u = t
      BY DEF Lone
    <2>1. ExportOf(t, q) /\ q \notin disturbed /\ q # p
      BY <1>2, <1>3, <1>4
    <2> QED
      BY <1>1, <1>2, <1>4, <2>1 DEF DInv, Lone, Live
  <1>9. Written'
    BY <1>2, <1>4, <1>6 DEF DInv, Written, OnDisk
  <1>10. Fresh'
    <2> SUFFICES ASSUME NEW q \in Ids \ unread', "own" \in config.dirs, Own(q)'
                 PROVE  /\ \A t \in Exports : ExportOf(t, q)' => Matches(t, q)'
                        /\ (\A t \in Exports : ~ExportOf(t, q)') => Settled(q)'
      BY <1>2 DEF Fresh
    <2>1. q # p /\ q \in Ids \ unread /\ Own(q) /\ playlist'[q] = playlist[q]
      BY <1>2, <1>6
    <2>2. /\ \A t \in Exports : ExportOf(t, q) => Matches(t, q)
          /\ (\A t \in Exports : ~ExportOf(t, q)) => Settled(q)
      BY <2>1 DEF DInv, Fresh
    <2> QED
      BY <1>2, <1>4, <2>1, <2>2 DEF Matches, Settled, OnDisk, Places, Folder
  <1>11. FilesOwned'
    <2> SUFFICES ASSUME NEW f \in DOMAIN file, NEW q \in Ids \ disturbed', f[1] \notin Mirrored,
                        file[f].by = q
                 PROVE  \/ Live(q)' /\ playlist'[q].exported = f
                        \/ \E t \in Exports : /\ ExportOf(t, q)'
                                              /\ thread'[t].pc \in {"replaced", "unlinked"}
                                              /\ thread'[t].target = f
                        \/ \E d \in unlinking' : d.id = q /\ d.path = f
      BY <1>2 DEF FilesOwned
    <2>1. \/ Live(q) /\ playlist[q].exported = f
          \/ \E t \in Exports : /\ ExportOf(t, q) /\ thread[t].pc \in {"replaced", "unlinked"}
                                /\ thread[t].target = f
          \/ \E d \in unlinking : d.id = q /\ d.path = f
      BY <1>2 DEF DInv, FilesOwned
    <2>2. CASE q # p
      BY <1>1, <1>2, <1>4, <2>1, <2>2 DEF Live
    <2>3. CASE q = p /\ playlist[p].exported = f
      <3>1. f # None
        BY PathFacts DEF HInv, DiskOK
      <3>2. FileOf(p) = f
        BY <1>5, <2>3, <3>1 DEF FileOf, RowOK, MirrorRow
      <3> QED
        BY <1>2, <2>3, <3>2
    <2> QED
      BY <1>2, <1>3, <2>1, <2>2, <2>3
  <1> QED
    BY <1>7, <1>8, <1>9, <1>10, <1>11 DEF DInv

LEMMA UnlinkSound ==
    ASSUME HInv, PInv, DInv, NEW d0 \in unlinking, Unlink(d0)
    PROVE  DInv'
  <1>1. UNCHANGED <<config, playlist, thread, disturbed, unread>>
        /\ unlinking' = unlinking \ {d0} /\ file' = Without(file, d0.path)
    BY DEF Unlink, rows, ghosts
  <1>2. DOMAIN file' = DOMAIN file \ {d0.path} /\ \A f \in DOMAIN file' : file'[f] = file[f]
    BY <1>1 DEF Without, Restrict
  <1>3. ~Live(d0.id)
    BY DEF PInv, IdsOnce
  <1>4. \A t \in Exports : \A q : ExportOf(t, q)' = ExportOf(t, q) /\ Exporting(t)' = Exporting(t)
    BY <1>1 DEF ExportOf, Exporting
  <1>5. \A q : Own(q)' = Own(q) /\ Live(q)' = Live(q) /\ \A x : Claims(q, x)' = Claims(q, x)
    BY <1>1, <1>4 DEF Own, Live, Claims, Placed
  <1>6. Apart'
    BY <1>1, <1>4, <1>5 DEF DInv, Apart, Touches, Current
  <1>7. Lone'
    BY <1>1, <1>4, <1>5 DEF DInv, Lone
  <1>8. Written'
    <2> SUFFICES ASSUME NEW t \in Exports, NEW q \in Ids, ExportOf(t, q), Own(q),
                        thread[t].pc \in {"replaced", "unlinked"}
                 PROVE  /\ OnDisk(thread[t].target)' /\ file'[thread[t].target].by = q
                        /\ file'[thread[t].target].tracks = thread[t].row.tracks
                        /\ thread[t].pc = "unlinked" => \A f \in DOMAIN file' :
                              f[1] \notin Mirrored /\ file'[f].by = q => f = thread[t].target
      BY <1>1, <1>4, <1>5 DEF Written
    <2>1. Claims(q, thread[t].target)
      <3>1. ExportOK(t) /\ Placed(t)
        BY DEF HInv, ExportOf, Placed
      <3> QED
        BY <3>1, PathFacts DEF Claims, ExportOK
    <2>2. d0.path # thread[t].target
      BY <2>1 DEF DInv, Apart
    <2>3. /\ OnDisk(thread[t].target) /\ file[thread[t].target].by = q
          /\ file[thread[t].target].tracks = thread[t].row.tracks
          /\ thread[t].pc = "unlinked" => \A f \in DOMAIN file :
                f[1] \notin Mirrored /\ file[f].by = q => f = thread[t].target
      BY DEF DInv, Written
    <2> QED
      BY <1>1, <1>2, <2>2, <2>3 DEF OnDisk
  <1>9. Fresh'
    <2> SUFFICES ASSUME NEW q \in Ids \ unread, "own" \in config.dirs, Own(q)
                 PROVE  /\ \A t \in Exports : ExportOf(t, q) => Matches(t, q)
                        /\ (\A t \in Exports : ~ExportOf(t, q)) => Settled(q)'
      BY <1>1, <1>4, <1>5 DEF Fresh, Matches, Folder
    <2>1. /\ \A t \in Exports : ExportOf(t, q) => Matches(t, q)
          /\ (\A t \in Exports : ~ExportOf(t, q)) => Settled(q)
      BY DEF DInv, Fresh
    <2>2. ASSUME Settled(q) PROVE Settled(q)'
      <3>1. Claims(q, playlist[q].exported)
        BY <2>2, PathFacts DEF Claims, Settled, OnDisk, HInv, DiskOK
      <3>2. d0.path # playlist[q].exported
        BY <3>1 DEF DInv, Apart
      <3> QED
        BY <1>1, <1>2, <2>2, <3>2 DEF Settled, OnDisk, Places, Folder
    <2> QED
      BY <2>1, <2>2
  <1>10. FilesOwned'
    BY <1>1, <1>2, <1>3, <1>4, <1>5 DEF DInv, FilesOwned
  <1> QED
    BY <1>6, <1>7, <1>8, <1>9, <1>10 DEF DInv

-----------------------------------------------------------------------------
(* Exports.  One that starts finds the claims of others as they were.       *)
LEMMA ReadRowSound ==
    ASSUME HInv, HInv', PInv, PInv', DInv, NEW t \in Exports, ReadRow(t)
    PROVE  DInv'
  <1> PICK p : p = thread[t].id
    OBVIOUS
  <1>1. thread[t].pc = "popped" /\ p \in Ids /\ ~Exporting(t)
    <2>1. thread[t].pc = "popped"
      BY DEF ReadRow
    <2>2. ThreadShape
      BY DEF PInv
    <2>3. thread[t] # Idle /\ thread[t].pc # "raised"
      BY <2>1 DEF Idle
    <2>4. p \in Ids
      BY <2>1, <2>2, <2>3 DEF ThreadShape, Idle, Raised
    <2> QED
      BY <2>1, <2>4 DEF Exporting
  <1>2. UNCHANGED <<config, playlist, unlinking, file>> /\ unread' = unread \ {p}
        /\ disturbed \subseteq disturbed'
    BY DEF ReadRow, rows
  <1>3. PICK x : /\ thread' = [thread EXCEPT ![t] = x]
                 /\ \/ /\ x = Idle
                       /\ ~ /\ Live(p) /\ ~playlist[p].readonly
                            /\ playlist[p].source # None \/ "own" \in config.dirs
                    \/ /\ Live(p) /\ ~playlist[p].readonly
                       /\ x = [pc |-> "read", id |-> p, row |-> playlist[p]]
    BY DEF ReadRow
  <1>4. thread'[t] = x /\ \A u \in Exports : u # t => thread'[u] = thread[u]
    BY <1>3, ReplaceThread DEF PInv
  <1>5. \A u \in Exports : \A q : u # t => /\ ExportOf(u, q)' = ExportOf(u, q)
                                            /\ Exporting(u)' = Exporting(u)
    BY <1>4 DEF ExportOf, Exporting
  <1>6. CASE x = Idle /\ ~ /\ Live(p) /\ ~playlist[p].readonly
                           /\ playlist[p].source # None \/ "own" \in config.dirs
    <2>1. ~Exporting(t)'
      BY <1>4, <1>6 DEF Exporting, Idle
    <2>2. ASSUME NEW q \in Ids \ unread', "own" \in config.dirs, Own(q)' PROVE q \notin unread
      <3>1. CASE q = p
        <4>1. Live(p) /\ playlist[p].source = None /\ ~playlist[p].readonly
          BY <1>2, <2>2, <3>1 DEF Own, Live, HInv, RowOK, OwnRow
        <4> QED
          BY <1>6, <2>2, <4>1
      <3> QED
        BY <1>2, <3>1
    <2>3. Aside
      BY <1>1, <1>2, <1>4, <1>5, <2>1, <2>2 DEF Aside, Live, OnDisk
    <2> QED
      BY <2>3, AsideKeeps
  <1>7. CASE Live(p) /\ x = [pc |-> "read", id |-> p, row |-> playlist[p]]
    <2> PICK row : row = playlist[p]
      OBVIOUS
    <2>1. /\ thread'[t].pc = "read" /\ thread'[t].id = p /\ thread'[t].row = row
          /\ Exporting(t)' /\ ~Placed(t)'
      BY <1>4, <1>7 DEF Exporting, Placed
    <2>2. ASSUME NEW u \in Exports, u # t, ExportOf(u, p) PROVE p \in disturbed'
      BY <2>2 DEF ReadRow, ExportOf
    <2>3. ASSUME NEW q, Own(q)' PROVE Own(q) /\ playlist'[q] = playlist[q]
      BY <1>2, <2>3 DEF Own, Live
    <2>4. \A q, y : Claims(q, y)' => Claims(q, y)
      BY <1>2, <1>4, <1>5, <2>1 DEF Claims, Placed
    <2>5. Touches(thread'[t]) \subseteq {Current(row)} \ {None}
      BY <2>1 DEF Touches
    <2>6. Apart'
      <3> SUFFICES ASSUME NEW q \in Ids, Own(q)', NEW y, Claims(q, y)'
                   PROVE  /\ \A r \in DOMAIN playlist' \ {q} : playlist'[r].exported # y
                          /\ \A u \in Exports : Exporting(u)' /\ thread'[u].id # q
                                                  => y \notin Touches(thread'[u])
                          /\ \A d \in unlinking' : d.path # y
        BY ApartNext
      <3>1. Own(q) /\ Claims(q, y)
        BY <2>3, <2>4
      <3>2. /\ \A r \in DOMAIN playlist \ {q} : playlist[r].exported # y
            /\ \A u \in Exports : Exporting(u) /\ thread[u].id # q => y \notin Touches(thread[u])
            /\ \A d \in unlinking : d.path # y
        BY <3>1 DEF DInv, Apart
      <3>3. ASSUME p # q PROVE y # Current(row)
        <4>1. RowOK(row) /\ p \in DOMAIN playlist
          BY <1>7 DEF HInv, Live
        <4>2. CASE row.source = None
          BY <3>2, <3>3, <4>1, <4>2 DEF Current
        <4>3. CASE row.source # None
          <5>1. Current(row)[1] \in Mirrored
            BY <4>1, <4>3, PathFacts DEF Current, RowOK, MirrorRow
          <5> QED
            BY <3>1, <5>1, ClaimsOwn
        <4> QED
          BY <4>2, <4>3
      <3> QED
        BY <1>2, <1>4, <1>5, <2>1, <2>5, <3>2, <3>3
    <2>7. Lone'
      <3> SUFFICES ASSUME NEW u \in Exports, NEW q \in Ids, ExportOf(u, q)', q \notin disturbed'
                   PROVE  /\ Live(q)' /\ thread'[u].row.exported = playlist'[q].exported
                          /\ \A v \in Exports : ExportOf(v, q)' => v = u
        BY DEF Lone
      <3>1. CASE q = p
        <4>1. \A v \in Exports : v # t => ~ExportOf(v, q)'
          BY <1>5, <2>2, <3>1
        <4> QED
          BY <1>2, <1>7, <2>1, <3>1, <4>1 DEF Live
      <3>2. CASE q # p
        <4>1. ~ExportOf(t, q)'
          BY <2>1, <3>2 DEF ExportOf
        <4> QED
          BY <1>2, <1>4, <1>5, <4>1 DEF DInv, Lone, Live
      <3> QED
        BY <3>1, <3>2
    <2>8. Written'
      <3>1. ASSUME NEW u \in Exports, NEW q \in Ids, ExportOf(u, q)', Own(q)',
                   thread'[u].pc \in {"replaced", "unlinked"}
            PROVE  ExportOf(u, q) /\ Own(q) /\ thread'[u] = thread[u]
        BY <1>4, <1>5, <2>1, <2>3, <3>1
      <3> QED
        BY <1>2, <3>1 DEF DInv, Written, OnDisk
    <2>9. Fresh'
      <3> SUFFICES ASSUME NEW q \in Ids \ unread', "own" \in config.dirs, Own(q)'
                   PROVE  /\ \A u \in Exports : ExportOf(u, q)' => Matches(u, q)'
                          /\ (\A u \in Exports : ~ExportOf(u, q)') => Settled(q)'
        BY <1>2 DEF Fresh
      <3>1. Own(q) /\ playlist'[q] = playlist[q]
        BY <2>3
      <3>2. CASE q = p
        <4>1. \A v \in Exports : v # t => ~ExportOf(v, q)'
          BY <1>5, <2>2, <3>2 DEF Own
        <4>2. ExportOf(t, q)' /\ Matches(t, q)'
          BY <2>1, <3>1, <3>2 DEF ExportOf, Matches, Folder
        <4> QED
          BY <4>1, <4>2
      <3>3. CASE q # p
        <4>1. ~ExportOf(t, q)' /\ ~ExportOf(t, q)
          BY <1>1, <2>1, <3>3 DEF ExportOf
        <4>2. /\ \A u \in Exports : ExportOf(u, q) => Matches(u, q)
              /\ (\A u \in Exports : ~ExportOf(u, q)) => Settled(q)
          BY <1>2, <3>1, <3>3 DEF DInv, Fresh
        <4> QED
          BY <1>2, <1>4, <1>5, <3>1, <4>1, <4>2 DEF Matches, Settled, OnDisk, Places, Folder
      <3> QED
        BY <3>2, <3>3
    <2>10. FilesOwned'
      <3>1. \A u \in Exports : \A q : ExportOf(u, q) => u # t
        BY <1>1 DEF ExportOf
      <3> QED
        BY <1>2, <1>4, <1>5, <3>1 DEF DInv, FilesOwned, Live
    <2> QED
      BY <2>6, <2>7, <2>8, <2>9, <2>10 DEF DInv
  <1> QED
    BY <1>3, <1>6, <1>7

LEMMA ReadTracksSound ==
    ASSUME HInv, PInv, DInv, NEW t \in Exports, ReadTracks(t)
    PROVE  DInv'
  <1> PICK p : p = thread[t].id
    OBVIOUS
  <1> PICK old : old = thread[t].row
    OBVIOUS
  <1> PICK tracks : tracks = IF Live(p) THEN playlist[p].tracks ELSE 0
    OBVIOUS
  <1> PICK row : row = [old EXCEPT !.tracks = tracks]
    OBVIOUS
  <1>1. thread[t].pc = "read" /\ Exporting(t) /\ p \in Ids /\ ~Placed(t)
    BY ExportFacts DEF ReadTracks, Exporting, Placed
  <1>2. UNCHANGED <<config, playlist, unlinking, file, disturbed, unread>>
        /\ thread' = [thread EXCEPT ![t] = [pc |-> "tracks", id |-> p, row |-> row]]
    BY DEF ReadTracks, rows, ghosts
  <1>3. /\ row.exported = old.exported /\ row.source = old.source /\ row.name = old.name
        /\ row.owner = old.owner /\ row.public = old.public /\ row.tracks = tracks
    <2>1. old \in Row
      BY <1>1, ExportFacts
    <2> QED
      BY <2>1 DEF Row
  <1>4. /\ thread'[t].pc = "tracks" /\ thread'[t].id = p /\ thread'[t].row = row
        /\ \A u \in Exports : u # t => thread'[u] = thread[u]
    BY <1>2, ReplaceThread DEF PInv
  <1>5. \A u \in Exports : \A q : ExportOf(u, q)' = ExportOf(u, q) /\ Exporting(u)' = Exporting(u)
    BY <1>1, <1>4 DEF ExportOf, Exporting
  <1>6. \A q : Own(q)' = Own(q) /\ Live(q)' = Live(q)
    BY <1>2 DEF Own, Live
  <1>7. \A q, x : Claims(q, x)' = Claims(q, x)
    BY <1>1, <1>2, <1>4, <1>5 DEF Claims, Placed
  <1>8. \A u \in Exports : Touches(thread'[u]) = Touches(thread[u])
    <2> SUFFICES ASSUME NEW u \in Exports PROVE Touches(thread'[u]) = Touches(thread[u])
      OBVIOUS
    <2>1. CASE u = t
      <3>1. Current(row) = Current(old)
        BY <1>3 DEF Current
      <3>2. Touches(thread'[t]) = {Current(row)} \ {None}
        BY <1>4 DEF Touches
      <3>3. Touches(thread[t]) = {Current(old)} \ {None}
        BY <1>1 DEF Touches
      <3> QED
        BY <2>1, <3>1, <3>2, <3>3
    <2>2. CASE u # t
      BY <1>4, <2>2
    <2> QED
      BY <2>1, <2>2
  <1>9. \A u \in Exports : thread'[u].id = thread[u].id
    BY <1>4
  <1>10. Apart'
    <2> SUFFICES ASSUME NEW q \in Ids, Own(q), NEW x, Claims(q, x)
                 PROVE  /\ \A r \in DOMAIN playlist \ {q} : playlist[r].exported # x
                        /\ \A u \in Exports : Exporting(u) /\ thread[u].id # q
                                                => x \notin Touches(thread'[u])
                        /\ \A d \in unlinking : d.path # x
      BY <1>2, <1>5, <1>6, <1>7, <1>9, ApartNext
    <2> QED
      BY <1>8 DEF DInv, Apart
  <1>11. Lone'
    BY <1>2, <1>3, <1>4, <1>5, <1>6 DEF DInv, Lone
  <1>12. Written'
    <2>1. \A u \in Exports : thread'[u].pc \in {"replaced", "unlinked"} => u # t
      BY <1>4
    <2> QED
      BY <1>2, <1>4, <1>5, <1>6, <2>1 DEF DInv, Written, OnDisk
  <1>13. Fresh'
    <2> SUFFICES ASSUME NEW q \in Ids \ unread, "own" \in config.dirs, Own(q)
                 PROVE  /\ \A u \in Exports : ExportOf(u, q) => Matches(u, q)'
                        /\ (\A u \in Exports : ~ExportOf(u, q)) => Settled(q)'
      BY <1>2, <1>5, <1>6 DEF Fresh
    <2>1. /\ \A u \in Exports : ExportOf(u, q) => Matches(u, q)
          /\ (\A u \in Exports : ~ExportOf(u, q)) => Settled(q)
      BY DEF DInv, Fresh
    <2>2. ASSUME NEW u \in Exports, ExportOf(u, q) PROVE Matches(u, q)'
      <3>1. CASE u = t
        <4>1. p = q /\ Live(q)
          BY <2>2, <3>1 DEF ExportOf, Own
        <4>2. Matches(t, q)
          BY <2>1, <2>2, <3>1
        <4> QED
          BY <1>2, <1>3, <1>4, <3>1, <4>1, <4>2 DEF Matches, Folder
      <3>2. CASE u # t
        BY <1>2, <1>4, <2>1, <2>2, <3>2 DEF Matches, Folder
      <3> QED
        BY <3>1, <3>2
    <2>3. Settled(q) => Settled(q)'
      BY <1>2 DEF Settled, OnDisk, Places, Folder
    <2> QED
      BY <2>1, <2>2, <2>3
  <1>14. FilesOwned'
    <2>1. \A u \in Exports : thread[u].pc \in {"replaced", "unlinked"} => u # t
      BY <1>1
    <2> QED
      BY <1>2, <1>4, <1>5, <1>6, <2>1 DEF DInv, FilesOwned
  <1> QED
    BY <1>10, <1>11, <1>12, <1>13, <1>14 DEF DInv

(* What the steps of an export that has its row leave as it is.             *)
LEMMA Steps ==
    ASSUME HInv, PInv, NEW t \in Exports, Exporting(t), NEW x,
           thread' = [thread EXCEPT ![t] = x], UNCHANGED playlist,
           x.pc \in {"chosen", "replaced", "unlinked"}, x.id = thread[t].id
    PROVE  /\ thread'[t] = x
           /\ \A u \in Exports : u # t => thread'[u] = thread[u]
           /\ \A u \in Exports : \A q : ExportOf(u, q)' = ExportOf(u, q) /\ Exporting(u)' = Exporting(u)
           /\ \A u \in Exports : thread'[u].id = thread[u].id
           /\ \A q : Live(q)' = Live(q)
  <1>1. thread'[t] = x /\ \A u \in Exports : u # t => thread'[u] = thread[u]
    BY ReplaceThread DEF PInv
  <1>2. Exporting(t)'
    BY <1>1 DEF Exporting
  <1>3. \A u \in Exports : Exporting(u)' = Exporting(u) /\ thread'[u].id = thread[u].id
    BY <1>1, <1>2 DEF Exporting
  <1> QED
    BY <1>1, <1>3 DEF ExportOf, Live

LEMMA ChooseSound ==
    ASSUME HInv, PInv, DInv, NEW t \in Exports, Choose(t)
    PROVE  DInv'
  <1> PICK p : p = thread[t].id
    OBVIOUS
  <1> PICK row : row = thread[t].row
    OBVIOUS
  <1> PICK target : target = Target(p, row)
    OBVIOUS
  <1> PICK others : others =
        {thread[u].id : u \in {v \in Exports \ {t} : /\ Exporting(v)
                                  /\ Touches(thread[v]) \cap {target, Current(row)} # {}}}
            \cup {q \in DOMAIN playlist \ {p} : playlist[q].exported = target}
    OBVIOUS
  <1>1. thread[t].pc = "tracks" /\ Exporting(t) /\ ~Placed(t) /\ p \in Ids
    BY ExportFacts DEF Choose, Exporting, Placed
  <1>2. /\ UNCHANGED <<config, playlist, unlinking, file, unread>>
        /\ thread' = [thread EXCEPT ![t] = Writing("chosen", p, row, target)]
    BY DEF Choose, rows
  <1>3. \/ others = {} /\ (\A d \in unlinking : d.path # target) /\ disturbed' = disturbed
        \/ disturbed' = disturbed \cup {p} \cup others
    BY DEF Choose
  <1> PICK x : x = Writing("chosen", p, row, target)
    OBVIOUS
  <1>4. x.pc = "chosen" /\ x.id = p /\ x.row = row /\ x.target = target
    BY DEF Writing
  <1>5. /\ thread'[t] = x
        /\ \A u \in Exports : u # t => thread'[u] = thread[u]
        /\ \A u \in Exports : \A q : ExportOf(u, q)' = ExportOf(u, q) /\ Exporting(u)' = Exporting(u)
        /\ \A u \in Exports : thread'[u].id = thread[u].id
        /\ \A q : Live(q)' = Live(q)
    <2>1. x.pc \in {"chosen", "replaced", "unlinked"} /\ x.id = thread[t].id
      BY <1>4
    <2>2. thread' = [thread EXCEPT ![t] = x] /\ UNCHANGED playlist
      BY <1>2
    <2> QED
      BY <1>1, <2>1, <2>2, Steps
  <1>6. \A q : Own(q)' => Own(q)
    BY <1>2, <1>3, <1>5 DEF Own
  <1>7. ASSUME NEW q, NEW y, Claims(q, y)' PROVE Claims(q, y) \/ (q = p /\ y = target)
    <2>1. ASSUME NEW u \in Exports, ExportOf(u, q)', Placed(u)', y = thread'[u].target
          PROVE  Claims(q, y) \/ (q = p /\ y = target)
      <3>1. CASE u = t
        BY <1>4, <1>5, <2>1, <3>1 DEF ExportOf
      <3>2. CASE u # t
        BY <1>5, <1>7, <2>1, <3>2 DEF Claims, Placed
      <3> QED
        BY <3>1, <3>2
    <2> QED
      BY <1>2, <1>7, <2>1 DEF Claims
  <1>8. /\ Touches(thread'[t]) = ({Current(row)} \ {None}) \cup {target}
        /\ Touches(thread[t]) = {Current(row)} \ {None}
    BY <1>1, <1>4, <1>5 DEF Touches
  <1>9. Apart'
    <2> SUFFICES ASSUME NEW q \in Ids, Own(q)', NEW y, Claims(q, y)'
                 PROVE  /\ \A r \in DOMAIN playlist \ {q} : playlist[r].exported # y
                        /\ \A u \in Exports : Exporting(u) /\ thread[u].id # q
                                                => y \notin Touches(thread'[u])
                        /\ \A d \in unlinking : d.path # y
      BY <1>2, <1>5, ApartNext
    <2>1. Own(q) /\ q \notin disturbed'
      BY <1>6 DEF Own
    <2>2. CASE q = p /\ y = target
      <3>1. others = {} /\ \A d \in unlinking : d.path # target
        BY <1>3, <2>1, <2>2
      <3>2. \A u \in Exports \ {t} : Exporting(u) => target \notin Touches(thread[u])
        BY <3>1
      <3>3. \A r \in DOMAIN playlist \ {q} : playlist[r].exported # y
        BY <2>2, <3>1
      <3> QED
        BY <1>5, <2>2, <3>1, <3>2, <3>3
    <2>3. CASE Claims(q, y)
      <3>1. /\ \A r \in DOMAIN playlist \ {q} : playlist[r].exported # y
            /\ \A u \in Exports : Exporting(u) /\ thread[u].id # q => y \notin Touches(thread[u])
            /\ \A d \in unlinking : d.path # y
        BY <2>1, <2>3 DEF DInv, Apart
      <3>2. ASSUME q # p PROVE y # target
        <4>1. q \notin others
          BY <1>3, <2>1, <3>2
        <4>2. playlist[q].exported # target
          BY <2>1, <3>2, <4>1 DEF Own, Live
        <4>3. ASSUME NEW u \in Exports, ExportOf(u, q), Placed(u), thread[u].target = target
              PROVE  FALSE
          <5>1. u # t /\ Exporting(u) /\ thread[u].id = q
            BY <3>2, <4>3 DEF ExportOf
          <5>2. target \in Touches(thread[u])
            BY <4>3 DEF Touches, Placed
          <5>3. u \in {v \in Exports \ {t} : /\ Exporting(v)
                                /\ Touches(thread[v]) \cap {target, Current(row)} # {}}
            BY <5>1, <5>2
          <5>4. thread[u].id \in others
            BY <5>3
          <5> QED
            BY <4>1, <5>1, <5>4
        <4> QED
          BY <2>3, <4>2, <4>3 DEF Claims
      <3>3. thread[t].id = p
        OBVIOUS
      <3> QED
        BY <1>1, <1>5, <1>8, <3>1, <3>2, <3>3
    <2> QED
      BY <1>7, <2>2, <2>3
  <1>10. Lone'
    BY <1>2, <1>3, <1>4, <1>5 DEF DInv, Lone
  <1>11. Written'
    <2>1. ASSUME NEW u \in Exports, NEW q \in Ids, ExportOf(u, q)', Own(q)',
                 thread'[u].pc \in {"replaced", "unlinked"}
          PROVE  ExportOf(u, q) /\ Own(q) /\ thread'[u] = thread[u]
      BY <1>4, <1>5, <1>6, <2>1
    <2>2. Written
      BY DEF DInv
    <2> QED
      BY <1>2, <2>1, <2>2 DEF Written, OnDisk
  <1>12. Fresh'
    <2> SUFFICES ASSUME NEW q \in Ids \ unread, "own" \in config.dirs, Own(q)
                 PROVE  /\ \A u \in Exports : ExportOf(u, q) => Matches(u, q)'
                        /\ (\A u \in Exports : ~ExportOf(u, q)) => Settled(q)'
      BY <1>2, <1>5, <1>6 DEF Fresh
    <2>1. /\ \A u \in Exports : ExportOf(u, q) => Matches(u, q)
          /\ (\A u \in Exports : ~ExportOf(u, q)) => Settled(q)
      BY DEF DInv, Fresh
    <2>2. ASSUME NEW u \in Exports, ExportOf(u, q) PROVE Matches(u, q)'
      <3>1. thread'[u].row = thread[u].row /\ (thread'[u].pc # "read" => thread[u].pc # "read")
        BY <1>1, <1>4, <1>5
      <3> QED
        BY <1>2, <2>1, <2>2, <3>1 DEF Matches, Folder
    <2>3. Settled(q) => Settled(q)'
      BY <1>2 DEF Settled, OnDisk, Places, Folder
    <2> QED
      BY <2>1, <2>2, <2>3
  <1>13. FilesOwned'
    <2>1. \A u \in Exports : thread[u].pc \in {"replaced", "unlinked"} => u # t
      BY <1>1
    <2> QED
      BY <1>2, <1>3, <1>5, <2>1 DEF DInv, FilesOwned
  <1> QED
    BY <1>9, <1>10, <1>11, <1>12, <1>13 DEF DInv

(* An export leaves files and claims of other playlists alone: a step that  *)
(* writes or removes x is sound if it does what it should for its own.      *)
Writes(t, pc, p, row, target, x) ==
    /\ Placed(t) /\ p = thread[t].id /\ row = thread[t].row /\ target = thread[t].target
    /\ thread' = [thread EXCEPT ![t] = Writing(pc, p, row, target)]
    /\ UNCHANGED <<config, playlist, unlinking, disturbed, unread>>
    /\ x \in Touches(thread[t])
    /\ \A f : f # x => OnDisk(f)' = OnDisk(f) /\ (OnDisk(f) => file'[f] = file[f])
    /\ OnDisk(x)' => x = target /\ file'[x].by = p
    /\ Own(p) => /\ target \in DOMAIN file' /\ file'[target].by = p
                 /\ file'[target].tracks = row.tracks
                 /\ pc = "unlinked" => \A f \in DOMAIN file' :
                        f[1] \notin Mirrored /\ file'[f].by = p => f = target

LEMMA WriteSound ==
    ASSUME HInv, PInv, DInv, NEW t \in Exports, NEW pc \in {"replaced", "unlinked"},
           NEW p, NEW row, NEW target, NEW x, Writes(t, pc, p, row, target, x)
    PROVE  DInv'
  <1>1. /\ Placed(t) /\ p = thread[t].id /\ row = thread[t].row /\ target = thread[t].target
        /\ thread' = [thread EXCEPT ![t] = Writing(pc, p, row, target)]
        /\ UNCHANGED <<config, playlist, unlinking, disturbed, unread>>
        /\ x \in Touches(thread[t])
    BY DEF Writes
  <1>2. /\ \A f : f # x => OnDisk(f)' = OnDisk(f) /\ (OnDisk(f) => file'[f] = file[f])
        /\ OnDisk(x)' => x = target /\ file'[x].by = p
        /\ Own(p) => /\ target \in DOMAIN file' /\ file'[target].by = p
                     /\ file'[target].tracks = row.tracks
                     /\ pc = "unlinked" => \A f \in DOMAIN file' :
                            f[1] \notin Mirrored /\ file'[f].by = p => f = target
    BY DEF Writes
  <1> PICK export : export = Writing(pc, p, row, target)
    OBVIOUS
  <1>3. export.pc = pc /\ export.id = p /\ export.row = row /\ export.target = target
    BY DEF Writing
  <1>4. Exporting(t) /\ thread[t].pc # "read"
    BY <1>1 DEF Placed, Exporting
  <1>5. /\ thread'[t] = export
        /\ \A u \in Exports : u # t => thread'[u] = thread[u]
        /\ \A u \in Exports : \A q : ExportOf(u, q)' = ExportOf(u, q) /\ Exporting(u)' = Exporting(u)
        /\ \A u \in Exports : thread'[u].id = thread[u].id
        /\ \A q : Live(q)' = Live(q)
    BY <1>1, <1>3, <1>4, Steps
  <1>6. p \in Ids /\ ExportOf(t, p)
    BY <1>1, <1>4, ExportFacts DEF ExportOf
  <1>7. \A q : Own(q)' = Own(q)
    BY <1>1, <1>5 DEF Own
  <1>8. \A u \in Exports : thread'[u].row = thread[u].row /\ Placed(u)' = Placed(u)
    BY <1>1, <1>3, <1>5 DEF Placed
  <1>9. \A u \in Exports : Placed(u) => thread'[u].target = thread[u].target
    BY <1>1, <1>3, <1>5
  <1>10. \A q, y : Claims(q, y)' = Claims(q, y)
    BY <1>1, <1>5, <1>8, <1>9 DEF Claims
  <1>11. \A u \in Exports : Touches(thread'[u]) = Touches(thread[u])
    <2> SUFFICES Touches(thread'[t]) = Touches(thread[t])
      BY <1>5
    <2> QED
      BY <1>1, <1>3, <1>5 DEF Touches, Placed
  <1>12. ASSUME NEW q \in Ids, q # p, Own(q), NEW y, Claims(q, y) PROVE y # x
    BY <1>1, <1>4, <1>12 DEF DInv, Apart
  <1>13. Apart'
    <2> SUFFICES ASSUME NEW q \in Ids, Own(q), NEW y, Claims(q, y)
                 PROVE  /\ \A r \in DOMAIN playlist \ {q} : playlist[r].exported # y
                        /\ \A u \in Exports : Exporting(u) /\ thread[u].id # q
                                                => y \notin Touches(thread'[u])
                        /\ \A d \in unlinking : d.path # y
      BY <1>1, <1>5, <1>7, <1>10, ApartNext
    <2> QED
      BY <1>11 DEF DInv, Apart
  <1>14. Lone'
    BY <1>1, <1>5, <1>8 DEF DInv, Lone
  <1>15. ASSUME NEW u \in Exports, NEW q \in Ids, ExportOf(u, q), Own(q), u # t PROVE q # p
    BY <1>6, <1>15 DEF DInv, Lone, Own
  <1>16. Written'
    <2> SUFFICES ASSUME NEW u \in Exports, NEW q \in Ids, ExportOf(u, q), Own(q),
                        thread'[u].pc \in {"replaced", "unlinked"}
                 PROVE  /\ thread'[u].target \in DOMAIN file'
                        /\ file'[thread'[u].target].by = q
                        /\ file'[thread'[u].target].tracks = thread'[u].row.tracks
                        /\ thread'[u].pc = "unlinked" => \A f \in DOMAIN file' :
                              f[1] \notin Mirrored /\ file'[f].by = q => f = thread'[u].target
      BY <1>5, <1>7, WrittenNext
    <2>1. CASE u = t
      <3>1. q = p
        BY <1>6, <2>1 DEF ExportOf
      <3> QED
        BY <1>2, <1>3, <1>5, <2>1, <3>1
    <2>2. CASE u # t
      <3> PICK place : place = thread[u].target
        OBVIOUS
      <3>1. thread'[u] = thread[u] /\ q # p
        BY <1>5, <1>15, <2>2
      <3>2. /\ OnDisk(place) /\ file[place].by = q /\ file[place].tracks = thread[u].row.tracks
            /\ thread[u].pc = "unlinked" => \A f \in DOMAIN file :
                  f[1] \notin Mirrored /\ file[f].by = q => f = place
        BY <3>1 DEF DInv, Written
      <3>3. Claims(q, place)
        <4>1. ExportOK(u) /\ Placed(u)
          BY <3>1 DEF HInv, ExportOf, Placed
        <4> QED
          BY <4>1, PathFacts DEF Claims, ExportOK
      <3>4. place # x
        BY <1>12, <3>1, <3>3
      <3>5. place \in DOMAIN file' /\ file'[place] = file[place]
        BY <1>2, <3>2, <3>4 DEF OnDisk
      <3>6. ASSUME NEW f \in DOMAIN file', file'[f].by = q
            PROVE  f \in DOMAIN file /\ file[f].by = q
        BY <1>2, <3>1, <3>6 DEF OnDisk
      <3> QED
        BY <3>1, <3>2, <3>5, <3>6
    <2> QED
      BY <2>1, <2>2
  <1>17. Fresh'
    <2> SUFFICES ASSUME NEW q \in Ids \ unread, "own" \in config.dirs, Own(q)
                 PROVE  /\ \A u \in Exports : ExportOf(u, q) => Matches(u, q)'
                        /\ (\A u \in Exports : ~ExportOf(u, q)) => Settled(q)'
      BY <1>1, <1>5, <1>7 DEF Fresh
    <2>1. /\ \A u \in Exports : ExportOf(u, q) => Matches(u, q)
          /\ (\A u \in Exports : ~ExportOf(u, q)) => Settled(q)
      BY DEF DInv, Fresh
    <2>2. ASSUME NEW u \in Exports, ExportOf(u, q) PROVE Matches(u, q)'
      <3>1. thread'[u].row = thread[u].row /\ (thread'[u].pc # "read" => thread[u].pc # "read")
        BY <1>4, <1>5, <1>8
      <3> QED
        BY <1>1, <2>1, <2>2, <3>1 DEF Matches, Folder
    <2>3. ASSUME \A u \in Exports : ~ExportOf(u, q) PROVE Settled(q)'
      <3> PICK place : place = playlist[q].exported
        OBVIOUS
      <3>1. q # p /\ Settled(q)
        BY <1>6, <2>1, <2>3
      <3>2. Claims(q, place)
        BY <3>1, PathFacts DEF Claims, Settled, OnDisk, HInv, DiskOK
      <3>3. place # x
        BY <1>12, <3>1, <3>2
      <3> QED
        BY <1>1, <1>2, <3>1, <3>3 DEF Settled, OnDisk, Places, Folder
    <2> QED
      BY <2>2, <2>3
  <1>18. FilesOwned'
    <2> SUFFICES ASSUME NEW f \in DOMAIN file', NEW q \in Ids \ disturbed, f[1] \notin Mirrored,
                        file'[f].by = q
                 PROVE  \/ Live(q) /\ playlist[q].exported = f
                        \/ \E u \in Exports : /\ ExportOf(u, q)
                                              /\ thread'[u].pc \in {"replaced", "unlinked"}
                                              /\ thread'[u].target = f
                        \/ \E d \in unlinking : d.id = q /\ d.path = f
      BY <1>1, <1>5 DEF FilesOwned
    <2>1. CASE f = x
      BY <1>2, <1>3, <1>5, <1>6, <2>1 DEF OnDisk
    <2>2. CASE f # x
      <3>1. f \in DOMAIN file /\ file[f].by = q
        BY <1>2, <2>2 DEF OnDisk
      <3>2. \/ Live(q) /\ playlist[q].exported = f
            \/ \E u \in Exports : /\ ExportOf(u, q) /\ thread[u].pc \in {"replaced", "unlinked"}
                                  /\ thread[u].target = f
            \/ \E d \in unlinking : d.id = q /\ d.path = f
        BY <3>1 DEF DInv, FilesOwned
      <3>3. ASSUME NEW u \in Exports, thread[u].pc \in {"replaced", "unlinked"}
            PROVE  thread'[u].pc \in {"replaced", "unlinked"} /\ thread'[u].target = thread[u].target
        BY <1>1, <1>3, <1>5, <3>3
      <3> QED
        BY <3>2, <3>3
    <2> QED
      BY <2>1, <2>2
  <1> QED
    BY <1>13, <1>14, <1>16, <1>17, <1>18 DEF DInv

(* The files of an own playlist, while its export has not removed any.      *)
LEMMA FilesKnown ==
    ASSUME HInv, PInv, DInv, NEW t \in Exports, Exporting(t), NEW p, p = thread[t].id, Own(p),
           NEW f \in DOMAIN file, f[1] \notin Mirrored, file[f].by = p
    PROVE  \/ f = Current(thread[t].row)
           \/ thread[t].pc \in {"replaced", "unlinked"} /\ f = thread[t].target
  <1>1. p \in Ids \ disturbed /\ ExportOf(t, p)
    BY ExportFacts DEF Own, ExportOf
  <1>2. /\ thread[t].row.exported = playlist[p].exported
        /\ \A u \in Exports : ExportOf(u, p) => u = t
    BY <1>1 DEF DInv, Lone
  <1>3. \A d \in unlinking : d.id # p
    BY DEF PInv, IdsOnce, Own
  <1>4. \/ playlist[p].exported = f
        \/ thread[t].pc \in {"replaced", "unlinked"} /\ f = thread[t].target
    BY <1>1, <1>2, <1>3 DEF DInv, FilesOwned
  <1>5. thread[t].row.source = None
    BY ExportFacts DEF ExportOK, Own
  <1> QED
    BY <1>2, <1>4, <1>5 DEF Current

LEMMA ReplaceSound ==
    ASSUME HInv, PInv, DInv, NEW t \in Exports, Replace(t)
    PROVE  DInv'
  <1> PICK p : p = thread[t].id
    OBVIOUS
  <1> PICK row : row = thread[t].row
    OBVIOUS
  <1> PICK target : target = thread[t].target
    OBVIOUS
  <1>1. thread[t].pc = "chosen" /\ Placed(t) /\ Exporting(t)
    BY DEF Replace, Placed, Exporting
  <1>2. PICK pc \in {"replaced", "unlinked"} :
           /\ thread' = [thread EXCEPT ![t] = Writing(pc, p, row, target)]
           /\ pc = "unlinked" => Current(row) \in {None, target}
    BY DEF Replace
  <1>3. UNCHANGED <<config, playlist, unlinking, disturbed, unread>>
    BY DEF Replace, rows, ghosts
  <1>4. PICK e : /\ file' = With(file, target, e) /\ e.by = p /\ e.tracks = row.tracks
    <2>1. PICK m : file' = With(file, target, [by |-> p, tracks |-> row.tracks, mtime |-> m])
      BY DEF Replace
    <2> QED
      BY <2>1
  <1>5. /\ DOMAIN file' = DOMAIN file \cup {target} /\ file'[target] = e
        /\ \A f \in DOMAIN file : f # target => file'[f] = file[f]
    BY <1>4 DEF With
  <1>6. \A f : f # target => OnDisk(f)' = OnDisk(f) /\ (OnDisk(f) => file'[f] = file[f])
    BY <1>5 DEF OnDisk
  <1>7. target \in Touches(thread[t])
    BY <1>1 DEF Touches
  <1>8. ASSUME Own(p), pc = "unlinked", NEW f \in DOMAIN file', f[1] \notin Mirrored,
               file'[f].by = p
        PROVE  f = target
    <2> SUFFICES ASSUME f # target PROVE FALSE
      OBVIOUS
    <2>1. f \in DOMAIN file /\ file[f].by = p
      BY <1>5, <1>8
    <2>2. f = Current(row)
      BY <1>1, <1>8, <2>1, FilesKnown
    <2>3. f # None
      BY <2>1, PathFacts DEF HInv, DiskOK
    <2> QED
      BY <1>2, <1>8, <2>2, <2>3
  <1>9. Own(p) => /\ target \in DOMAIN file' /\ file'[target].by = p
                  /\ file'[target].tracks = row.tracks
                  /\ pc = "unlinked" => \A f \in DOMAIN file' :
                         f[1] \notin Mirrored /\ file'[f].by = p => f = target
    BY <1>4, <1>5, <1>8
  <1>10. OnDisk(target)' => target = target /\ file'[target].by = p
    BY <1>4, <1>5
  <1>11. Writes(t, pc, p, row, target, target)
    BY <1>1, <1>2, <1>3, <1>6, <1>7, <1>9, <1>10 DEF Writes
  <1> QED
    BY <1>11, WriteSound

LEMMA UnlinkOldSound ==
    ASSUME HInv, PInv, DInv, NEW t \in Exports, UnlinkOld(t)
    PROVE  DInv'
  <1> PICK p : p = thread[t].id
    OBVIOUS
  <1> PICK row : row = thread[t].row
    OBVIOUS
  <1> PICK target : target = thread[t].target
    OBVIOUS
  <1> PICK old : old = Current(row)
    OBVIOUS
  <1>1. thread[t].pc = "replaced" /\ Placed(t) /\ Exporting(t)
    BY DEF UnlinkOld, Placed, Exporting
  <1>2. /\ thread' = [thread EXCEPT ![t] = Writing("unlinked", p, row, target)]
        /\ file' = Without(file, old)
        /\ UNCHANGED <<config, playlist, unlinking, disturbed, unread>>
    BY DEF UnlinkOld, rows, ghosts
  <1>3. DOMAIN file' = DOMAIN file \ {old} /\ \A f \in DOMAIN file' : file'[f] = file[f]
    BY <1>2 DEF Without, Restrict
  <1>4. old # None /\ old # target /\ p \in Ids
    BY <1>1, ExportFacts DEF ExportOK
  <1>5. old \in Touches(thread[t])
    BY <1>4 DEF Touches
  <1>6. \A f : f # old => OnDisk(f)' = OnDisk(f) /\ (OnDisk(f) => file'[f] = file[f])
    BY <1>3 DEF OnDisk
  <1>7. ASSUME Own(p)
        PROVE  target \in DOMAIN file' /\ file'[target].by = p /\ file'[target].tracks = row.tracks
    BY <1>1, <1>3, <1>4, <1>7 DEF DInv, Written, ExportOf, OnDisk
  <1>8. ASSUME Own(p), NEW f \in DOMAIN file', f[1] \notin Mirrored, file'[f].by = p
        PROVE  f = target
    <2>1. f \in DOMAIN file /\ file[f].by = p /\ f # old
      BY <1>3, <1>8
    <2> QED
      BY <1>1, <1>8, <2>1, FilesKnown
  <1>9. Own(p) => /\ target \in DOMAIN file' /\ file'[target].by = p
                  /\ file'[target].tracks = row.tracks
                  /\ "unlinked" = "unlinked" => \A f \in DOMAIN file' :
                         f[1] \notin Mirrored /\ file'[f].by = p => f = target
    BY <1>7, <1>8
  <1>10. OnDisk(old)' => old = target /\ file'[old].by = p
    BY <1>3 DEF OnDisk
  <1>11. Writes(t, "unlinked", p, row, target, old)
    BY <1>1, <1>2, <1>5, <1>6, <1>9, <1>10 DEF Writes
  <1> QED
    BY <1>11, WriteSound

(* An export that ends has recorded its place: its row claims it now.       *)
LEMMA PlaceSound ==
    ASSUME HInv, PInv, DInv, NEW t \in Exports, thread[t].pc = "unlinked",
           thread[t].row.source = None, Live(thread[t].id),
           Record(t),
           playlist' = [playlist EXCEPT ![thread[t].id].exported = thread[t].target],
           UNCHANGED <<config, unlinking, file, ghosts>>
    PROVE  DInv'
  <1> PICK p : p = thread[t].id
    OBVIOUS
  <1> PICK row : row = thread[t].row
    OBVIOUS
  <1> PICK target : target = thread[t].target
    OBVIOUS
  <1> PICK new : new = [playlist[p] EXCEPT !.exported = target]
    OBVIOUS
  <1>1. ExportOf(t, p) /\ Exporting(t) /\ Placed(t) /\ p \in Ids /\ ExportOK(t)
    BY ExportFacts DEF ExportOf, Exporting, Placed
  <1>2. UNCHANGED <<disturbed, unread>>
    BY DEF ghosts
  <1>3. /\ target \in Paths /\ target # None /\ Ours(target) /\ target[1] \notin Mirrored
        /\ target \in Places(p, row) /\ playlist[p].source = None
    BY <1>1, TargetKind, PathFacts DEF ExportOK
  <1>4. target \in Touches(thread[t])
    BY DEF Touches
  <1>5. /\ new.source = None /\ new.exported = target /\ new.name = playlist[p].name
        /\ new.owner = playlist[p].owner /\ new.public = playlist[p].public
        /\ new.tracks = playlist[p].tracks
    <2>1. RowOK(playlist[p])
      BY DEF HInv, Live
    <2> QED
      BY <1>3, <2>1, PlaceRecorded
  <1>6. /\ DOMAIN playlist' = DOMAIN playlist /\ playlist'[p] = new
        /\ \A q \in DOMAIN playlist : q # p => playlist'[q] = playlist[q]
    BY DEF Live
  <1>7. /\ ~Exporting(t)' /\ \A u \in Exports : u # t => thread'[u] = thread[u]
    BY EndsAtRest, AtRest DEF PInv, Exporting
  <1>8. ASSUME NEW u \in Exports, Exporting(u)'
        PROVE  u # t /\ Exporting(u) /\ thread'[u] = thread[u]
    BY <1>7, <1>8 DEF Exporting
  <1>9. \A q : Own(q)' = Own(q) /\ Live(q)' = Live(q)
    BY <1>2, <1>3, <1>5, <1>6 DEF Own, Live
  <1>10. ASSUME NEW q, Own(q), NEW x, Claims(q, x)' PROVE Claims(q, x)
    <2>1. CASE x = playlist'[q].exported
      <3>1. CASE q = p
        <4>1. x = target
          BY <1>5, <1>6, <2>1, <3>1
        <4>2. Claims(p, target)
          BY <1>1, <1>3 DEF Claims
        <4> QED
          BY <3>1, <4>1, <4>2
      <3>2. CASE q # p
        BY <1>6, <1>10, <2>1, <3>2 DEF Claims, Own, Live
      <3> QED
        BY <3>1, <3>2
    <2>2. ASSUME NEW u \in Exports, ExportOf(u, q)', Placed(u)', x = thread'[u].target
          PROVE  Claims(q, x)
      BY <1>8, <1>10, <2>2 DEF Claims, ExportOf, Placed
    <2> QED
      BY <1>10, <2>1, <2>2 DEF Claims
  <1>11. Apart'
    <2> SUFFICES ASSUME NEW q \in Ids, Own(q), NEW y, Claims(q, y)'
                 PROVE  /\ \A r \in DOMAIN playlist \ {q} : playlist'[r].exported # y
                        /\ \A u \in Exports : Exporting(u)' /\ thread'[u].id # q
                                                => y \notin Touches(thread'[u])
                        /\ \A d \in unlinking : d.path # y
      BY <1>6, <1>9, ApartNext
    <2>1. /\ \A r \in DOMAIN playlist \ {q} : playlist[r].exported # y
          /\ \A u \in Exports : Exporting(u) /\ thread[u].id # q => y \notin Touches(thread[u])
          /\ \A d \in unlinking : d.path # y
      BY <1>10 DEF DInv, Apart
    <2>2. p # q => y # target
      BY <1>1, <1>4, <2>1
    <2> QED
      BY <1>5, <1>6, <1>8, <2>1, <2>2
  <1>12. ASSUME NEW u \in Exports, NEW q \in Ids, ExportOf(u, q)', q \notin disturbed
         PROVE  u # t /\ q # p /\ ExportOf(u, q) /\ thread'[u] = thread[u]
    <2>1. u # t /\ ExportOf(u, q) /\ thread'[u] = thread[u]
      BY <1>8, <1>12 DEF ExportOf
    <2> QED
      BY <1>1, <1>12, <2>1 DEF DInv, Lone
  <1>13. Lone'
    BY <1>2, <1>6, <1>9, <1>12 DEF DInv, Lone, Live
  <1>14. Written'
    <2>1. \A q \in Ids : Own(q) => q \notin disturbed
      BY DEF Own
    <2> QED
      BY <1>9, <1>12, <2>1 DEF DInv, Written, OnDisk
  <1>15. Fresh'
    <2> SUFFICES ASSUME NEW q \in Ids \ unread, "own" \in config.dirs, Own(q)
                 PROVE  /\ \A u \in Exports : ExportOf(u, q)' => Matches(u, q)'
                        /\ (\A u \in Exports : ~ExportOf(u, q)') => Settled(q)'
      BY <1>2, <1>9 DEF Fresh
    <2>1. /\ \A u \in Exports : ExportOf(u, q) => Matches(u, q)
          /\ (\A u \in Exports : ~ExportOf(u, q)) => Settled(q)
      BY DEF DInv, Fresh
    <2>2. q \notin disturbed
      BY DEF Own
    <2>3. CASE q = p
      <3>1. \A u \in Exports : ~ExportOf(u, p)'
        BY <1>12, <2>2, <2>3
      <3>2. Matches(t, p)
        BY <1>1, <2>1, <2>3
      <3>3. /\ row.name = new.name /\ Folder(row) = Folder(new) /\ row.tracks = new.tracks
        BY <1>5, <3>2 DEF Matches, Folder
      <3>4. target \in Places(p, new)
        BY <1>3, <3>3 DEF Places
      <3>5. /\ OnDisk(target) /\ file[target].by = p /\ file[target].tracks = row.tracks
        BY <1>1, <2>3 DEF DInv, Written
      <3>6. /\ new.exported \in Places(p, new) /\ new.exported \in DOMAIN file'
            /\ file'[new.exported].by = p /\ file'[new.exported].tracks = new.tracks
        BY <1>5, <3>3, <3>4, <3>5 DEF OnDisk
      <3>7. Settled(p)'
        BY <1>6, <3>6 DEF Settled, OnDisk, Places, Folder
      <3> QED
        BY <2>3, <3>1, <3>7
    <2>4. CASE q # p
      <3>1. playlist'[q] = playlist[q]
        BY <1>6, <2>4 DEF Own, Live
      <3>2. \A u \in Exports : ExportOf(u, q)' = ExportOf(u, q)
        BY <1>1, <1>7, <1>8, <2>4 DEF ExportOf, Exporting
      <3>3. ASSUME NEW u \in Exports, ExportOf(u, q)' PROVE Matches(u, q)'
        BY <1>12, <2>1, <2>2, <3>1, <3>3 DEF Matches, Folder
      <3>4. Settled(q) => Settled(q)'
        BY <3>1 DEF Settled, OnDisk, Places, Folder
      <3> QED
        BY <2>1, <3>2, <3>3, <3>4
    <2> QED
      BY <2>3, <2>4
  <1>16. FilesOwned'
    <2> SUFFICES ASSUME NEW f \in DOMAIN file, NEW q \in Ids \ disturbed, f[1] \notin Mirrored,
                        file[f].by = q
                 PROVE  \/ Live(q) /\ playlist'[q].exported = f
                        \/ \E u \in Exports : /\ ExportOf(u, q)'
                                              /\ thread'[u].pc \in {"replaced", "unlinked"}
                                              /\ thread'[u].target = f
                        \/ \E d \in unlinking : d.id = q /\ d.path = f
      BY <1>2, <1>9 DEF FilesOwned
    <2>1. CASE q = p
      <3>1. Own(p)
        BY <1>3, <2>1 DEF Own
      <3>2. f = target
        BY <1>1, <2>1, <3>1 DEF DInv, Written
      <3> QED
        BY <1>5, <1>6, <2>1, <3>1, <3>2 DEF Own
    <2>2. CASE q # p
      <3>1. \/ Live(q) /\ playlist[q].exported = f
            \/ \E u \in Exports : /\ ExportOf(u, q) /\ thread[u].pc \in {"replaced", "unlinked"}
                                  /\ thread[u].target = f
            \/ \E d \in unlinking : d.id = q /\ d.path = f
        BY DEF DInv, FilesOwned
      <3>2. ASSUME NEW u \in Exports, ExportOf(u, q) PROVE ExportOf(u, q)' /\ thread'[u] = thread[u]
        BY <1>1, <1>7, <2>2, <3>2 DEF ExportOf, Exporting
      <3> QED
        BY <1>6, <2>2, <3>1, <3>2 DEF Live
    <2> QED
      BY <2>1, <2>2
  <1> QED
    BY <1>11, <1>13, <1>14, <1>15, <1>16 DEF DInv

LEMMA RecordSound ==
    ASSUME HInv, HInv', PInv, PInv', DInv, NEW t \in Exports, Record(t)
    PROVE  DInv'
  <1> PICK p : p = thread[t].id
    OBVIOUS
  <1> PICK row : row = thread[t].row
    OBVIOUS
  <1> PICK target : target = thread[t].target
    OBVIOUS
  <1>1. thread[t].pc = "unlinked" /\ ExportOf(t, p) /\ p \in Ids /\ ExportOK(t)
    BY ExportFacts DEF Record, ExportOf, Exporting
  <1>2. UNCHANGED <<config, unlinking, file, ghosts>>
    BY DEF Record
  <1>3. CASE row.source = None /\ Live(p)
    <2>1. playlist' = [playlist EXCEPT ![p].exported = target]
      BY <1>3 DEF Record
    <2> QED
      BY <1>1, <1>2, <1>3, <2>1, PlaceSound
  <1>4. CASE row.source # None \/ ~Live(p)
    <2>1. /\ ~Exporting(t)' /\ \A u \in Exports : u # t => thread'[u] = thread[u]
      BY EndsAtRest, AtRest DEF PInv, Exporting
    <2>2. \A u \in Exports : Exporting(u)' => Exporting(u) /\ thread'[u] = thread[u]
      BY <2>1 DEF Exporting
    <2>3. p \in disturbed' \/ row.source # None
      BY <1>1, <1>2, <1>4 DEF DInv, Lone, ghosts
    <2>4. ASSUME NEW u \in Exports, Exporting(u), ~Exporting(u)'
          PROVE  thread[u].id \in disturbed' \/ thread[u].row.source # None
      <3>1. u = t
        BY <2>1, <2>4 DEF Exporting
      <3> QED
        BY <2>3, <3>1
    <2>5. /\ DOMAIN playlist' = DOMAIN playlist
          /\ \A q \in DOMAIN playlist :
                \/ playlist'[q] = playlist[q]
                \/ playlist[q].source # None /\ playlist'[q].source # None
      <3>1. \/ playlist' = playlist
            \/ /\ Live(p) /\ row.source # None
               /\ playlist' = [playlist EXCEPT ![p] =
                      [@ EXCEPT !.source = target, !.mtime = file[target].mtime]]
        BY <1>4 DEF Record
      <3>2. ASSUME Live(p), row.source # None,
                   playlist' = [playlist EXCEPT ![p] =
                      [@ EXCEPT !.source = target, !.mtime = file[target].mtime]]
            PROVE  playlist[p].source # None /\ playlist'[p].source # None
        <4>1. playlist[p].source # None /\ RowOK(playlist[p])
          BY <1>1, <3>2 DEF ExportOK, HInv, Live
        <4>2. target \in MirrorPaths
          BY <1>1, <3>2, TargetKind DEF Placed
        <4>3. target \in Paths \cup {None} /\ target # None /\ target[1] \in Mirrored
          BY <4>2, PathFacts
        <4>4. playlist'[p].source = target
          <5>1. playlist[p] \in Row
            BY <4>1 DEF RowOK
          <5> QED
            BY <3>2, <5>1 DEF Live, Row
        <4> QED
          BY <4>1, <4>3, <4>4
      <3> QED
        BY <3>1, <3>2
    <2>6. Aside
      BY <1>2, <2>2, <2>4, <2>5 DEF Aside, Live, OnDisk, ghosts
    <2> QED
      BY <2>6, AsideKeeps
  <1> QED
    BY <1>3, <1>4

(* Steps that leave rows, files and exports as they are ...                 *)
LEMMA SteadySound ==
    ASSUME HInv, HInv', PInv, PInv', DInv,
           UNCHANGED <<config, playlist, unlinking, file, disturbed, unread>>,
           \A t \in Exports : \/ thread'[t] = thread[t]
                              \/ ~Exporting(t) /\ ~Exporting(t)'
    PROVE  DInv'
  <1>1. \A t \in Exports : /\ Exporting(t)' = Exporting(t)
                           /\ Exporting(t) => thread'[t] = thread[t]
    BY DEF Exporting
  <1>2. Aside
    BY <1>1 DEF Aside, Live, OnDisk, Own
  <1> QED
    BY <1>2, AsideKeeps

LEMMA StartSound ==
    ASSUME HInv, HInv', PInv, PInv', DInv,
           \/ \E t \in Exports : Pop(t) \/ \E p \in Ids : Fire(t, p)
           \/ \E p \in flushing : FlushNext(p)
    PROVE  DInv'
  <1>1. UNCHANGED <<config, playlist, unlinking, file, disturbed, unread>>
    BY DEF Pop, Fire, FlushNext, rows, ghosts
  <1>2. PICK t \in Exports : \E x :
           /\ thread' = [thread EXCEPT ![t] = x] /\ ~Exporting(t)
           /\ x.pc \in {"fired", "popped"}
    <2>1. ASSUME NEW t \in Exports, Pop(t)
          PROVE  \E x : /\ thread' = [thread EXCEPT ![t] = x] /\ ~Exporting(t)
                        /\ x.pc \in {"fired", "popped"}
      <3> DEFINE x == [pc |-> "popped", id |-> thread[t].id]
      <3>1. thread' = [thread EXCEPT ![t] = x] /\ ~Exporting(t)
        BY <2>1 DEF Pop, Exporting
      <3>2. x.pc = "popped"
        OBVIOUS
      <3> HIDE DEF x
      <3> QED
        BY <3>1, <3>2
    <2>2. ASSUME NEW t \in Exports, NEW p, thread[t] = Idle,
                 thread' = [thread EXCEPT ![t] = [pc |-> "fired", id |-> p]]
          PROVE  \E x : /\ thread' = [thread EXCEPT ![t] = x] /\ ~Exporting(t)
                        /\ x.pc \in {"fired", "popped"}
      <3> DEFINE x == [pc |-> "fired", id |-> p]
      <3>1. thread' = [thread EXCEPT ![t] = x] /\ ~Exporting(t)
        BY <2>2 DEF Exporting, Idle
      <3>2. x.pc = "fired"
        OBVIOUS
      <3> HIDE DEF x
      <3> QED
        BY <3>1, <3>2
    <2>3. Main \in Exports
      BY DEF Exports
    <2> QED
      BY <2>1, <2>2, <2>3 DEF Fire, FlushNext
  <1> PICK x : /\ thread' = [thread EXCEPT ![t] = x] /\ ~Exporting(t)
               /\ x.pc \in {"fired", "popped"}
    BY <1>2
  <1>3. thread'[t] = x /\ \A u \in Exports : u # t => thread'[u] = thread[u]
    BY ReplaceThread DEF PInv
  <1>4. ~Exporting(t)'
    BY <1>3 DEF Exporting
  <1> QED
    BY <1>1, <1>3, <1>4, SteadySound

(* ... or cut exports and deletions off, whose playlists are then disturbed.*)
LEMMA FailsSound ==
    ASSUME HInv, HInv', PInv, PInv', DInv, NEW t \in Exports, Fails(t)
    PROVE  DInv'
  <1>1. UNCHANGED <<config, playlist, unlinking, file, unread>>
        /\ disturbed' = disturbed \cup {thread[t].id}
    BY DEF Fails, rows
  <1>2. ~Exporting(t)' /\ \A u \in Exports : u # t => thread'[u] = thread[u]
    BY EndsAtRest, AtRest DEF PInv, Exporting
  <1>3. \A u \in Exports : u # t => Exporting(u)' = Exporting(u)
    BY <1>2 DEF Exporting
  <1>4. Aside
    BY <1>1, <1>2, <1>3 DEF Aside, Live, OnDisk, Own
  <1> QED
    BY <1>4, AsideKeeps

LEMMA RestartedSound ==
    ASSUME HInv, HInv', PInv, PInv', DInv, Restarted
    PROVE  DInv'
  <1>1. UNCHANGED <<config, playlist, file>> /\ unlinking' = {} /\ unread \subseteq disturbed'
        /\ disturbed \subseteq disturbed'
    BY DEF Restarted, rows
  <1>2. \A d \in unlinking : d.id \in disturbed'
    BY DEF Restarted
  <1>3. \A t \in Exports : ~Exporting(t)' /\ (Exporting(t) => thread[t].id \in disturbed')
    BY DEF Restarted, Exporting, Idle
  <1>4. Aside
    BY <1>1, <1>2, <1>3 DEF Aside, Live, OnDisk, Own
  <1> QED
    BY <1>4, AsideKeeps

(* Passes and other programs keep to mirrored rows and directories.         *)
LEMMA StoreSound ==
    ASSUME HInv, HInv', PInv, PInv', DInv, SyncStore
    PROVE  DInv'
  <1> PICK known, f, parsed : known = sync.known /\ f = sync.path /\ parsed = sync.parsed
    OBVIOUS
  <1> PICK name \in FreeName(f[2]) : Store(name)
    BY DEF SyncStore
  <1>1. KnownOK(known) /\ f \in MirrorPaths
    BY DEF SyncStore, HInv, SyncOK, PassOK, Asleep
  <1>2. f # None
    BY <1>1, PathFacts
  <1> DEFINE ids == {k.id : k \in {m \in known : m.source = f}}
  <1> PICK new : new = [name |-> name, owner |-> NoUser, public |-> TRUE, exported |-> None,
                tracks |-> parsed.tracks, source |-> f, mtime |-> parsed.mtime,
                readonly |-> f[1] = "smart"]
    OBVIOUS
  <1>3. UNCHANGED <<config, thread, unlinking, file, disturbed, unread>>
    BY DEF Store, ghosts
  <1>4. /\ \A p \in DOMAIN playlist :
              /\ p \in DOMAIN playlist'
              /\ \/ playlist'[p] = playlist[p]
                 \/ playlist[p].source # None /\ playlist'[p].source # None
        /\ \A p \in DOMAIN playlist' : playlist'[p].source = None => p \in DOMAIN playlist
    <2>1. CASE ids # {}
      <3>1. playlist' = [p \in DOMAIN playlist |->
                  IF p \notin ids THEN playlist[p] ELSE Stored(playlist[p], f, parsed)]
        BY <2>1 DEF Store, Stored
      <3>2. ASSUME NEW p \in DOMAIN playlist, p \in ids
            PROVE  playlist[p].source # None /\ Stored(playlist[p], f, parsed).source # None
        <4>1. playlist[p] \in Row /\ playlist[p].source # None
          BY <1>1, <3>2 DEF HInv, KnownOK, Live, RowOK
        <4> QED
          BY <4>1 DEF Stored, Row
      <3>3. DOMAIN playlist' = DOMAIN playlist
        BY <3>1
      <3>4. \A p \in DOMAIN playlist :
               playlist'[p] = IF p \notin ids THEN playlist[p] ELSE Stored(playlist[p], f, parsed)
        BY <3>1
      <3> HIDE DEF ids
      <3> QED
        BY <3>2, <3>3, <3>4
    <2>2. CASE playlist' = With(playlist, created + 1, new)
      <3>1. created + 1 \notin DOMAIN playlist
        BY CreatedFacts
      <3>2. DOMAIN playlist' = DOMAIN playlist \cup {created + 1}
            /\ playlist'[created + 1] = new
            /\ \A p \in DOMAIN playlist : playlist'[p] = playlist[p]
        BY <2>2, <3>1 DEF With
      <3>3. new.source = f
        OBVIOUS
      <3> QED
        BY <1>2, <3>2, <3>3
    <2>3. CASE UNCHANGED rows
      BY <2>3 DEF rows
    <2> QED
      BY <2>1, <2>2, <2>3 DEF Store
  <1>5. \A t \in Exports : Exporting(t)' = Exporting(t) /\ thread'[t] = thread[t]
    BY <1>3 DEF Exporting
  <1>6. Aside
    BY <1>3, <1>4, <1>5 DEF Aside, Live, OnDisk
  <1> QED
    BY <1>6, AsideKeeps

LEMMA SyncSound ==
    ASSUME HInv, HInv', PInv, PInv', DInv, Sync
    PROVE  DInv'
  <1>1. CASE SyncList \/ SyncRead
    BY <1>1, SteadySound DEF SyncList, SyncRead, rows, ghosts
  <1>2. CASE SyncStore
    BY <1>2, StoreSound
  <1>3. ASSUME NEW k \in sync.gone, SyncDelete(k) PROVE DInv'
    <2>1. CASE Live(k.id)
      BY <1>3, <2>1, RowDeletedSound DEF SyncDelete
    <2>2. CASE ~Live(k.id)
      BY <1>3, <2>2, SteadySound DEF SyncDelete, rows, ghosts
    <2> QED
      BY <2>1, <2>2
  <1>4. ASSUME NEW f \in sync.todo, SyncLook(f) PROVE DInv'
    BY <1>4, SteadySound DEF SyncLook, rows, ghosts
  <1> QED
    BY <1>1, <1>2, <1>3, <1>4 DEF Sync

LEMMA ExternalSound ==
    ASSUME HInv, HInv', PInv, PInv', DInv, NEW f \in Dirs \X Names, External(f)
    PROVE  DInv'
  <1>1. UNCHANGED <<config, playlist, thread, unlinking, disturbed, unread>> /\ f[1] \in Mirrored
    BY DEF External, rows, ghosts
  <1>2. \A g : g # f => OnDisk(g)' = OnDisk(g) /\ (OnDisk(g) => file'[g] = file[g])
    <2>1. CASE \E e : file' = With(file, f, e)
      BY <2>1 DEF With, OnDisk
    <2>2. CASE file' = Without(file, f)
      BY <2>2 DEF Without, Restrict, OnDisk
    <2> QED
      BY <2>1, <2>2 DEF External
  <1>3. \A t \in Exports : Exporting(t)' = Exporting(t) /\ thread'[t] = thread[t]
    BY <1>1 DEF Exporting
  <1>4. Aside
    BY <1>1, <1>2, <1>3 DEF Aside, Live, Own
  <1> QED
    BY <1>4, AsideKeeps

-----------------------------------------------------------------------------
LEMMA InitDInv == Init => DInv
  <1> SUFFICES ASSUME Init PROVE DInv
    OBVIOUS
  <1>1. \A t \in Exports : ~Exporting(t)
    BY DEF Init, Exporting, Idle
  <1>2. \A p : ~Live(p)
    BY DEF Init, Live
  <1>3. \A f \in DOMAIN file : file[f].by = 0
    BY DEF Init
  <1>4. 0 \notin Ids
    BY InitPInv, CreatedFacts
  <1> QED
    BY <1>1, <1>2, <1>3, <1>4 DEF DInv, Apart, Lone, Written, Fresh, FilesOwned, Own, ExportOf

LEMMA NextDInv == HInv /\ PInv /\ DInv /\ [Next]_vars => DInv'
  <1> SUFFICES ASSUME HInv, PInv, DInv, [Next]_vars PROVE DInv'
    OBVIOUS
  <1>1. HInv' /\ PInv'
    BY NextHInv, NextPInv
  <1>2. CASE Requests
    <2>1. ASSUME NEW owner \in Users, NEW name \in Names, Create(owner, name) PROVE DInv'
      <3>1. 1 \in Ids
        BY BoundsAssumption DEF Ids
      <3> QED
        BY <2>1, <3>1, RequestsSound
    <2>2. ASSUME NEW p \in Ids,
                 \/ \E name \in Names, public \in BOOLEAN : Update(p, name, public)
                 \/ EditTracks(p)
          PROVE  DInv'
      BY <2>2, RequestsSound
    <2>3. ASSUME NEW p \in Ids, Delete(p) PROVE DInv'
      BY <2>3, RowDeletedSound DEF Delete, CanEdit
    <2> QED
      BY <1>2, <2>1, <2>2, <2>3 DEF Requests
  <1>3. CASE Finish
    <2>1. ASSUME NEW p \in Ids, Schedule(p) PROVE DInv'
      BY <1>1, <2>1, SteadySound DEF Schedule, rows, ghosts
    <2> QED
      BY <1>3, <2>1, UnlinkSound DEF Finish
  <1>4. CASE Sync
    BY <1>1, <1>4, SyncSound
  <1>5. ASSUME NEW t \in Exports, Export(t) \/ Fails(t) PROVE DInv'
    BY <1>1, <1>5, StartSound, ReadRowSound, ReadTracksSound, ChooseSound, ReplaceSound,
       UnlinkOldSound, RecordSound, FailsSound DEF Export
  <1>6. ASSUME NEW f \in Dirs \X Names, External(f) PROVE DInv'
    BY <1>1, <1>6, ExternalSound
  <1>7. CASE Exit
    BY <1>1, <1>7, SteadySound DEF Exit, rows, ghosts
  <1>8. CASE Stopping
    BY <1>1, <1>8, StartSound, RestartedSound DEF Stopping, Ended
  <1>9. CASE Crash
    BY <1>1, <1>9, RestartedSound DEF Crash
  <1>10. CASE UNCHANGED vars
    BY <1>1, <1>10, SteadySound DEF vars, rows, ghosts
  <1> QED
    BY <1>2, <1>3, <1>4, <1>5, <1>6, <1>7, <1>8, <1>9, <1>10 DEF Next

LEMMA HoldsDInv == Spec => [](PInv /\ HInv /\ DInv)
  <1>1. HInv /\ PInv /\ DInv /\ [Next]_vars => DInv'
    BY NextDInv
  <1> QED
    BY InitDInv, HoldsHInv, <1>1, PTL DEF Spec

LEMMA SoundTypes == PInv /\ HInv => TypeOK
  <1> SUFFICES ASSUME PInv, HInv PROVE TypeOK
    OBVIOUS
  <1>1. DOMAIN playlist \subseteq 1..created /\ created \in 0..MaxIds
    BY DEF PInv, IdsOnce
  <1>2. Range(playlist) \subseteq Row
    BY DEF HInv, RowOK, Range
  <1>3. /\ unscheduled \subseteq Ids /\ flushing \subseteq Ids /\ exiting \in BOOLEAN
        /\ entry \in [Ids -> {"none", "waits", "over"}] /\ loose \in [Ids -> Nat]
    BY DEF PInv, TimerShape
  <1>4. \A t \in Exports : Exporting(t) => thread[t].id \in Ids /\ thread[t].row \in Row
    BY ExportFacts
  <1>5. \A d \in unlinking : d.id \in Ids /\ d.path \in Paths \cup {None}
    BY CreatedFacts DEF PInv, IdsOnce, HInv, UnlinkOK
  <1>6. sync.pc \in {"asleep", "listed", "read", "parsed"}
    BY DEF HInv, SyncOK, Asleep
  <1>7. DOMAIN file \subseteq Paths /\ Range(file) \subseteq File
    BY DEF HInv, DiskOK, Range
  <1>8. nr \in Contents /\ clock \in Mtimes /\ unread \subseteq Ids /\ disturbed \subseteq Ids
    BY CreatedFacts DEF HInv, PInv, IdsOnce
  <1> QED
    BY <1>1, <1>2, <1>3, <1>4, <1>5, <1>6, <1>7, <1>8 DEF TypeOK

LEMMA SettledMatches == PInv /\ HInv /\ DInv => DirectoryMatches
  <1> SUFFICES ASSUME PInv, HInv, DInv, Quiet, "own" \in config.dirs PROVE DirectoryMatches
    BY DEF DirectoryMatches
  <1>1. \A t \in Exports : ~Exporting(t) /\ thread[t].pc = "idle"
    BY DEF Quiet, Exporting, Idle
  <1>2. unlinking = {} /\ unscheduled = {} /\ flushing = {}
    BY DEF Quiet, PInv, TimerShape
  <1>3. ASSUME NEW p \in DOMAIN playlist \ disturbed, playlist[p].source = None
        PROVE  Settled(p)
    <2>1. p \in Ids /\ Own(p)
      BY <1>3, CreatedFacts DEF Own, Live
    <2>2. p \notin unread
      BY <1>1, <1>2, <2>1 DEF PInv, EditsHeld, Quiet, Own
    <2> QED
      BY <1>1, <2>1, <2>2 DEF DInv, Fresh, ExportOf
  <1>4. ASSUME NEW f \in DOMAIN file, f[1] \notin Mirrored
        PROVE  \/ file[f].by \in disturbed \cup {0}
               \/ Live(file[f].by) /\ playlist[file[f].by].exported = f
    <2>1. file[f].by \in Ids \cup {0}
      BY DEF HInv, DiskOK, File
    <2> QED
      BY <1>1, <1>2, <1>4, <2>1 DEF DInv, FilesOwned, ExportOf
  <1> QED
    BY <1>3, <1>4 DEF DirectoryMatches, Settled, Places

(* Every part of the state has its type, and when everything has settled    *)
(* the playlist directory holds the playlists, unless their exports were    *)
(* disturbed: for any number of playlists, users and exports at once.       *)
THEOREM PlaylistsStaySound == Spec => []PlaylistsSound
  <1>1. PInv /\ HInv /\ DInv => PlaylistsSound
    BY SoundTypes, SettledMatches DEF PlaylistsSound
  <1> QED
    BY <1>1, HoldsDInv, PTL

=============================================================================
