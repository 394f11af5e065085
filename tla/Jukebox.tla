------------------------------- MODULE Jukebox -------------------------------
(***************************************************************************)
(* The jukebox (core/services/jukebox/): a player whose queue is kept      *)
(* twice, in `_queue` and in the playlist of an mpv process, which may die *)
(* at any moment and is started again, empty, by the next command.  An     *)
(* operation holds the player's lock and consists of commands to mpv and   *)
(* changes of `_queue`; `todo` is what is left of it.  The manager         *)
(* replaces the player when the setting names another backend.             *)
(***************************************************************************)
EXTENDS Integers, FiniteSets, SequencesExt

CONSTANTS
    Clients,       \* request threads
    Tracks,
    MaxPlayers,     \* bound: players alive at once
    Limits          \* the bounds a behaviour may have: the threads that are
                    \* used, the operations they ask for besides the status,
                    \* and how many of these, of dying mpv processes and of
                    \* changes of the setting there are

VARIABLES
    allowed,
    setting,    \* jukebox_backend
    current,    \* JukeboxManager._player, 0 for None
    kind,       \* the backend a player object is for
    songs,      \* _queue of each player
    mpv,        \* the mpv process of each player and its playlist
    thread,     \* the requests
    edits, deaths, switches,
    torn,       \* players with an operation that mpv's death or an error cut in two
    late        \* players replaced while a request had them but not their lock

counts == <<edits, deaths, switches>>
jukeboxGhosts == <<torn, late>>
jukeboxVars   == <<allowed, setting, current, kind, songs, mpv, thread, counts, jukeboxGhosts>>

Players  == 1..MaxPlayers
Backends == {"server_hardware", "sonos"}

AtRest == [pc |-> "idle"]
Down == [up |-> FALSE, list |-> << >>]

Lists == {<< >>} \cup {<<t>> : t \in Tracks} \cup {<<t, u>> : t, u \in Tracks}
Ops   == [name : {"set", "add"}, entries : Lists]
             \cup [name : {"remove", "skip"}, index : 0..1]
             \cup [name : {"clear", "shuffle", "start", "stop", "setGain"}]
Status == [name |-> "status"]

ASSUME PlayersAssumption == IsFiniteSet(Clients) /\ MaxPlayers \in Nat \ {0}
ASSUME LimitsAssumption == Limits \subseteq
    [clients : SUBSET Clients, ops : SUBSET Ops, edits : Nat, deaths : Nat, switches : Nat]

JukeboxTypeOK ==
    /\ setting \in Backends /\ current \in {0} \cup Players
    /\ kind \in [Players -> Backends]
    /\ \A p \in Players : /\ songs[p] \in Seq(Tracks)
                          /\ mpv[p].up \in BOOLEAN /\ mpv[p].list \in Seq(Tracks)
    /\ \A r \in Clients :
          /\ thread[r].pc \in {"idle", "asked", "return", "has", "runs"}
          /\ thread[r].pc \in {"has", "runs"} => thread[r].player \in Players
    /\ torn \subseteq Players /\ late \subseteq Players

JukeboxInit ==
    /\ allowed \in Limits /\ setting \in Backends /\ current = 0
    /\ kind = [p \in Players |-> "server_hardware"]
    /\ songs = [p \in Players |-> << >>] /\ mpv = [p \in Players |-> Down]
    /\ thread = [r \in Clients |-> AtRest]
    /\ edits = 0 /\ deaths = 0 /\ switches = 0
    /\ torn = {} /\ late = {}

-----------------------------------------------------------------------------
(* The manager.  player() reads the setting ...                             *)
Ask(r, op) ==
    /\ thread[r] = AtRest
    /\ r \in allowed.clients /\ op \in allowed.ops \cup {Status}
    /\ IF op = Status THEN UNCHANGED edits
       ELSE edits < allowed.edits /\ edits' = edits + 1
    /\ thread' = [thread EXCEPT ![r] = [pc |-> "asked", op |-> op, backend |-> setting]]
    /\ UNCHANGED <<allowed, setting, current, kind, songs, mpv, deaths, switches, jukeboxGhosts>>

Differs(backend) == current # 0 => kind[current] # backend

Locked(p) == \E r \in Clients : thread[r].pc = "runs" /\ thread[r].player = p
HasIt(p)  == \E r \in Clients : thread[r].pc = "has" /\ thread[r].player = p

(* ... and returns the player if it is for that backend, ...                *)
Keep(r) ==
    /\ thread[r].pc = "asked" /\ ~Differs(thread[r].backend)
    /\ thread' = [thread EXCEPT ![r] = [pc |-> "return", op |-> thread[r].op]]
    /\ UNCHANGED <<allowed, setting, current, kind, songs, mpv, counts, jukeboxGhosts>>

(* Mutant of Terminated: the process of a player is left alone.             *)
TerminatedNot(process) == process

Terminated(process) == Down

(* ... and otherwise shuts it down, which waits for its lock, for a new one *)
(* (the object of one that is not in use any more stands for it).           *)
Swap(r) ==
    /\ thread[r].pc = "asked" /\ Differs(thread[r].backend)
    /\ ~Locked(current)
    /\ \E new \in Players \ {current} :
          /\ ~Locked(new) /\ ~HasIt(new) /\ ~mpv[new].up
          /\ \A p \in 1..new - 1 : p = current \/ Locked(p) \/ HasIt(p) \/ mpv[p].up
          /\ current' = new /\ kind' = [kind EXCEPT ![new] = thread[r].backend]
          /\ mpv' = [p \in Players |-> IF p = current THEN Terminated(mpv[p])
                                       ELSE IF p = new THEN Down ELSE mpv[p]]
          /\ songs' = [p \in Players |-> IF p \in {current, new} THEN << >> ELSE songs[p]]
          /\ torn' = torn \ {current, new}
          /\ late' = (late \ {new}) \cup
                        (IF HasIt(current) THEN {current} ELSE {})
    /\ thread' = [thread EXCEPT ![r] = [pc |-> "return", op |-> thread[r].op]]
    /\ UNCHANGED <<allowed, setting, counts>>

Return(r) ==
    /\ thread[r].pc = "return"
    /\ thread' = [thread EXCEPT ![r] = [pc |-> "has", op |-> thread[r].op, player |-> current]]
    /\ UNCHANGED <<allowed, setting, current, kind, songs, mpv, counts, jukeboxGhosts>>

-----------------------------------------------------------------------------
(* Operations.  `Ready` is _ensure_ready(), `Append` ... `Get` are commands  *)
(* to mpv, the others change `_queue`.                                       *)
Do(what)       == [do |-> what]
At(what, i)    == [do |-> what, index |-> i]
Load(what, ts) == [do |-> what, entries |-> ts]

Appends(ts)  == [i \in DOMAIN ts |-> Load("append", <<ts[i]>>)]
ClearMpv     == <<Do("mpvStop"), Do("mpvClear")>>
PlayFrom(i)  == <<At("position", i), Do("unpause")>>

\* What _ensure_ready() leaves in `_queue` when it has started a process.
AfterStart(q) == << >>

Program(op, p) ==
    LET known == mpv[p].up
        inRange == op.index < Len(songs[p])
    IN  CASE op.name = "set" ->
               <<Do("ready")>> \o ClearMpv \o Appends(op.entries)
                   \o <<Load("assign", op.entries)>>
                   \o (IF op.entries = << >> THEN << >> ELSE PlayFrom(0))
          [] op.name = "add" ->
               <<Do("ready")>> \o Appends(op.entries) \o <<Load("extend", op.entries)>>
          [] op.name = "clear" ->
               (IF known THEN ClearMpv ELSE << >>) \o <<Load("assign", << >>)>>
          [] op.name = "remove" ->
               IF inRange THEN <<Do("ready"), At("mpvRemove", op.index), At("delete", op.index)>>
               ELSE << >>
          [] op.name = "shuffle" ->
               IF songs[p] = << >> THEN << >>
               ELSE <<Do("ready"), Do("isPlaying"), Do("shuffle")>> \o ClearMpv
                        \o <<Do("appendAll")>>
          [] op.name = "start" ->
               IF songs[p] = << >> THEN << >> ELSE <<Do("ready"), Do("unpause")>>
          [] op.name = "stop" -> IF known THEN <<Do("pause")>> ELSE << >>
          [] op.name = "skip" ->
               IF inRange THEN <<Do("ready")>> \o PlayFrom(op.index) ELSE << >>
          [] op.name = "setGain" -> <<Do("ready"), Do("volume")>>
          [] op.name = "status" ->
               IF ~known /\ songs[p] = << >> THEN << >> ELSE <<Do("get")>>

Local == {"assign", "extend", "delete", "shuffle", "appendAll"}
Edits == {"set", "add", "remove", "shuffle", "clear"}

Goes(r, todo, cut) ==
    thread' = [thread EXCEPT ![r].todo = todo, ![r].cut = @ \/ cut]

(* The lock is taken.  Players for other devices are not in this model.     *)
Begin(r) ==
    LET p == thread[r].player
        todo == IF kind[p] = "server_hardware" THEN Program(thread[r].op, p) ELSE << >>
    IN  /\ thread[r].pc = "has" /\ ~Locked(p)
        /\ thread' = [thread EXCEPT ![r] =
              [pc |-> "runs", op |-> thread[r].op, player |-> p, todo |-> todo, cut |-> FALSE]]
        /\ UNCHANGED <<allowed, setting, current, kind, songs, mpv, counts, jukeboxGhosts>>

(* Mutant of Handler: a command is tried again.                             *)
HandlerRetries(r) == thread[r].todo

(* What an exception leaves to do: clear() goes on, shuffle() takes mpv for *)
(* paused, the others are over.                                             *)
Handler(r) ==
    LET todo == thread[r].todo
    IN  IF thread[r].op.name = "clear" THEN <<Load("assign", << >>)>>
        ELSE IF Head(todo).do = "isPlaying" THEN Append(Tail(todo), Do("pause"))
        ELSE << >>

Runs(r)  == thread[r].pc = "runs" /\ thread[r].todo # << >>
First(r) == Head(thread[r].todo).do

(* _ensure_ready(), also at the start of every command, finds mpv dead and  *)
(* starts it; anything loaded or queued before is gone.                     *)
Start(r) ==
    LET p == thread[r].player
        todo == thread[r].todo
        between == First(r) = "ready" \/ thread[r].op.name \notin Edits
    IN  /\ Runs(r) /\ First(r) \notin Local /\ ~mpv[p].up
        /\ mpv' = [mpv EXCEPT ![p] = [up |-> TRUE, list |-> << >>]]
        /\ songs' = [songs EXCEPT ![p] = AfterStart(@)]
        /\ torn' = IF between THEN torn \ {p} ELSE torn
        /\ Goes(r, IF First(r) = "ready" THEN Tail(todo) ELSE todo, ~between)
        /\ UNCHANGED <<allowed, setting, current, kind, counts, late>>

(* ... or fails to: the exception ends the operation.                       *)
StartFails(r) ==
    /\ Runs(r) /\ First(r) \notin Local /\ ~mpv[thread[r].player].up
    /\ Goes(r, Handler(r), TRUE)
    /\ UNCHANGED <<allowed, setting, current, kind, songs, mpv, counts, jukeboxGhosts>>

IsReady(r) ==
    /\ Runs(r) /\ First(r) = "ready" /\ mpv[thread[r].player].up
    /\ Goes(r, Tail(thread[r].todo), FALSE)
    /\ UNCHANGED <<allowed, setting, current, kind, songs, mpv, counts, jukeboxGhosts>>

\* What mpv does: an index beyond its playlist is refused.
Accepts(command, list) ==
    command.do \in {"mpvRemove", "position"} => command.index < Len(list)

Listed(command, list) ==
    CASE command.do \in {"mpvStop", "mpvClear"} -> << >>
      [] command.do = "append"                  -> list \o command.entries
      [] command.do = "mpvRemove"               -> RemoveAt(list, command.index + 1)
      [] OTHER                                  -> list

(* _command().  After is_playing, shuffle() knows how it will end.          *)
Command(r) ==
    LET p == thread[r].player
        command == Head(thread[r].todo)
    IN  /\ Runs(r) /\ First(r) \notin Local \cup {"ready"} /\ mpv[p].up
        /\ IF Accepts(command, mpv[p].list)
           THEN /\ mpv' = [mpv EXCEPT ![p].list = Listed(command, mpv[p].list)]
                /\ IF First(r) # "isPlaying" THEN Goes(r, Tail(thread[r].todo), FALSE)
                   ELSE \E ending \in {PlayFrom(0), <<Do("pause")>>} :
                            Goes(r, Tail(thread[r].todo) \o ending, FALSE)
           ELSE UNCHANGED mpv /\ Goes(r, Handler(r), TRUE)
        /\ UNCHANGED <<allowed, setting, current, kind, songs, counts, jukeboxGhosts>>

(* The connection breaks while a command waits for its answer.              *)
Breaks(r) ==
    LET p == thread[r].player
    IN  /\ Runs(r) /\ First(r) \notin Local \cup {"ready"} /\ mpv[p].up
        /\ deaths < allowed.deaths /\ deaths' = deaths + 1
        /\ mpv' = [mpv EXCEPT ![p] = Down]
        /\ Goes(r, Handler(r), TRUE)
        /\ UNCHANGED <<allowed, setting, current, kind, songs, edits, switches, jukeboxGhosts>>

(* Changes of `_queue`.  shuffle() appends what the queue holds when its    *)
(* loop begins.  The entry to delete is there still: a queue that was       *)
(* emptied meanwhile comes with a playlist that has refused the index.      *)
Queue(r) ==
    LET p == thread[r].player
        step == Head(thread[r].todo)
        rest == Tail(thread[r].todo)
    IN  /\ Runs(r) /\ First(r) \in Local
        /\ \/ /\ step.do = "assign" /\ songs' = [songs EXCEPT ![p] = step.entries]
              /\ Goes(r, rest, FALSE)
           \/ /\ step.do = "extend" /\ songs' = [songs EXCEPT ![p] = @ \o step.entries]
              /\ Goes(r, rest, FALSE)
           \/ /\ step.do = "delete"
              /\ songs' = [songs EXCEPT ![p] = RemoveAt(@, step.index + 1)]
              /\ Goes(r, rest, FALSE)
           \/ /\ step.do = "shuffle"
              /\ \E order \in {f \in [DOMAIN songs[p] -> DOMAIN songs[p]] :
                                   Range(f) = DOMAIN songs[p]} :
                    songs' = [songs EXCEPT ![p] = [i \in DOMAIN @ |-> @[order[i]]]]
              /\ Goes(r, rest, FALSE)
           \/ /\ step.do = "appendAll" /\ UNCHANGED songs
              /\ Goes(r, Appends(songs[p]) \o rest, FALSE)
        /\ UNCHANGED <<allowed, setting, current, kind, mpv, counts, jukeboxGhosts>>

(* The lock is released.                                                    *)
End(r) ==
    LET p == thread[r].player
        name == thread[r].op.name
    IN  /\ thread[r].pc = "runs" /\ thread[r].todo = << >>
        /\ thread' = [thread EXCEPT ![r] = AtRest]
        /\ torn' = IF name \in Edits /\ thread[r].cut THEN torn \cup {p}
                   ELSE IF name \in {"set", "clear"} THEN torn \ {p}
                   ELSE torn
        /\ UNCHANGED <<allowed, setting, current, kind, songs, mpv, counts, late>>

Step(r) == \/ Keep(r) \/ Swap(r) \/ Return(r) \/ Start(r) \/ StartFails(r) \/ IsReady(r)
           \/ Command(r) \/ Queue(r) \/ End(r)

-----------------------------------------------------------------------------
Dies(p) ==
    /\ mpv[p].up /\ mpv' = [mpv EXCEPT ![p] = Down]
    /\ deaths < allowed.deaths /\ deaths' = deaths + 1
    /\ UNCHANGED <<allowed, setting, current, kind, songs, thread, edits, switches, jukeboxGhosts>>

Switch ==
    /\ switches < allowed.switches /\ switches' = switches + 1
    /\ setting' \in Backends \ {setting}
    /\ UNCHANGED <<allowed, current, kind, songs, mpv, thread, edits, deaths, jukeboxGhosts>>

JukeboxNext == \/ \E r \in Clients : \/ \E op \in Ops \cup {Status} : Ask(r, op)
                               \/ Begin(r) \/ Step(r) \/ Breaks(r)
        \/ \E p \in Players : Dies(p)
        \/ Switch

JukeboxSpec == JukeboxInit /\ [][JukeboxNext]_jukeboxVars

(* Threads run, the manager's and the player's lock are given to everyone   *)
(* who waits for them in the end, and clients ask for the status again and  *)
(* again.                                                                   *)
JukeboxFairness == \A r \in Clients :
    /\ WF_jukeboxVars(Step(r)) /\ SF_jukeboxVars(Swap(r) \/ Begin(r))
    /\ WF_jukeboxVars(Ask(r, Status))

JukeboxFairSpec == JukeboxSpec /\ JukeboxFairness

-----------------------------------------------------------------------------
(* Between operations, `_queue` is what mpv would play, whenever mpv dies:  *)
(* only an operation that was itself cut in two may leave them different,   *)
(* until the queue is set or cleared, or mpv starts again.                  *)
QueueInStep ==
    \A p \in Players \ torn :
        kind[p] = "server_hardware" /\ mpv[p].up /\ ~Locked(p) => songs[p] = mpv[p].list

(* A player that was replaced plays no more, unless a request had it        *)
(* already when it was replaced, which starts it again.                     *)
ReplacedAreSilent == \A p \in Players \ (late \cup {current}) : ~mpv[p].up

(* Both, and every part of the state has its type.                          *)
JukeboxSound == JukeboxTypeOK /\ QueueInStep /\ ReplacedAreSilent

(* Every request is answered: no lock is kept by an operation that failed.  *)
RequestsEnd ==
    \A r \in Clients : thread[r].pc # "idle" ~> thread[r].pc = "idle"

(* When nobody changes the setting any more, the player becomes and stays   *)
(* one for the backend it names, whatever older requests had read.          *)
SettingFollowed == <>[](current # 0 => kind[current] = setting)

(* What requests come to: both.                                             *)
JukeboxSettles == RequestsEnd /\ SettingFollowed
=============================================================================
