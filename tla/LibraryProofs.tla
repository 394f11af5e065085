---------------------------- MODULE LibraryProofs ----------------------------
(***************************************************************************)
(* What MCLibrary checks of downloads, of the history of imports, of       *)
(* lookups, of the health scan and of the images of artists, for every     *)
(* number of episodes, users, threads, workers, folders, tasks, songs, ids *)
(* and artists. The components share no state; each has its invariant and  *)
(* its theorem.                                                            *)
(***************************************************************************)
EXTENDS PodcastDownloads, ImportHistory, LibraryIndex, Health, ArtistImages,
        SubsequencesProofs

-----------------------------------------------------------------------------
(***************************************************************************)
(* Downloads of episodes. Each reservation has one owner (a relay, a       *)
(* worker or a place in the queue), and a '.part' that is about to be      *)
(* renamed was written whole.                                              *)
(***************************************************************************)

RelaySteps   == Fetching \cup {"relayMark", "connect", "giveUp", "commit", "reset", "free"}
OwningSteps  == RelaySteps \cup {"mark", "submit"}
EpisodeSteps == OwningSteps \cup
    {"look", "want", "reserve", "count", "readPath", "clear", "drop", "relayReserve"}

DataTypes ==
    /\ channel \in BOOLEAN
    /\ rows \in [Episodes -> Row]
    /\ wants \subseteq Users \X Episodes
    /\ part \in [Episodes -> Contents]
    /\ file \in [Episodes -> Contents]
    /\ reserved \subseteq Episodes
    /\ cancelled \subseteq events /\ events \subseteq reserved
    /\ jobs \in Seq(Episodes)
    /\ up \in BOOLEAN
    /\ crashes \in 0..MaxCrashes
    /\ asked \in 0..MaxAsked
    /\ leaked \subseteq reserved
    /\ released \subseteq Episodes

(* What a step needs to find in the thread that takes it.                   *)
Shaped(d) ==
    /\ d.pc \in EpisodeSteps => d.ep \in Episodes
    /\ d.pc = "want" => d.user \in Users

Acts == act \in [Actors -> Doing] /\ \A a \in Actors : Shaped(act[a])

(* The owners of reservations.  A relay has no cancel event.                *)
Owned ==
    /\ \A a \in Actors : act[a].pc \in OwningSteps => act[a].ep \in reserved \ leaked
    /\ \A a, b \in Actors :
          act[a].pc \in OwningSteps /\ act[b].pc \in OwningSteps /\ act[a].ep = act[b].ep => a = b
    /\ \A i \in 1..Len(jobs) : jobs[i] \in reserved \ leaked
    /\ \A i \in 1..Len(jobs), a \in Actors : act[a].pc \in OwningSteps => act[a].ep # jobs[i]
    /\ \A i, j \in 1..Len(jobs) : jobs[i] = jobs[j] => i = j
    /\ \A t \in Threads : act[t].pc \in RelaySteps => act[t].ep \notin events

(* A download that is about to rename its '.part' has written all of it,    *)
(* unless it has been removed.                                              *)
Parts ==
    /\ \A e \in Episodes : file[e] # "partial"
    /\ \A a \in Actors : act[a].pc = "replace" => part[act[a].ep] # "partial"

DInv == DataTypes /\ Acts /\ Owned /\ Parts

-----------------------------------------------------------------------------
OthersSame(a) ==
    \A b \in Actors \ {a} : act'[b].pc = act[b].pc /\ act'[b].ep = act[b].ep

LEMMA OneActs ==
    ASSUME Acts, NEW a \in Actors, NEW x \in Doing, Shaped(x), act' = [act EXCEPT ![a] = x]
    PROVE  Acts' /\ act'[a] = x /\ OthersSame(a)
BY DEF Acts, OthersSame, Shaped

(* The same, beside an Unspare().                                           *)
LEMMA OneActsUnsparing ==
    ASSUME Acts, NEW a \in Actors, NEW x \in Doing, Shaped(x), NEW gone,
           act' = [Unspare(act, gone) EXCEPT ![a] = x]
    PROVE  Acts' /\ act'[a] = x /\ OthersSame(a)
<1>1. ASSUME NEW b \in Actors
      PROVE  /\ Unspare(act, gone)[b] \in Doing
             /\ Unspare(act, gone)[b].pc = act[b].pc /\ Unspare(act, gone)[b].ep = act[b].ep
             /\ Unspare(act, gone)[b].user = act[b].user
  BY DEF Unspare, Acts, Doing
<1>2. /\ act' \in [Actors -> Doing] /\ act'[a] = x
      /\ \A b \in Actors \ {a} : act'[b] = Unspare(act, gone)[b]
  BY <1>1 DEF Unspare
<1> QED BY <1>1, <1>2 DEF Acts, OthersSame, Shaped

LEMMA RowIsSet ==
    ASSUME rows \in [Episodes -> Row], NEW e \in Episodes, NEW row \in Row, SetRow(e, row)
    PROVE  rows' \in [Episodes -> Row]
BY DEF SetRow

LEMMA StatusIsSet ==
    ASSUME rows \in [Episodes -> Row], NEW e \in Episodes, NEW s \in Statuses, SetStatus(e, s)
    PROVE  rows' \in [Episodes -> Row]
<1>1. [rows[e] EXCEPT !.status = s] \in Row
  BY DEF Row
<1> QED BY <1>1, RowIsSet DEF SetStatus

(* A step that neither takes nor gives up a reservation.                    *)
LEMMA OwnedStays ==
    ASSUME DInv, NEW a \in Actors, OthersSame(a), UNCHANGED <<memory, leaked>>,
           act'[a].pc \in OwningSteps => act[a].pc \in OwningSteps /\ act'[a].ep = act[a].ep,
           a \in Threads /\ act'[a].pc \in RelaySteps => act[a].pc \in RelaySteps
    PROVE  Owned'
<1> USE DEF DInv, Owned, OthersSame, memory
<1>1. \A b \in Actors : act'[b].pc \in OwningSteps
                          => act[b].pc \in OwningSteps /\ act'[b].ep = act[b].ep
  OBVIOUS
<1>2. \A t \in Threads : act'[t].pc \in RelaySteps
                           => act[t].pc \in RelaySteps /\ act'[t].ep = act[t].ep
  <2> Threads \subseteq Actors /\ RelaySteps \subseteq OwningSteps
    BY DEF Actors, OwningSteps
  <2> QED BY <1>1
<1> QED BY <1>1, <1>2

(* A step that only removes files.                                          *)
LEMMA PartsStay ==
    ASSUME DInv, NEW a \in Actors, OthersSame(a),
           \A e \in Episodes : part'[e] \in {part[e], "none"} /\ file'[e] \in {file[e], "none"},
           act'[a].pc # "replace"
    PROVE  Parts'
<1>1. \A b \in Actors : act'[b].pc = "replace"
                          => act[b].pc = "replace" /\ act'[b].ep = act[b].ep /\ act[b].ep \in Episodes
  BY DEF DInv, Acts, Shaped, OthersSame, EpisodeSteps, OwningSteps, RelaySteps, Fetching
<1> QED BY <1>1 DEF DInv, Parts

LEMMA PlainStep ==
    ASSUME DInv, NEW a \in Actors, DataTypes', Acts', OthersSame(a),
           UNCHANGED <<disk, memory, leaked>>,
           act'[a].pc \in OwningSteps => act[a].pc \in OwningSteps /\ act'[a].ep = act[a].ep,
           a \in Threads /\ act'[a].pc \in RelaySteps => act[a].pc \in RelaySteps,
           act'[a].pc # "replace"
    PROVE  DInv'
<1>1. Owned'
  BY OwnedStays
<1>2. Parts'
  BY PartsStay DEF disk
<1> QED BY <1>1, <1>2 DEF DInv

(* A step that leaves its reservation behind for ever.                      *)
LEMMA LeakingStep ==
    ASSUME DInv, NEW a \in Actors, DataTypes', Acts', OthersSame(a),
           UNCHANGED <<disk, memory>>, act[a].pc \in OwningSteps,
           leaked' = leaked \cup {act[a].ep}, act'[a] = Idle
    PROVE  DInv'
<1>0. Idle.pc \notin OwningSteps /\ Idle.pc # "replace"
  BY DEF Idle, OwningSteps, RelaySteps, Fetching
<1>1. Owned'
  <2> USE DEF DInv, Owned, OthersSame, memory
  <2>1. \A b \in Actors : act'[b].pc \in OwningSteps
                            => b # a /\ act[b].pc \in OwningSteps /\ act'[b].ep = act[b].ep
    BY <1>0
  <2>2. \A t \in Threads : act'[t].pc \in RelaySteps
                             => act[t].pc \in RelaySteps /\ act'[t].ep = act[t].ep
    <3> Threads \subseteq Actors /\ RelaySteps \subseteq OwningSteps
      BY DEF Actors, OwningSteps
    <3> QED BY <2>1
  <2> QED BY <2>1, <2>2
<1>2. Parts'
  <2> USE DEF DInv, Parts, OthersSame, disk
  <2>1. \A b \in Actors : act'[b].pc = "replace" => act[b].pc = "replace" /\ act'[b].ep = act[b].ep
    BY <1>0
  <2> QED BY <2>1
<1> QED BY <1>1, <1>2 DEF DInv

(* A step that takes a reservation nobody has.                              *)
LEMMA TakingStep ==
    ASSUME DInv, NEW a \in Actors, DataTypes', Acts', OthersSame(a),
           act'[a].ep \notin reserved, reserved' = reserved \cup {act'[a].ep},
           events' \in {events, events \cup {act'[a].ep}},
           act'[a].pc \in RelaySteps => events' = events,
           UNCHANGED <<disk, jobs, leaked>>, act'[a].pc # "replace"
    PROVE  DInv'
<1>0. /\ leaked \subseteq reserved /\ events \subseteq reserved
      /\ Threads \subseteq Actors /\ RelaySteps \subseteq OwningSteps
  BY DEF DInv, DataTypes, Actors, OwningSteps
<1>1. Owned'
  <2>1. \A b \in Actors \ {a} : act'[b].pc \in OwningSteps =>
           /\ act[b].pc \in OwningSteps /\ act'[b].ep = act[b].ep
           /\ act'[b].ep \in reserved \ leaked /\ act'[b].ep # act'[a].ep
    BY DEF DInv, Owned, OthersSame
  <2>2. \A i \in 1..Len(jobs) : jobs[i] \in reserved \ leaked /\ jobs[i] # act'[a].ep
    BY DEF DInv, Owned
  <2>3. \A t \in Threads : act'[t].pc \in RelaySteps => act'[t].ep \notin events'
    <3>1. \A t \in Threads \ {a} : act'[t].pc \in RelaySteps => act'[t].ep \notin events
      BY <1>0 DEF DInv, Owned, OthersSame
    <3> QED BY <1>0, <2>1, <3>1
  <2>4. \A b \in Actors : act'[b].pc \in OwningSteps => act'[b].ep \in reserved' \ leaked'
    BY <1>0, <2>1
  <2>5. \A b, c \in Actors :
           act'[b].pc \in OwningSteps /\ act'[c].pc \in OwningSteps /\ act'[b].ep = act'[c].ep => b = c
    BY <2>1 DEF DInv, Owned
  <2>6. \A i \in 1..Len(jobs), b \in Actors : act'[b].pc \in OwningSteps => act'[b].ep # jobs[i]
    BY <2>1, <2>2 DEF DInv, Owned
  <2>7. \A i, j \in 1..Len(jobs) : jobs[i] = jobs[j] => i = j
    BY DEF DInv, Owned
  <2> QED BY <2>2, <2>3, <2>4, <2>5, <2>6, <2>7 DEF Owned
<1>2. Parts'
  BY PartsStay DEF disk
<1> QED BY <1>1, <1>2 DEF DInv

-----------------------------------------------------------------------------
LEMMA Actors3 == Threads \subseteq Actors /\ Workers \subseteq Actors /\ Maintenance \in Actors
BY DEF Actors

LEMMA NotOwning ==
    \A pc \in {"idle", "look", "want", "reserve", "count", "readPath", "clear", "unlink", "drop",
               "dropChannel", "relayReserve", "resume", "sweep", "sweepAll"} :
        pc \notin OwningSteps /\ pc \notin RelaySteps /\ pc # "replace"
BY DEF OwningSteps, RelaySteps, Fetching

LEMMA IdleRests == Idle \in Doing /\ Shaped(Idle) /\ Idle.pc = "idle"
BY DEF Idle, Doing, Steps, Shaped, EpisodeSteps, OwningSteps, RelaySteps, Fetching

LEMMA DoingsAre ==
    ASSUME NEW e \in Episodes, NEW pc \in Steps, pc # "want"
    PROVE  /\ Doings(pc, e) \in Doing /\ Shaped(Doings(pc, e))
           /\ Doings(pc, e).pc = pc /\ Doings(pc, e).ep = e
BY DEF Doings, Idle, Doing, Shaped

(* A thread begins something.                                               *)
LEMMA StartingIsPlain ==
    ASSUME DInv, NEW a \in Actors, NEW x \in Doing, Shaped(x), x.pc \notin OwningSteps,
           Starts(a, x), UNCHANGED <<disk, memory, leaked>>,
           channel' \in BOOLEAN, rows' \in [Episodes -> Row],
           wants' \subseteq Users \X Episodes, released' \subseteq Episodes
    PROVE  DInv'
<1>1. act' = [act EXCEPT ![a] = x] /\ UNCHANGED <<up, crashes>>
  BY DEF Starts
<1>2. asked' \in 0..MaxAsked
  BY BoundsAssumption DEF Starts, DInv, DataTypes
<1>3. DataTypes'
  BY <1>1, <1>2 DEF DInv, DataTypes, disk, memory
<1>4. Acts' /\ act'[a] = x /\ OthersSame(a)
  BY <1>1, OneActs DEF DInv
<1>5. x.pc \notin RelaySteps /\ x.pc # "replace"
  BY DEF OwningSteps, RelaySteps, Fetching
<1> QED BY <1>3, <1>4, <1>5, PlainStep

(* ... or goes on to a step without a reservation, or rests.                *)
LEMMA GoingOnIsPlain ==
    ASSUME DInv, NEW a \in Actors, NEW x \in Doing, Shaped(x),
           act' = [act EXCEPT ![a] = x],
           x.pc \in OwningSteps => act[a].pc \in OwningSteps /\ x.ep = act[a].ep,
           a \in Threads /\ x.pc \in RelaySteps => act[a].pc \in RelaySteps,
           x.pc # "replace",
           UNCHANGED <<disk, memory, server, leaked>>,
           channel' \in BOOLEAN, rows' \in [Episodes -> Row],
           wants' \subseteq Users \X Episodes, released' \subseteq Episodes
    PROVE  DInv'
<1>1. DataTypes'
  BY DEF DInv, DataTypes, disk, memory, server
<1>2. Acts' /\ act'[a] = x /\ OthersSame(a)
  BY OneActs DEF DInv
<1> QED BY <1>1, <1>2, PlainStep

(* The next step of a thread, with the same episode.                        *)
LEMMA NextStepIs ==
    ASSUME Acts, NEW a \in Actors, NEW pc \in Steps, act[a].pc \in EpisodeSteps, pc # "want"
    PROVE  /\ [act[a] EXCEPT !.pc = pc] \in Doing /\ Shaped([act[a] EXCEPT !.pc = pc])
           /\ [act[a] EXCEPT !.pc = pc].pc = pc /\ [act[a] EXCEPT !.pc = pc].ep = act[a].ep
           /\ Goes(a, pc) => act' = [act EXCEPT ![a] = [act[a] EXCEPT !.pc = pc]]
<1>1. act[a] \in Doing /\ Shaped(act[a])
  BY DEF Acts
<1> QED BY <1>1 DEF Doing, Shaped, Goes

(* One step on without a reservation, or a rest.                            *)
LEMMA GoesOrRests ==
    ASSUME DInv, NEW a \in Actors, act[a].pc \in EpisodeSteps,
           NEW pc \in Steps, pc \notin OwningSteps, pc # "want",
           Goes(a, pc) \/ Rests(a),
           UNCHANGED <<disk, memory, server, leaked>>,
           channel' \in BOOLEAN, rows' \in [Episodes -> Row],
           wants' \subseteq Users \X Episodes, released' \subseteq Episodes
    PROVE  DInv'
<1>1. CASE Rests(a)
  BY <1>1, IdleRests, NotOwning, GoingOnIsPlain DEF Rests
<1>2. CASE Goes(a, pc)
  <2> DEFINE x == [act[a] EXCEPT !.pc = pc]
  <2>1. /\ x \in Doing /\ Shaped(x) /\ x.pc = pc
        /\ act' = [act EXCEPT ![a] = x]
    BY <1>2, NextStepIs DEF DInv
  <2>2. pc \notin RelaySteps /\ pc # "replace"
    BY DEF OwningSteps, RelaySteps, Fetching
  <2> HIDE DEF x
  <2> QED BY <2>1, <2>2, GoingOnIsPlain
<1> QED BY <1>1, <1>2

-----------------------------------------------------------------------------
(* The requests that arrive.                                                *)
LEMMA RequestsKeep == ASSUME DInv, Requests PROVE DInv'
<1> USE Actors3
<1>0. DataTypes /\ act \in [Actors -> Doing]
  BY DEF DInv, Acts
<1>1. ASSUME NEW t \in Threads, NEW u \in Users, NEW e \in Episodes, Request(t, u, e)
      PROVE  DInv'
  <2> DEFINE x == [Doings("look", e) EXCEPT !.user = u]
  <2>1. x \in Doing /\ Shaped(x) /\ x.pc \notin OwningSteps
    BY NotOwning DEF Doings, Idle, Doing, Steps, Shaped
  <2>2. wants' \subseteq Users \X Episodes
    BY <1>0, <1>1 DEF Request, DataTypes
  <2> HIDE DEF x
  <2> QED BY <1>0, <1>1, <2>1, <2>2, StartingIsPlain DEF Request, DataTypes, x
<1>2. ASSUME NEW t \in Threads, NEW u \in Users, NEW e \in Episodes, DownloadRecent(t, u, e)
      PROVE  DInv'
  <2> DEFINE x == [Doings("want", e) EXCEPT !.user = u]
  <2>1. x \in Doing /\ Shaped(x) /\ x.pc \notin OwningSteps
    BY NotOwning DEF Doings, Idle, Doing, Steps, Shaped
  <2> HIDE DEF x
  <2> QED BY <1>0, <1>2, <2>1, StartingIsPlain DEF DownloadRecent, DataTypes, x
<1>3. ASSUME NEW t \in Threads, NEW u \in Users, NEW e \in Episodes, Release(t, u, e)
      PROVE  DInv'
  <2> DEFINE x == [Doings("count", e) EXCEPT !.spared = {v \in Users : <<v, e>> \in wants'}]
  <2>1. x \in Doing /\ Shaped(x) /\ x.pc = "count"
    BY DEF Doings, Idle, Doing, Steps, Shaped
  <2>2. act' = [Unspare(act, {<<u, e>>}) EXCEPT ![t] = x]
    BY <1>3 DEF Release
  <2> HIDE DEF x
  <2>3. Acts' /\ act'[t] = x /\ OthersSame(t)
    BY <2>1, <2>2, OneActsUnsparing DEF DInv
  <2>4. asked' \in 0..MaxAsked
    BY <1>0, <1>3, BoundsAssumption DEF Release, DataTypes
  <2>5. DataTypes'
    BY <1>0, <1>3, <2>4 DEF Release, DataTypes, disk, memory
  <2> QED BY <1>3, <2>1, <2>3, <2>5, NotOwning, PlainStep DEF Release
<1>4. ASSUME NEW t \in Threads, NEW e \in Episodes, AdminDownload(t, e)
      PROVE  DInv'
  <2> DEFINE x == Doings("reserve", e)
  <2>1. x \in Doing /\ Shaped(x) /\ x.pc \notin OwningSteps
    BY NotOwning DEF Doings, Idle, Doing, Steps, Shaped
  <2> HIDE DEF x
  <2> QED BY <1>0, <1>4, <2>1, StartingIsPlain DEF AdminDownload, DataTypes, x
<1>5. ASSUME NEW t \in Threads, NEW e \in Episodes, Delete(t, e)
      PROVE  DInv'
  <2> DEFINE x == [Doings("drop", e) EXCEPT !.paths = IF rows[e].stored THEN {e} ELSE {}]
  <2>1. x \in Doing /\ Shaped(x) /\ x.pc \notin OwningSteps
    BY NotOwning DEF Doings, Idle, Doing, Steps, Shaped
  <2> HIDE DEF x
  <2> QED BY <1>0, <1>5, <2>1, StartingIsPlain DEF Delete, DataTypes, x
<1>6. ASSUME NEW t \in Threads, NEW e \in Episodes, Stream(t, e)
      PROVE  DInv'
  <2> DEFINE x == Doings("relayReserve", e)
  <2>1. x \in Doing /\ Shaped(x) /\ x.pc \notin OwningSteps
    BY NotOwning DEF Doings, Idle, Doing, Steps, Shaped
  <2> HIDE DEF x
  <2> QED BY <1>0, <1>6, <2>1, StartingIsPlain DEF Stream, DataTypes, x
<1>7. ASSUME NEW t \in Threads, DeleteChannel(t)
      PROVE  DInv'
  <2> DEFINE x == [Idle EXCEPT !.pc = "dropChannel", !.paths = {e \in Episodes : rows[e].stored}]
  <2>1. x \in Doing /\ Shaped(x) /\ x.pc \notin OwningSteps
    BY NotOwning DEF Idle, Doing, Steps, Shaped, EpisodeSteps, OwningSteps, RelaySteps, Fetching
  <2> HIDE DEF x
  <2> QED BY <1>0, <1>7, <2>1, StartingIsPlain DEF DeleteChannel, DataTypes, x
<1>8. ASSUME NEW e \in Episodes, Cancel(e)
      PROVE  DInv'
  <2>1. DataTypes'
    BY <1>0, <1>8 DEF Cancel, DataTypes, disk, server
  <2>2. Acts' /\ Owned' /\ Parts'
    BY <1>8 DEF Cancel, DInv, Acts, Shaped, Owned, Parts, disk
  <2> QED BY <2>1, <2>2 DEF DInv
<1> QED BY <1>1, <1>2, <1>3, <1>4, <1>5, <1>6, <1>7, <1>8 DEF Requests

-----------------------------------------------------------------------------
(* One step on with the reservation a thread has, no download being ended.  *)
LEMMA GoesOnOwning ==
    ASSUME DInv, NEW a \in Actors, act[a].pc \in OwningSteps,
           NEW pc \in Steps, pc \notin {"want", "replace"},
           a \in Threads /\ pc \in RelaySteps => act[a].pc \in RelaySteps,
           Goes(a, pc),
           UNCHANGED <<channel, wants, disk, memory, server, leaked, released>>,
           rows' \in [Episodes -> Row]
    PROVE  DInv'
<1> DEFINE x == [act[a] EXCEPT !.pc = pc]
<1>1. /\ x \in Doing /\ Shaped(x) /\ x.pc = pc /\ x.ep = act[a].ep
      /\ act' = [act EXCEPT ![a] = x]
  BY NextStepIs DEF DInv, EpisodeSteps
<1> HIDE DEF x
<1> QED BY <1>1, GoingOnIsPlain DEF DInv, DataTypes

LEMMA RowsStayRows ==
    ASSUME DInv, NEW a \in Actors, act[a].pc \in EpisodeSteps
    PROVE  /\ act[a] \in Doing /\ Shaped(act[a]) /\ act[a].ep \in Episodes
           /\ \A s \in Statuses : SetStatus(act[a].ep, s) => rows' \in [Episodes -> Row]
           /\ \A row \in Row : SetRow(act[a].ep, row) => rows' \in [Episodes -> Row]
           /\ UNCHANGED rows => rows' \in [Episodes -> Row]
<1>1. act[a] \in Doing /\ Shaped(act[a]) /\ act[a].ep \in Episodes /\ rows \in [Episodes -> Row]
  BY DEF DInv, DataTypes, Acts, Shaped
<1> QED BY <1>1, RowIsSet, StatusIsSet

(* A thread that gives its reservation up for ever, and rests.              *)
LEMMA RestsLeaking ==
    ASSUME DInv, NEW a \in Actors, act[a].pc \in OwningSteps, Rests(a),
           leaked' = leaked \cup {act[a].ep},
           UNCHANGED <<channel, rows, wants, disk, memory, server, released>>
    PROVE  DInv'
<1>1. DataTypes'
  BY DEF DInv, DataTypes, disk, memory, server, Owned
<1>2. Acts' /\ act'[a] = Idle /\ OthersSame(a)
  BY IdleRests, OneActs DEF DInv, Rests
<1> QED BY <1>1, <1>2, LeakingStep

-----------------------------------------------------------------------------
(* The handlers of requests.                                                *)
LEMMA HandlersKeep ==
    ASSUME DInv, NEW t \in Threads, Handler(t)
    PROVE  DInv'
<1> USE Actors3
<1>0. DataTypes /\ Acts /\ act \in [Actors -> Doing] /\ rows \in [Episodes -> Row]
  BY DEF DInv, Acts, DataTypes
<1>1. CASE Look(t)
  <2>1. "look" \in EpisodeSteps /\ "reserve" \in Steps
    BY DEF EpisodeSteps, Steps
  <2> QED BY <1>0, <1>1, <2>1, NotOwning, GoesOrRests DEF Look, At, DataTypes
<1>2. CASE Want(t)
  <2>1. "want" \in EpisodeSteps /\ "reserve" \in Steps
    BY DEF EpisodeSteps, Steps
  <2>2. act[t].ep \in Episodes /\ act[t].user \in Users
    BY <1>0, <1>2, <2>1 DEF Want, At, Acts, Shaped
  <2>3. wants' \subseteq Users \X Episodes /\ released' \subseteq Episodes
    BY <1>0, <1>2, <2>2 DEF Want, DataTypes
  <2> QED BY <1>0, <1>2, <2>1, <2>3, NotOwning, GoesOrRests DEF Want, At, DataTypes
<1>3. CASE Count(t)
  <2>1. "count" \in EpisodeSteps /\ "readPath" \in Steps
    BY DEF EpisodeSteps, Steps
  <2> QED BY <1>0, <1>3, <2>1, NotOwning, GoesOrRests DEF Count, At, DataTypes
<1>4. CASE ReadPath(t)
  <2>1. "readPath" \in EpisodeSteps /\ "clear" \in Steps
    BY DEF EpisodeSteps, Steps
  <2> QED BY <1>0, <1>4, <2>1, NotOwning, GoesOrRests DEF ReadPath, At, DataTypes
<1>5. CASE Clear(t)
  <2> DEFINE x == [act[t] EXCEPT !.pc = "unlink", !.paths = {act[t].ep}]
  <2>1. act[t].pc \in EpisodeSteps
    BY <1>5 DEF Clear, At, EpisodeSteps
  <2>2. act[t] \in Doing /\ act[t].ep \in Episodes
    BY <2>1, RowsStayRows
  <2>3. x \in Doing /\ x.pc = "unlink" /\ Shaped(x)
    BY <2>2 DEF Doing, Steps, Shaped, EpisodeSteps, OwningSteps, RelaySteps, Fetching
  <2>4. act' = [act EXCEPT ![t] = x]
    BY <1>5, <1>0 DEF Clear
  <2>5. rows' \in [Episodes -> Row]
    <3> [status |-> "new", stored |-> FALSE] \in Row
      BY DEF Row, Statuses
    <3> QED BY <1>5, <2>1, RowsStayRows DEF Clear
  <2> HIDE DEF x
  <2> QED BY <1>0, <1>5, <2>3, <2>4, <2>5, NotOwning, GoingOnIsPlain, ZenonT(40) DEF Clear, DataTypes
<1>6. CASE Unlink(t)
  <2> PICK e \in act[t].paths :
        /\ file' = [file EXCEPT ![e] = "none"]
        /\ IF act[t].paths = {e} THEN Rests(t) ELSE act' = [act EXCEPT ![t].paths = @ \ {e}]
    BY <1>6 DEF Unlink
  <2> DEFINE x == IF act[t].paths = {e} THEN Idle ELSE [act[t] EXCEPT !.paths = @ \ {e}]
  <2>1. act[t] \in Doing /\ Shaped(act[t]) /\ act[t].pc = "unlink"
    BY <1>0, <1>6 DEF Acts, Unlink, At
  <2>2. x \in Doing /\ Shaped(x) /\ x.pc \in {"idle", "unlink"}
    BY <2>1, IdleRests DEF Doing, Shaped
  <2>3. act' = [act EXCEPT ![t] = x]
    BY <1>0 DEF Rests
  <2> HIDE DEF x
  <2>4. Acts' /\ act'[t] = x /\ OthersSame(t)
    BY <1>0, <2>2, <2>3, OneActs
  <2>5. DataTypes'
    BY <1>0, <1>6 DEF Unlink, DataTypes, memory, server, Contents
  <2>6. Owned'
    BY <1>6, <2>2, <2>4, NotOwning, OwnedStays DEF Unlink
  <2>7. Parts'
    <3> \A d \in Episodes : part'[d] \in {part[d], "none"} /\ file'[d] \in {file[d], "none"}
      BY <1>0, <1>6 DEF Unlink, DataTypes
    <3> QED BY <2>2, <2>4, PartsStay
  <2> QED BY <2>4, <2>5, <2>6, <2>7 DEF DInv
<1>7. CASE Drop(t)
  <2> DEFINE gone == {w \in wants : w[2] = act[t].ep}
             x == IF Unspare(act, gone)[t].paths = {} THEN Idle
                  ELSE [Idle EXCEPT !.pc = "unlink", !.paths = act[t].paths]
  <2>1. act[t] \in Doing /\ act[t].pc \in EpisodeSteps
    BY <1>0, <1>7 DEF Acts, Drop, At, EpisodeSteps
  <2>2. x \in Doing /\ Shaped(x) /\ x.pc \in {"idle", "unlink"}
    BY <2>1, IdleRests, ZenonT(40) DEF Doing, Idle, Steps, Shaped, EpisodeSteps, OwningSteps, RelaySteps, Fetching
  <2>3. act' = [Unspare(act, gone) EXCEPT ![t] = x]
    BY <1>7 DEF Drop
  <2>4. rows' \in [Episodes -> Row]
    <3> [status |-> "deleted", stored |-> FALSE] \in Row
      BY DEF Row, Statuses
    <3> QED BY <1>7, <2>1, RowsStayRows DEF Drop
  <2>5. wants' \subseteq Users \X Episodes
    BY <1>0, <1>7 DEF Drop, DataTypes
  <2> HIDE DEF x, gone
  <2>6. Acts' /\ act'[t] = x /\ OthersSame(t)
    BY <1>0, <2>2, <2>3, OneActsUnsparing
  <2>7. DataTypes'
    BY <1>0, <1>7, <2>4, <2>5 DEF Drop, DataTypes, disk, memory, server
  <2> QED BY <1>7, <2>2, <2>6, <2>7, NotOwning, PlainStep DEF Drop
<1>8. CASE DropChannel(t)
  <2> DEFINE x == IF Unspare(act, wants)[t].paths = {} THEN Idle
                  ELSE [Unspare(act, wants)[t] EXCEPT !.pc = "unlink"]
  <2>1. Unspare(act, wants)[t] \in Doing
    BY <1>0, ZenonT(40) DEF Unspare, Doing
  <2>2. x \in Doing /\ Shaped(x) /\ x.pc \in {"idle", "unlink"}
    BY <2>1, IdleRests DEF Doing, Steps, Shaped, EpisodeSteps, OwningSteps, RelaySteps, Fetching
  <2>3. act' = [Unspare(act, wants) EXCEPT ![t] = x]
    BY <1>8 DEF DropChannel
  <2>4. rows' \in [Episodes -> Row] /\ wants' \subseteq Users \X Episodes
    BY <1>8 DEF DropChannel, Row, Statuses
  <2> HIDE DEF x
  <2>5. Acts' /\ act'[t] = x /\ OthersSame(t)
    BY <1>0, <2>2, <2>3, OneActsUnsparing
  <2>6. DataTypes'
    BY <1>0, <1>8, <2>4 DEF DropChannel, DataTypes, disk, memory, server
  <2> QED BY <1>8, <2>2, <2>5, <2>6, NotOwning, PlainStep DEF DropChannel
<1>9. CASE RelayReserve(t)
  <2>1. act[t].pc \in EpisodeSteps /\ "relayMark" \in Steps
    BY <1>9 DEF RelayReserve, At, EpisodeSteps, Steps
  <2>2. act[t].ep \in Episodes
    BY <2>1, RowsStayRows
  <2>3. CASE act[t].ep \in reserved
    <3>1. "reserve" \in Steps /\ "reserve" \notin OwningSteps
      BY NotOwning DEF Steps
    <3>2. Rests(t) /\ UNCHANGED <<disk, memory, server, leaked>>
      BY <1>9, <2>3 DEF RelayReserve, memory
    <3> QED BY <1>0, <1>9, <2>1, <2>3, <3>1, <3>2, GoesOrRests DEF RelayReserve, DataTypes
  <2>4. CASE act[t].ep \notin reserved
    <3> DEFINE x == [act[t] EXCEPT !.pc = "relayMark"]
    <3>1. /\ x \in Doing /\ Shaped(x) /\ x.pc = "relayMark" /\ x.ep = act[t].ep
          /\ act' = [act EXCEPT ![t] = x]
      BY <1>0, <1>9, <2>1, <2>4, NextStepIs DEF RelayReserve
    <3> HIDE DEF x
    <3>2. Acts' /\ act'[t] = x /\ OthersSame(t)
      BY <1>0, <3>1, OneActs
    <3>3. DataTypes'
      BY <1>0, <1>9, <2>2, <2>4 DEF RelayReserve, DataTypes, disk, server
    <3>4. /\ reserved' = reserved \cup {act'[t].ep} /\ act'[t].ep \notin reserved
          /\ events' = events /\ UNCHANGED <<disk, jobs, leaked>> /\ act'[t].pc # "replace"
      BY <1>9, <2>4, <3>1, <3>2 DEF RelayReserve
    <3> QED BY <3>2, <3>3, <3>4, TakingStep
  <2> QED BY <2>3, <2>4
<1>10. CASE RelayMark(t)
  <2>1. /\ act[t].pc \in RelaySteps /\ act[t].pc \in OwningSteps /\ act[t].pc \in EpisodeSteps
        /\ {"connect", "giveUp"} \subseteq Steps /\ "downloading" \in Statuses
    BY <1>10 DEF RelayMark, At, EpisodeSteps, OwningSteps, RelaySteps, Steps, Statuses
  <2> QED BY <1>10, <2>1, RowsStayRows, GoesOnOwning DEF RelayMark
<1>11. CASE Connect(t)
  <2>1. /\ act[t].pc \in RelaySteps /\ act[t].pc \in OwningSteps
        /\ {"fetching", "giveUp"} \subseteq Steps
    BY <1>11 DEF Connect, At, OwningSteps, RelaySteps, Steps, Fetching
  <2> QED BY <1>0, <1>11, <2>1, GoesOnOwning, RestsLeaking DEF Connect
<1>12. CASE GiveUp(t)
  <2>1. /\ act[t].pc \in RelaySteps /\ act[t].pc \in OwningSteps /\ act[t].pc \in EpisodeSteps
        /\ "free" \in Steps /\ "new" \in Statuses
    BY <1>12 DEF GiveUp, At, EpisodeSteps, OwningSteps, RelaySteps, Steps, Statuses
  <2> QED BY <1>12, <2>1, RowsStayRows, GoesOnOwning, RestsLeaking DEF GiveUp
<1> QED BY <1>1, <1>2, <1>3, <1>4, <1>5, <1>6, <1>7, <1>8, <1>9, <1>10, <1>11, <1>12 DEF Handler

-----------------------------------------------------------------------------
(* Out of the handler, or on with the loop of resume_downloads().           *)
LEMMA ContinueIs ==
    ASSUME Acts, NEW a \in Actors, Continue(a)
    PROVE  /\ Acts' /\ OthersSame(a)
           /\ act'[a].pc \notin OwningSteps /\ act'[a].pc \notin RelaySteps /\ act'[a].pc # "replace"
<1> DEFINE x == IF act[a].paths = {} THEN Idle
                ELSE [Idle EXCEPT !.pc = "resume", !.paths = act[a].paths]
<1>1. act[a] \in Doing
  BY DEF Acts
<1>2. x \in Doing /\ Shaped(x) /\ x.pc \in {"idle", "resume"}
  BY <1>1, IdleRests, ZenonT(40) DEF Doing, Idle, Steps, Shaped, EpisodeSteps, OwningSteps, RelaySteps, Fetching
<1>3. act' = [act EXCEPT ![a] = x]
  BY DEF Continue, Rests
<1> HIDE DEF x
<1>4. Acts' /\ act'[a] = x /\ OthersSame(a)
  BY <1>2, <1>3, OneActs
<1> QED BY <1>2, <1>4, NotOwning

LEMMA BackgroundKeeps ==
    ASSUME DInv, NEW a \in Threads \cup {Maintenance}, Background(a)
    PROVE  DInv'
<1> USE Actors3
<1>0. /\ DataTypes /\ Acts /\ act \in [Actors -> Doing] /\ a \in Actors
  BY DEF DInv, Acts
<1>1. CASE Reserve(a)
  <2>1. act[a].pc = "reserve" /\ act[a].pc \in EpisodeSteps /\ "mark" \in Steps
    BY <1>1 DEF Reserve, At, EpisodeSteps, Steps
  <2>2. act[a].ep \in Episodes
    BY <1>0, <2>1, RowsStayRows
  <2>3. CASE Continue(a) /\ UNCHANGED <<reserved, events, released>>
    <3>1. DataTypes'
      BY <1>0, <1>1, <2>3 DEF Reserve, DataTypes, disk, server
    <3>2. UNCHANGED <<disk, memory, leaked>>
      BY <1>1, <2>3 DEF Reserve, memory
    <3> QED BY <1>0, <2>3, <3>1, <3>2, ContinueIs, PlainStep
  <2>4. CASE /\ act[a].ep \notin reserved /\ reserved' = reserved \cup {act[a].ep}
             /\ events' = events \cup {act[a].ep} /\ released' = released \ {act[a].ep}
             /\ Goes(a, "mark")
    <3> DEFINE x == [act[a] EXCEPT !.pc = "mark"]
    <3>1. /\ x \in Doing /\ Shaped(x) /\ x.pc = "mark" /\ x.ep = act[a].ep
          /\ act' = [act EXCEPT ![a] = x]
      BY <1>0, <2>1, <2>4, NextStepIs
    <3> HIDE DEF x
    <3>2. Acts' /\ act'[a] = x /\ OthersSame(a)
      BY <1>0, <3>1, OneActs
    <3>3. DataTypes'
      BY <1>0, <1>1, <2>2, <2>4 DEF Reserve, DataTypes, disk, server
    <3>4. /\ reserved' = reserved \cup {act'[a].ep} /\ act'[a].ep \notin reserved
          /\ events' = events \cup {act'[a].ep}
          /\ act'[a].pc \notin RelaySteps /\ act'[a].pc # "replace"
      BY <2>4, <3>1, <3>2 DEF RelaySteps, Fetching
    <3>5. UNCHANGED <<disk, jobs, leaked>>
      BY <1>1 DEF Reserve
    <3> QED BY <1>0, <3>2, <3>3, <3>4, <3>5, TakingStep
  <2> QED BY <1>1, <2>3, <2>4 DEF Reserve
<1>2. CASE Mark(a)
  <2>1. /\ act[a].pc \in OwningSteps /\ act[a].pc \in EpisodeSteps
        /\ "submit" \in Steps /\ "downloading" \in Statuses /\ "submit" \notin RelaySteps
    BY <1>2 DEF Mark, At, EpisodeSteps, OwningSteps, RelaySteps, Fetching, Steps, Statuses
  <2> QED BY <1>0, <1>2, <2>1, RowsStayRows, GoesOnOwning, RestsLeaking DEF Mark
<1>3. CASE Submit(a)
  <2> DEFINE e == act[a].ep
  <2>1. act[a].pc \in OwningSteps /\ act[a].pc \in EpisodeSteps
    BY <1>3 DEF Submit, At, EpisodeSteps, OwningSteps
  <2>2. e \in Episodes /\ e \in reserved \ leaked
    BY <1>0, <2>1, RowsStayRows DEF DInv, Owned
  <2>3. /\ Acts' /\ OthersSame(a)
        /\ act'[a].pc \notin OwningSteps /\ act'[a].pc \notin RelaySteps /\ act'[a].pc # "replace"
    BY <1>0, <1>3, ContinueIs DEF Submit
  <2>4. DataTypes'
    BY <1>0, <1>3, <2>2 DEF Submit, DataTypes, disk, server
  <2>5. /\ Len(jobs') = Len(jobs) + 1 /\ Len(jobs) \in Nat
        /\ \A i \in 1..Len(jobs) : jobs'[i] = jobs[i]
        /\ jobs'[Len(jobs) + 1] = e
    BY <1>0, <1>3 DEF Submit, DataTypes
  <2>6. \A i \in 1..Len(jobs) : jobs[i] # e
    BY <1>0, <2>1 DEF DInv, Owned
  <2>7. \A b \in Actors : act'[b].pc \in OwningSteps =>
           b # a /\ act[b].pc \in OwningSteps /\ act'[b].ep = act[b].ep /\ act[b].ep # e
    BY <1>0, <2>1, <2>3 DEF DInv, Owned, OthersSame
  <2>8. Owned'
    <3> UNCHANGED <<reserved, events, leaked>>
      BY <1>3 DEF Submit
    <3>1. \A i \in 1..Len(jobs') : jobs'[i] \in reserved \ leaked
      BY <2>2, <2>5 DEF DInv, Owned
    <3>2. \A i \in 1..Len(jobs'), b \in Actors : act'[b].pc \in OwningSteps => act'[b].ep # jobs'[i]
      BY <2>5, <2>7 DEF DInv, Owned
    <3>3. \A i, j \in 1..Len(jobs') : jobs'[i] = jobs'[j] => i = j
      BY <2>5, <2>6 DEF DInv, Owned
    <3>4. \A t \in Threads : act'[t].pc \in RelaySteps => act'[t].ep \notin events
      <4> RelaySteps \subseteq OwningSteps
        BY DEF OwningSteps
      <4> QED BY <2>3, <2>7 DEF DInv, Owned, OthersSame
    <3> QED BY <2>7, <3>1, <3>2, <3>3, <3>4 DEF DInv, Owned
  <2>9. Parts'
    BY <1>0, <1>3, <2>3, PartsStay DEF Submit, disk
  <2> QED BY <2>3, <2>4, <2>8, <2>9 DEF DInv
<1> QED BY <1>1, <1>2, <1>3 DEF Background

(* A reservation passes from the pool's queue to a worker.                  *)
LEMMA TakeJobKeeps ==
    ASSUME DInv, NEW w \in Workers, TakeJob(w)
    PROVE  DInv'
<1> DEFINE e == Head(jobs)
           x == Doings("fetching", e)
<1> USE Actors3
<1>0. /\ DataTypes /\ Acts /\ act \in [Actors -> Doing] /\ w \in Actors
      /\ jobs \in Seq(Episodes) /\ jobs # << >> /\ act[w].pc = "idle"
      /\ jobs' = Tail(jobs) /\ act' = [act EXCEPT ![w] = x]
  BY DEF DInv, Acts, DataTypes, TakeJob, At
<1>1. /\ e \in Episodes /\ Len(jobs) \in Nat \ {0} /\ e = jobs[1] /\ 1 \in 1..Len(jobs)
      /\ jobs' \in Seq(Episodes) /\ Len(jobs') = Len(jobs) - 1
      /\ \A i \in 1..Len(jobs') : jobs'[i] = jobs[i + 1] /\ i + 1 \in 1..Len(jobs) /\ i + 1 # 1
  BY <1>0
<1>2. x \in Doing /\ Shaped(x) /\ x.pc = "fetching" /\ x.ep = e
  <2> "fetching" \in Steps
    BY DEF Steps, Fetching
  <2> QED BY <1>1, DoingsAre
<1> HIDE DEF x, e
<1>3. Acts' /\ act'[w] = x /\ OthersSame(w)
  BY <1>0, <1>2, OneActs
<1>4. DataTypes'
  BY <1>0, <1>1 DEF TakeJob, DataTypes, disk, server
<1>5. Owned'
  <2> UNCHANGED <<reserved, events, leaked>>
    BY DEF TakeJob
  <2>1. e \in reserved \ leaked /\ \A b \in Actors : act[b].pc \in OwningSteps => act[b].ep # e
    BY <1>1 DEF DInv, Owned
  <2>2. \A b \in Actors \ {w} : act'[b].pc = act[b].pc /\ act'[b].ep = act[b].ep
    BY <1>3 DEF OthersSame
  <2>3. \A i \in 1..Len(jobs') : jobs'[i] \in reserved \ leaked /\ jobs'[i] # e
    BY <1>1 DEF DInv, Owned
  <2>4. \A i, j \in 1..Len(jobs') : jobs'[i] = jobs'[j] => i = j
    <3> SUFFICES ASSUME NEW i \in 1..Len(jobs'), NEW j \in 1..Len(jobs'), jobs'[i] = jobs'[j]
                 PROVE  i = j
      OBVIOUS
    <3>1. i + 1 = j + 1
      BY <1>1 DEF DInv, Owned
    <3> QED BY <3>1, <1>1
  <2>5. \A i \in 1..Len(jobs'), b \in Actors : act'[b].pc \in OwningSteps => act'[b].ep # jobs'[i]
    BY <1>1, <1>2, <1>3, <2>2, <2>3 DEF DInv, Owned
  <2>6. \A b \in Actors : act'[b].pc \in OwningSteps => act'[b].ep \in reserved \ leaked
    BY <1>2, <1>3, <2>1, <2>2 DEF DInv, Owned
  <2>7. \A b, c \in Actors :
           act'[b].pc \in OwningSteps /\ act'[c].pc \in OwningSteps /\ act'[b].ep = act'[c].ep => b = c
    BY <1>2, <1>3, <2>1, <2>2 DEF DInv, Owned
  <2>8. \A t \in Threads : act'[t].pc \in RelaySteps => act'[t].ep \notin events
    BY <2>2, ActorsAssumption DEF DInv, Owned
  <2> QED BY <2>3, <2>4, <2>5, <2>6, <2>7, <2>8 DEF Owned
<1>6. Parts'
  BY <1>2, <1>3, PartsStay DEF TakeJob, disk
<1> QED BY <1>3, <1>4, <1>5, <1>6 DEF DInv

-----------------------------------------------------------------------------
(* A download: whoever holds the reservation is alone with the '.part' file. *)
LEMMA FetchSteps ==
    /\ Fetching \cup {"commit", "reset", "free"} \subseteq RelaySteps
    /\ RelaySteps \subseteq OwningSteps /\ OwningSteps \subseteq EpisodeSteps
    /\ {"writing", "replace", "undo", "commit", "reset", "free"} \subseteq Steps
    /\ {"fetching", "writing", "replace", "undo"} \subseteq Fetching
BY DEF Steps, Fetching, EpisodeSteps, OwningSteps, RelaySteps

LEMMA GivesKeeps ==
    ASSUME DInv, NEW a \in Actors, act[a].pc \in Fetching,
           NEW v \in {"new", "error"}, Gives(a, "undo", v),
           UNCHANGED <<channel, rows, wants, disk, memory, server, leaked, released>>
    PROVE  DInv'
<1> DEFINE x == [act[a] EXCEPT !.pc = "undo", !.verdict = v]
<1>1. act[a] \in Doing /\ Shaped(act[a]) /\ act[a].ep \in Episodes
  BY FetchSteps, RowsStayRows
<1>2. x \in Doing /\ Shaped(x) /\ x.pc = "undo" /\ x.ep = act[a].ep
  BY <1>1, FetchSteps DEF Doing, Shaped
<1>3. act' = [act EXCEPT ![a] = x]
  BY DEF Gives, DInv, Acts
<1> HIDE DEF x
<1> QED BY <1>2, <1>3, FetchSteps, GoingOnIsPlain DEF DInv, DataTypes

(* The step of a download that changes its own two files.                   *)
LEMMA OwnFilesChange ==
    ASSUME DInv, NEW a \in Actors, act[a].pc \in Fetching,
           NEW pc \in {"writing", "replace", "commit", "reset"}, Goes(a, pc),
           NEW p \in Contents, NEW f \in Contents, f # "partial",
           part' = [part EXCEPT ![act[a].ep] = p], file' = [file EXCEPT ![act[a].ep] = f],
           pc = "replace" => p # "partial",
           UNCHANGED <<channel, rows, wants, memory, server, leaked, released>>
    PROVE  DInv'
<1> DEFINE x == [act[a] EXCEPT !.pc = pc]
<1>1. /\ pc \in Steps /\ pc # "want" /\ pc \in RelaySteps /\ pc \in OwningSteps
      /\ act[a].pc \in RelaySteps /\ act[a].pc \in OwningSteps /\ act[a].pc \in EpisodeSteps
  BY FetchSteps
<1>2. act[a].ep \in Episodes
  BY <1>1, RowsStayRows
<1>3. /\ x \in Doing /\ Shaped(x) /\ x.pc = pc /\ x.ep = act[a].ep
      /\ act' = [act EXCEPT ![a] = x]
  BY <1>1, NextStepIs DEF DInv
<1> HIDE DEF x
<1>4. Acts' /\ act'[a] = x /\ OthersSame(a)
  BY <1>3, OneActs DEF DInv
<1>5. DataTypes'
  BY <1>2 DEF DInv, DataTypes, memory, server
<1>6. Owned'
  BY <1>1, <1>3, <1>4, OwnedStays
<1>7. Parts'
  <2>1. \A e \in Episodes : file'[e] # "partial"
    BY DEF DInv, DataTypes, Parts
  <2>2. \A b \in Actors \ {a} : act'[b].pc = "replace" =>
           act[b].pc = "replace" /\ act'[b].ep = act[b].ep /\ act[b].ep # act[a].ep
    BY <1>1, <1>4, FetchSteps DEF DInv, Owned, OthersSame
  <2>3. \A b \in Actors \ {a} : act'[b].pc = "replace" => part'[act'[b].ep] # "partial"
    <3>1. \A b \in Actors : act[b].pc = "replace" => act[b].ep \in Episodes
      BY FetchSteps, RowsStayRows
    <3> QED BY <2>2, <3>1 DEF DInv, DataTypes, Parts
  <2>4. act'[a].pc = "replace" => part'[act'[a].ep] # "partial"
    BY <1>2, <1>3, <1>4 DEF DInv, DataTypes
  <2> QED BY <2>1, <2>3, <2>4 DEF Parts
<1> QED BY <1>4, <1>5, <1>6, <1>7 DEF DInv

LEMMA FetchKeeps ==
    ASSUME DInv, NEW a \in Threads \cup Workers, Fetch(a)
    PROVE  DInv'
<1> DEFINE e == act[a].ep
<1>0. /\ DataTypes /\ Acts /\ act \in [Actors -> Doing] /\ a \in Actors
      /\ part \in [Episodes -> Contents] /\ file \in [Episodes -> Contents]
  BY Actors3 DEF DInv, Acts, DataTypes
<1>1. CASE OpenPart(a)
  <2>1. act[a].pc \in Fetching
    BY <1>1, FetchSteps DEF OpenPart, At
  <2>2. e \in Episodes
    BY <1>0, <2>1, FetchSteps, RowsStayRows
  <2>3. file[e] \in Contents /\ file[e] # "partial" /\ file' = [file EXCEPT ![e] = file[e]]
    BY <1>0, <1>1, <2>2 DEF OpenPart, DInv, Parts
  <2> QED BY <1>0, <1>1, <2>1, <2>3, OwnFilesChange DEF OpenPart, Contents
<1>2. CASE WriteAll(a)
  <2> DEFINE p == IF part[e] = "none" THEN "none" ELSE "whole"
  <2>1. act[a].pc \in Fetching
    BY <1>2, FetchSteps DEF WriteAll, At
  <2>2. e \in Episodes
    BY <1>0, <2>1, FetchSteps, RowsStayRows
  <2>3. file[e] \in Contents /\ file[e] # "partial" /\ file' = [file EXCEPT ![e] = file[e]]
    BY <1>0, <1>2, <2>2 DEF WriteAll, DInv, Parts
  <2>4. p \in Contents /\ p # "partial" /\ part' = [part EXCEPT ![e] = p]
    BY <1>0, <1>2, <2>2 DEF WriteAll, Contents
  <2> HIDE DEF p
  <2> QED BY <1>0, <1>2, <2>1, <2>3, <2>4, OwnFilesChange DEF WriteAll
<1>3. CASE FetchFails(a)
  <2>1. act[a].pc \in Fetching /\ Failure(a) \in {"new", "error"}
    BY <1>3, FetchSteps DEF FetchFails, Failure
  <2> QED BY <1>0, <1>3, <2>1, GivesKeeps DEF FetchFails
<1>4. CASE FetchCancelled(a)
  <2>1. act[a].pc \in Fetching
    BY <1>4, FetchSteps DEF FetchCancelled, At
  <2> QED BY <1>0, <1>4, <2>1, GivesKeeps DEF FetchCancelled
<1>5. CASE Replace(a)
  <2>1. act[a].pc = "replace" /\ act[a].pc \in Fetching
    BY <1>5, FetchSteps DEF Replace, At
  <2>2. e \in Episodes
    BY <1>0, <2>1, FetchSteps, RowsStayRows
  <2>3. CASE part[e] # "none"
    <3>1. part[e] \in Contents /\ part[e] # "partial" /\ "none" \in Contents
      BY <1>0, <2>1, <2>2 DEF DInv, Parts, Contents
    <3> QED BY <1>0, <1>5, <2>1, <2>3, <3>1, OwnFilesChange DEF Replace
  <2>4. CASE part[e] = "none" /\ a \in Workers
    BY <1>0, <1>5, <2>1, <2>4, GivesKeeps DEF Replace
  <2>5. CASE part[e] = "none" /\ a \notin Workers
    <3>1. Goes(a, "free") /\ UNCHANGED <<channel, wants, disk, memory, server, leaked, released>>
      BY <1>5, <2>5 DEF Replace
    <3> QED BY <1>0, <1>5, <2>1, <3>1, FetchSteps, RowsStayRows, GoesOnOwning DEF Replace
  <2> QED BY <2>3, <2>4, <2>5
<1>6. CASE Commit(a)
  <2>1. /\ act[a].pc = "commit" /\ act[a].pc \in RelaySteps /\ act[a].pc \in OwningSteps
        /\ act[a].pc \in EpisodeSteps
    BY <1>6, FetchSteps DEF Commit, At
  <2>2. rows' \in [Episodes -> Row]
    <3> [status |-> "completed", stored |-> TRUE] \in Row
      BY DEF Row, Statuses
    <3> QED BY <1>0, <1>6, <2>1, RowsStayRows DEF Commit
  <2> QED BY <1>0, <1>6, <2>1, <2>2, FetchSteps, GoesOnOwning DEF Commit
<1>7. CASE Undo(a)
  <2>1. act[a].pc \in Fetching
    BY <1>7, FetchSteps DEF Undo, At
  <2>2. e \in Episodes
    BY <1>0, <2>1, FetchSteps, RowsStayRows
  <2>3. file[e] \in Contents /\ file[e] # "partial" /\ file' = [file EXCEPT ![e] = file[e]]
    BY <1>0, <1>7, <2>2 DEF Undo, DInv, Parts
  <2> QED BY <1>0, <1>7, <2>1, <2>3, OwnFilesChange DEF Undo, Contents
<1>8. CASE Reset(a)
  <2>1. /\ act[a].pc \in RelaySteps /\ act[a].pc \in OwningSteps /\ act[a].pc \in EpisodeSteps
    BY <1>8, FetchSteps DEF Reset, At
  <2>2. act[a].verdict \in Statuses
    BY <1>0 DEF Acts, Doing, Statuses
  <2> QED BY <1>0, <1>8, <2>1, <2>2, FetchSteps, RowsStayRows, GoesOnOwning DEF Reset
<1>9. CASE Free(a)
  <2>1. act[a].pc = "free" /\ act[a].pc \in RelaySteps /\ act[a].pc \in OwningSteps
    BY <1>9, FetchSteps DEF Free, At
  <2>2. /\ e \in reserved \ leaked
        /\ a \in Threads => e \notin events
        /\ \A b \in Actors \ {a} : act[b].pc \in OwningSteps => act[b].ep # e
        /\ \A i \in 1..Len(jobs) : jobs[i] # e
    BY <1>0, <2>1 DEF DInv, Owned
  <2>3. Acts' /\ act'[a] = Idle /\ OthersSame(a)
    BY <1>0, <1>9, IdleRests, OneActs DEF Free, Rests
  <2>4. reserved' = reserved \ {e} /\ events' \subseteq events /\ UNCHANGED <<jobs, leaked>>
    BY <1>9 DEF Free
  <2>5. cancelled' \subseteq events' /\ events' \subseteq reserved'
    BY <1>0, <1>9, <2>2 DEF Free, DataTypes
  <2>6. DataTypes'
    BY <1>0, <1>9, <2>2, <2>4, <2>5 DEF Free, DataTypes, disk, server
  <2>7. \A b \in Actors : act'[b].pc \in OwningSteps =>
           b # a /\ act[b].pc \in OwningSteps /\ act'[b].ep = act[b].ep /\ act'[b].ep # e
    BY <2>2, <2>3, IdleRests, NotOwning DEF OthersSame
  <2>8. Owned'
    <3>1. \A t \in Threads : act'[t].pc \in RelaySteps => act'[t].ep \notin events'
      <4>1. \A t \in Threads : act'[t].pc \in RelaySteps => act[t].pc \in RelaySteps /\ act'[t].ep = act[t].ep
        BY <2>3, <2>7, Actors3, FetchSteps DEF OthersSame
      <4> QED BY <2>4, <4>1 DEF DInv, Owned
    <3>2. \A b \in Actors : act'[b].pc \in OwningSteps => act'[b].ep \in reserved' \ leaked'
      BY <2>4, <2>7 DEF DInv, Owned
    <3>3. \A i \in 1..Len(jobs') : jobs'[i] \in reserved' \ leaked'
      BY <2>2, <2>4 DEF DInv, Owned
    <3> QED BY <2>4, <2>7, <3>1, <3>2, <3>3 DEF DInv, Owned
  <2>9. Parts'
    BY <1>0, <1>9, <2>3, IdleRests, PartsStay DEF Free, disk
  <2> QED BY <2>3, <2>6, <2>8, <2>9 DEF DInv
<1> QED BY <1>1, <1>2, <1>3, <1>4, <1>5, <1>6, <1>7, <1>8, <1>9 DEF Fetch

-----------------------------------------------------------------------------
(* The maintenance thread, and the process.                                 *)
LEMMA StuckIsReset == ASSUME DataTypes, ResetStuck PROVE rows' \in [Episodes -> Row]
<1>1. \A e \in Episodes : rows[e] \in Row /\ [rows[e] EXCEPT !.status = "new"] \in Row
  BY DEF DataTypes, Row, Statuses
<1> QED BY <1>1 DEF ResetStuck

LEMMA LoopsAre ==
    ASSUME NEW pc \in {"resume", "sweep", "sweepAll"}, NEW es \in SUBSET Episodes
    PROVE  LET x == [Idle EXCEPT !.pc = pc, !.paths = es]
           IN  x \in Doing /\ Shaped(x) /\ x.pc = pc
BY DEF Idle, Doing, Steps, Shaped, EpisodeSteps, OwningSteps, RelaySteps, Fetching

LEMMA MaintenanceKeeps ==
    ASSUME DInv, Resume \/ Sweep \/ Maintain
    PROVE  DInv'
<1> USE Actors3
<1> DEFINE m == act[Maintenance]
<1>0. DataTypes /\ Acts /\ act \in [Actors -> Doing] /\ m \in Doing /\ Shaped(m)
  BY DEF DInv, Acts
<1>1. CASE Resume
  <2> DEFINE again == {e \in Stuck : Wanted(e)}
             x == IF again = {} THEN Idle ELSE [Idle EXCEPT !.pc = "resume", !.paths = again]
  <2>1. again \in SUBSET Episodes
    BY DEF Stuck
  <2> HIDE DEF again
  <2>2. x \in Doing /\ Shaped(x) /\ x.pc \in {"idle", "resume"}
    BY <2>1, IdleRests, LoopsAre
  <2>3. Starts(Maintenance, x)
    BY <1>1 DEF Resume, again
  <2> HIDE DEF x
  <2>4. rows' \in [Episodes -> Row]
    BY <1>0, <1>1, StuckIsReset DEF Resume
  <2> QED BY <1>0, <1>1, <2>2, <2>3, <2>4, NotOwning, StartingIsPlain DEF Resume, DataTypes
<1>2. CASE Sweep
  <2> DEFINE leftover == {e \in Episodes : ~rows[e].stored}
             x == [Idle EXCEPT !.pc = IF channel THEN "sweep" ELSE "sweepAll", !.paths = leftover]
  <2>1. x \in Doing /\ Shaped(x) /\ x.pc \in {"sweep", "sweepAll"}
    <3> DEFINE pc == IF channel THEN "sweep" ELSE "sweepAll"
    <3>1. pc \in {"sweep", "sweepAll"} /\ leftover \in SUBSET Episodes
      OBVIOUS
    <3> HIDE DEF pc, leftover
    <3> QED BY <3>1, LoopsAre DEF pc
  <2>2. Starts(Maintenance, x)
    BY <1>2 DEF Sweep
  <2> HIDE DEF x, leftover
  <2> QED BY <1>0, <1>2, <2>1, <2>2, NotOwning, StartingIsPlain DEF Sweep, DataTypes
<1>3. CASE ResumeNext
  <2> PICK e \in m.paths :
        act' = [act EXCEPT ![Maintenance] = [m EXCEPT !.pc = "reserve", !.ep = e, !.paths = @ \ {e}]]
    BY <1>3 DEF ResumeNext
  <2> DEFINE x == [m EXCEPT !.pc = "reserve", !.ep = e, !.paths = @ \ {e}]
  <2>1. x \in Doing /\ Shaped(x) /\ x.pc = "reserve"
    BY <1>0 DEF Doing, Steps, Shaped
  <2>2. act' = [act EXCEPT ![Maintenance] = x]
    BY <1>0
  <2>3. UNCHANGED <<channel, rows, wants, disk, memory, server, leaked, released>>
    BY <1>3 DEF ResumeNext
  <2> HIDE DEF x
  <2> QED BY <1>0, <2>1, <2>2, <2>3, NotOwning, GoingOnIsPlain, ZenonT(40) DEF DataTypes
<1>4. CASE SweepFile
  <2> PICK e \in m.paths :
        /\ file' = [file EXCEPT ![e] = "none"]
        /\ part' = [part EXCEPT ![e] = "none"] \/ UNCHANGED part
        /\ IF m.paths = {e} THEN Rests(Maintenance)
           ELSE act' = [act EXCEPT ![Maintenance].paths = @ \ {e}]
    BY <1>4 DEF SweepFile
  <2> DEFINE x == IF m.paths = {e} THEN Idle ELSE [m EXCEPT !.paths = @ \ {e}]
  <2>1. m.pc \in {"sweep", "sweepAll"}
    BY <1>4 DEF SweepFile
  <2>2. x \in Doing /\ Shaped(x) /\ x.pc \in {"idle", "sweep", "sweepAll"}
    BY <1>0, <2>1, IdleRests DEF Doing, Shaped
  <2>3. act' = [act EXCEPT ![Maintenance] = x]
    BY <1>0 DEF Rests
  <2> HIDE DEF x
  <2>4. Acts' /\ act'[Maintenance] = x /\ OthersSame(Maintenance)
    BY <1>0, <2>2, <2>3, OneActs
  <2>5. DataTypes'
    BY <1>0, <1>4 DEF SweepFile, DataTypes, memory, server, Contents
  <2>6. Owned'
    BY <1>4, <2>2, <2>4, NotOwning, OwnedStays DEF SweepFile
  <2>7. Parts'
    <3> \A d \in Episodes : part'[d] \in {part[d], "none"} /\ file'[d] \in {file[d], "none"}
      BY <1>0 DEF DataTypes
    <3> QED BY <2>2, <2>4, PartsStay
  <2> QED BY <2>4, <2>5, <2>6, <2>7 DEF DInv
<1> QED BY <1>1, <1>2, <1>3, <1>4 DEF Maintain

(* A crash takes all reservations and all their owners.                     *)
LEMMA CrashKeeps == ASSUME DInv, Crash PROVE DInv'
<1>0. DataTypes /\ crashes < MaxCrashes /\ crashes' = crashes + 1 /\ jobs' = << >>
  BY Zenon DEF DInv, Crash
<1>1. \A a \in Actors : act'[a] \in Doing /\ Shaped(act'[a]) /\ act'[a].pc \in {"idle", "resume"}
  <2> DEFINE again == {e \in Stuck : Wanted(e)}
             x == [Idle EXCEPT !.pc = "resume", !.paths = again]
  <2>1. again \in SUBSET Episodes
    BY DEF Stuck
  <2> HIDE DEF again
  <2>2. x \in Doing /\ Shaped(x) /\ x.pc = "resume"
    BY <2>1, LoopsAre
  <2>3. \A a \in Actors : act'[a] \in {x, Idle}
    BY DEF Crash, again
  <2> QED BY <2>2, <2>3, IdleRests
<1>2. Acts'
  <2> act' = [a \in Actors |-> act'[a]]
    BY DEF Crash
  <2> QED BY <1>1 DEF Acts
<1>3. rows' \in [Episodes -> Row]
  BY <1>0, StuckIsReset DEF Crash
<1>4. DataTypes'
  <2>1. crashes' \in 0..MaxCrashes
    BY <1>0, BoundsAssumption DEF DataTypes
  <2>2. jobs' \in Seq(Episodes)
    BY <1>0
  <2> QED BY <1>0, <1>3, <2>1, <2>2 DEF Crash, DataTypes, disk
<1>5. \A a \in Actors : act'[a].pc \notin OwningSteps /\ act'[a].pc \notin RelaySteps /\ act'[a].pc # "replace"
  BY <1>1, NotOwning
<1>6. Owned'
  <2>1. 1..Len(jobs') = {}
    BY <1>0
  <2> QED BY <1>5, <2>1, Actors3 DEF Owned
<1>7. Parts'
  BY <1>5 DEF Crash, DInv, Parts, disk
<1> QED BY <1>2, <1>4, <1>6, <1>7 DEF DInv

LEMMA DInvInit == Init => DInv
<1> SUFFICES ASSUME Init PROVE DInv
  OBVIOUS
<1>1. DataTypes
  BY BoundsAssumption DEF Init, DataTypes, Row, Statuses, Contents
<1>2. \A a \in Actors : act[a] = Idle
  BY DEF Init
<1>3. Acts
  BY IdleRests DEF Init, Acts
<1>4. Owned /\ Parts
  BY <1>2, IdleRests, NotOwning, Actors3 DEF Init, Owned, Parts
<1> QED BY <1>1, <1>3, <1>4 DEF DInv

LEMMA DInvNext == DInv /\ [Next]_vars => DInv'
<1> SUFFICES ASSUME DInv, [Next]_vars PROVE DInv'
  OBVIOUS
<1>1. CASE Requests
  BY <1>1, RequestsKeep
<1>2. CASE \E t \in Threads : Handler(t)
  BY <1>2, HandlersKeep
<1>3. CASE \E a \in Threads \cup {Maintenance} : Background(a)
  BY <1>3, BackgroundKeeps
<1>4. CASE \E w \in Workers : TakeJob(w)
  BY <1>4, TakeJobKeeps
<1>5. CASE \E a \in Threads \cup Workers : Fetch(a)
  BY <1>5, FetchKeeps
<1>6. CASE Resume \/ Sweep \/ Maintain
  BY <1>6, MaintenanceKeeps
<1>7. CASE Crash
  BY <1>7, CrashKeeps
<1>8. CASE Serve
  <2>1. DataTypes'
    BY <1>8 DEF Serve, DInv, DataTypes, disk, memory
  <2>2. Acts' /\ Owned' /\ Parts'
    BY <1>8 DEF Serve, DInv, Acts, Shaped, Owned, Parts, disk, memory
  <2> QED BY <2>1, <2>2 DEF DInv
<1>9. CASE UNCHANGED vars
  <2>1. DataTypes'
    BY <1>9 DEF vars, DInv, DataTypes, disk, memory, server
  <2>2. Acts' /\ Owned' /\ Parts'
    BY <1>9 DEF vars, DInv, Acts, Shaped, Owned, Parts, disk, memory
  <2> QED BY <2>1, <2>2 DEF DInv
<1> QED BY <1>1, <1>2, <1>3, <1>4, <1>5, <1>6, <1>7, <1>8, <1>9 DEF Next

(* A reservation has at most one owner, whoever takes it, hands it over to  *)
(* the pool or gives it back: the thread that took it, a job in the queue,  *)
(* a worker, or (`leaked`) nobody.                                          *)
THEOREM ReservationsAreOwned == Spec => []Owned
<1>1. DInv => Owned
  BY DEF DInv
<1> QED BY <1>1, DInvInit, DInvNext, PTL DEF Spec

-----------------------------------------------------------------------------
(* What a release spares.  While it has not counted the wants, `spared` are *)
(* users that want the episode; the count ends it if there is one.          *)
Releasing == {"count", "readPath", "clear"}

Spares ==
    \A a \in Actors :
        /\ act[a].pc = "count" => \A u \in act[a].spared : <<u, act[a].ep>> \in wants
        /\ act[a].pc \in {"readPath", "clear"} => act[a].spared = {}

(* Nobody loses a want, and who is in a release was at the same step before. *)
Aside ==
    /\ wants \subseteq wants'
    /\ \A b \in Actors : act'[b] = act[b] \/ act'[b].pc \notin Releasing

LEMMA AsideSpares == ASSUME Spares, Aside PROVE Spares'
BY DEF Spares, Aside, Releasing

(* DELETE FROM podcast_episode_downloads, of the users in `gone`.           *)
LEMMA UnspareSpares ==
    ASSUME Acts, Spares, NEW a \in Actors, NEW x, NEW gone,
           act' = [Unspare(act, gone) EXCEPT ![a] = x], wants' = wants \ gone,
           x.pc \in Releasing => x.pc = "count" /\ \A u \in x.spared : <<u, x.ep>> \in wants'
    PROVE  Spares'
<1>1. \A b \in Actors \ {a} :
         /\ act'[b].pc = act[b].pc /\ act'[b].ep = act[b].ep
         /\ act'[b].spared = {u \in act[b].spared : <<u, act[b].ep>> \notin gone}
  BY DEF Unspare, Acts, Doing
<1>2. act'[a] = x
  BY DEF Unspare
<1>3. ASSUME NEW b \in Actors \ {a}
      PROVE  /\ act'[b].pc = "count" => \A u \in act'[b].spared : <<u, act'[b].ep>> \in wants'
             /\ act'[b].pc \in {"readPath", "clear"} => act'[b].spared = {}
  <2>1. CASE act[b].pc = "count"
    BY <1>1, <2>1 DEF Spares
  <2>2. CASE act[b].pc \in {"readPath", "clear"}
    BY <1>1, <2>2 DEF Spares
  <2> QED BY <1>1, <2>1, <2>2
<1>4. /\ x.pc = "count" => \A u \in x.spared : <<u, x.ep>> \in wants'
      /\ x.pc \notin {"readPath", "clear"}
  BY DEF Releasing
<1> QED BY <1>2, <1>3, <1>4 DEF Spares

LEMMA StepsAside ==
    ASSUME Acts, NEW a \in Actors, wants' = wants,
           \/ Rests(a)
           \/ \E pc \in Steps \ Releasing : Goes(a, pc)
           \/ \E x : act' = [act EXCEPT ![a] = x] /\ x.pc \notin Releasing
    PROVE  Aside
<1>1. act \in [Actors -> Doing]
  BY DEF Acts
<1>2. CASE Rests(a)
  BY <1>1, <1>2 DEF Rests, Aside, Idle, Releasing
<1>3. CASE \E pc \in Steps \ Releasing : Goes(a, pc)
  BY <1>1, <1>3 DEF Goes, Aside, Doing
<1>4. CASE \E x : act' = [act EXCEPT ![a] = x] /\ x.pc \notin Releasing
  BY <1>1, <1>4 DEF Aside
<1> QED BY <1>2, <1>3, <1>4

LEMMA RequestsSpare == ASSUME Acts, Spares, Requests PROVE Spares'
<1> USE Actors3 DEF Releasing
<1>0. act \in [Actors -> Doing]
  BY DEF Acts
<1>1. ASSUME NEW t \in Threads, NEW x, Starts(t, x), x.pc \notin Releasing, wants \subseteq wants'
      PROVE  Aside
  BY <1>0, <1>1 DEF Starts, Aside
<1>2. \A pc, e : Doings(pc, e).pc = pc
  BY DEF Doings, Idle
<1>3. ASSUME NEW t \in Threads, NEW u \in Users, NEW e \in Episodes, Request(t, u, e)
      PROVE  Aside
  <2> DEFINE x == [Doings("look", e) EXCEPT !.user = u]
  <2>1. x.pc = "look"
    BY DEF Doings, Idle
  <2> HIDE DEF x
  <2> QED BY <1>1, <1>3, <2>1 DEF Request, x
<1>4. ASSUME NEW t \in Threads, NEW u \in Users, NEW e \in Episodes, DownloadRecent(t, u, e)
      PROVE  Aside
  <2> DEFINE x == [Doings("want", e) EXCEPT !.user = u]
  <2>1. x.pc = "want"
    BY DEF Doings, Idle
  <2> HIDE DEF x
  <2> QED BY <1>1, <1>4, <2>1 DEF DownloadRecent, x
<1>5. ASSUME NEW t \in Threads, NEW u \in Users, NEW e \in Episodes, Release(t, u, e)
      PROVE  Spares'
  <2> DEFINE x == [Doings("count", e) EXCEPT !.spared = {v \in Users : <<v, e>> \in wants'}]
  <2>1. x.pc = "count" /\ \A v \in x.spared : <<v, x.ep>> \in wants'
    BY DEF Doings, Idle
  <2>2. act' = [Unspare(act, {<<u, e>>}) EXCEPT ![t] = x] /\ wants' = wants \ {<<u, e>>}
    BY <1>5 DEF Release
  <2> HIDE DEF x
  <2> QED BY <2>1, <2>2, UnspareSpares
<1>6. ASSUME NEW t \in Threads, NEW e \in Episodes, AdminDownload(t, e)
      PROVE  Aside
  BY <1>1, <1>2, <1>6 DEF AdminDownload
<1>7. ASSUME NEW t \in Threads, NEW e \in Episodes, Delete(t, e)
      PROVE  Aside
  <2> DEFINE x == [Doings("drop", e) EXCEPT !.paths = IF rows[e].stored THEN {e} ELSE {}]
  <2>1. x.pc = "drop"
    BY DEF Doings, Idle
  <2> HIDE DEF x
  <2> QED BY <1>1, <1>7, <2>1 DEF Delete, x
<1>8. ASSUME NEW t \in Threads, NEW e \in Episodes, Stream(t, e)
      PROVE  Aside
  BY <1>1, <1>2, <1>8 DEF Stream
<1>9. ASSUME NEW t \in Threads, DeleteChannel(t)
      PROVE  Aside
  <2> DEFINE x == [Idle EXCEPT !.pc = "dropChannel", !.paths = {e \in Episodes : rows[e].stored}]
  <2>1. x.pc = "dropChannel"
    BY DEF Idle
  <2> HIDE DEF x
  <2> QED BY <1>1, <1>9, <2>1 DEF DeleteChannel, x
<1>10. ASSUME NEW e \in Episodes, Cancel(e)
       PROVE  Aside
  BY <1>10 DEF Cancel, Aside
<1> QED BY <1>3, <1>4, <1>5, <1>6, <1>7, <1>8, <1>9, <1>10, AsideSpares DEF Requests

LEMMA HandlersSpare == ASSUME DInv, Spares, NEW t \in Threads, Handler(t) PROVE Spares'
<1> USE Actors3
<1>0. Acts /\ act \in [Actors -> Doing]
  BY DEF DInv, Acts
<1>1. {"reserve", "unlink", "relayMark", "connect", "giveUp", "fetching", "free"} \subseteq Steps \ Releasing
  BY DEF Steps, Fetching, Releasing
<1>2. CASE Look(t)
  BY <1>0, <1>1, <1>2, StepsAside, AsideSpares DEF Look
<1>3. CASE Want(t)
  <2> wants \subseteq wants' /\ \A b \in Actors : act'[b] = act[b] \/ act'[b].pc \notin Releasing
    BY <1>0, <1>3 DEF Want, Goes, Rests, Idle, Doing, Releasing
  <2> QED BY AsideSpares DEF Aside
<1>4. CASE Count(t)
  <2>1. CASE Wanted(act[t].ep)
    BY <1>0, <1>4, <2>1, StepsAside, AsideSpares DEF Count
  <2>2. CASE ~Wanted(act[t].ep)
    <3>1. act[t].pc = "count" /\ act[t].spared \subseteq Users
      BY <1>0, <1>4 DEF Count, At, Doing
    <3>2. act[t].spared = {}
      BY <2>2, <3>1 DEF Spares, Wanted
    <3>3. /\ act'[t].pc = "readPath" /\ act'[t].spared = act[t].spared
          /\ \A b \in Actors \ {t} : act'[b] = act[b]
      BY <1>0, <1>4, <2>2 DEF Count, Goes, Doing
    <3>4. wants' = wants
      BY <1>4 DEF Count
    <3> QED BY <3>2, <3>3, <3>4 DEF Spares
  <2> QED BY <2>1, <2>2
<1>5. CASE ReadPath(t)
  <2>1. CASE Rests(t)
    BY <1>0, <1>5, <2>1, StepsAside, AsideSpares DEF ReadPath
  <2>2. CASE Goes(t, "clear")
    <3>1. act[t].spared = {}
      BY <1>5 DEF ReadPath, At, Spares
    <3>2. /\ act'[t].pc = "clear" /\ act'[t].spared = act[t].spared
          /\ \A b \in Actors \ {t} : act'[b] = act[b]
      BY <1>0, <2>2 DEF Goes, Doing
    <3>3. wants' = wants
      BY <1>5 DEF ReadPath
    <3> QED BY <3>1, <3>2, <3>3 DEF Spares
  <2> QED BY <1>5, <2>1, <2>2 DEF ReadPath
<1>6. CASE Clear(t)
  <2> wants \subseteq wants' /\ \A b \in Actors : act'[b] = act[b] \/ act'[b].pc \notin Releasing
    BY <1>0, <1>6 DEF Clear, Doing, Releasing
  <2> QED BY AsideSpares DEF Aside
<1>7. CASE Unlink(t)
  <2> wants \subseteq wants' /\ \A b \in Actors : act'[b] = act[b] \/ act'[b].pc \notin Releasing
    BY <1>0, <1>7 DEF Unlink, At, Rests, Idle, Doing, Releasing
  <2> QED BY AsideSpares DEF Aside
<1>8. CASE Drop(t)
  <2> DEFINE gone == {w \in wants : w[2] = act[t].ep}
             x == IF Unspare(act, gone)[t].paths = {} THEN Idle
                  ELSE [Idle EXCEPT !.pc = "unlink", !.paths = act[t].paths]
  <2>1. x.pc \notin Releasing
    BY DEF Idle, Releasing
  <2>2. act' = [Unspare(act, gone) EXCEPT ![t] = x] /\ wants' = wants \ gone
    BY <1>8 DEF Drop
  <2> HIDE DEF x, gone
  <2> QED BY <1>0, <2>1, <2>2, UnspareSpares
<1>9. CASE DropChannel(t)
  <2> DEFINE x == IF Unspare(act, wants)[t].paths = {} THEN Idle
                  ELSE [Unspare(act, wants)[t] EXCEPT !.pc = "unlink"]
  <2>1. x.pc \notin Releasing
    BY <1>0 DEF Idle, Releasing, Unspare, Doing
  <2>2. act' = [Unspare(act, wants) EXCEPT ![t] = x] /\ wants' = wants \ wants
    BY <1>9 DEF DropChannel
  <2> HIDE DEF x
  <2> QED BY <1>0, <2>1, <2>2, UnspareSpares
<1>10. CASE RelayReserve(t)
  BY <1>0, <1>1, <1>10, StepsAside, AsideSpares DEF RelayReserve
<1>11. CASE RelayMark(t)
  BY <1>0, <1>1, <1>11, StepsAside, AsideSpares DEF RelayMark
<1>12. CASE Connect(t)
  BY <1>0, <1>1, <1>12, StepsAside, AsideSpares DEF Connect
<1>13. CASE GiveUp(t)
  BY <1>0, <1>1, <1>13, StepsAside, AsideSpares DEF GiveUp
<1> QED BY <1>2, <1>3, <1>4, <1>5, <1>6, <1>7, <1>8, <1>9, <1>10, <1>11, <1>12, <1>13 DEF Handler

LEMMA OthersSpare ==
    ASSUME DInv, Spares, Next, ~Requests, ~\E t \in Threads : Handler(t)
    PROVE  Spares'
<1> USE Actors3
<1>0. Acts /\ act \in [Actors -> Doing]
  BY DEF DInv, Acts
<1>1. {"mark", "submit", "writing", "replace", "undo", "commit", "reset", "free"} \subseteq Steps \ Releasing
  BY DEF Steps, Fetching, Releasing
<1>2. ASSUME NEW a \in Actors, Continue(a), wants' = wants
      PROVE  Aside
  <2> DEFINE x == [Idle EXCEPT !.pc = "resume", !.paths = act[a].paths]
  <2>1. x.pc \notin Releasing
    BY DEF Idle, Releasing
  <2>2. Rests(a) \/ act' = [act EXCEPT ![a] = x]
    BY <1>2 DEF Continue
  <2> HIDE DEF x
  <2> QED BY <1>0, <1>2, <2>1, <2>2, StepsAside
<1>3. ASSUME NEW a \in Threads \cup {Maintenance}, Background(a)
      PROVE  Aside
  <2> a \in Actors
    OBVIOUS
  <2>1. CASE Reserve(a)
    BY <1>0, <1>1, <1>2, <2>1, StepsAside DEF Reserve
  <2>2. CASE Mark(a)
    BY <1>0, <1>1, <2>2, StepsAside DEF Mark
  <2>3. CASE Submit(a)
    BY <1>2, <2>3 DEF Submit
  <2> QED BY <1>3, <2>1, <2>2, <2>3 DEF Background
<1>4. ASSUME NEW w \in Workers, TakeJob(w)
      PROVE  Aside
  <2> Doings("fetching", Head(jobs)).pc \notin Releasing
    BY DEF Doings, Idle, Releasing
  <2> QED BY <1>0, <1>4, StepsAside DEF TakeJob
<1>5. ASSUME NEW a \in Threads \cup Workers, Fetch(a)
      PROVE  Aside
  <2> a \in Actors
    OBVIOUS
  <2>1. ASSUME NEW v, Gives(a, "undo", v), wants' = wants
        PROVE  Aside
    <3> wants \subseteq wants' /\ \A b \in Actors : act'[b] = act[b] \/ act'[b].pc \notin Releasing
      BY <1>0, <2>1 DEF Gives, Doing, Releasing
    <3> QED BY DEF Aside
  <2>2. CASE OpenPart(a)
    BY <1>0, <1>1, <2>2, StepsAside DEF OpenPart
  <2>3. CASE WriteAll(a)
    BY <1>0, <1>1, <2>3, StepsAside DEF WriteAll
  <2>4. CASE FetchFails(a)
    BY <2>1, <2>4 DEF FetchFails
  <2>5. CASE FetchCancelled(a)
    BY <2>1, <2>5 DEF FetchCancelled
  <2>6. CASE Replace(a)
    BY <1>0, <1>1, <2>1, <2>6, StepsAside DEF Replace
  <2>7. CASE Commit(a)
    BY <1>0, <1>1, <2>7, StepsAside DEF Commit
  <2>8. CASE Undo(a)
    BY <1>0, <1>1, <2>8, StepsAside DEF Undo
  <2>9. CASE Reset(a)
    BY <1>0, <1>1, <2>9, StepsAside DEF Reset
  <2>10. CASE Free(a)
    BY <1>0, <2>10, StepsAside DEF Free
  <2> QED BY <1>5, <2>2, <2>3, <2>4, <2>5, <2>6, <2>7, <2>8, <2>9, <2>10 DEF Fetch
<1>6. CASE Resume
  <2> DEFINE again == {e \in Stuck : Wanted(e)}
             x == IF again = {} THEN Idle ELSE [Idle EXCEPT !.pc = "resume", !.paths = again]
  <2>1. x.pc \notin Releasing
    BY DEF Idle, Releasing
  <2>2. act' = [act EXCEPT ![Maintenance] = x] /\ wants' = wants
    BY <1>6 DEF Resume, Starts
  <2> HIDE DEF x, again
  <2> QED BY <1>0, <2>1, <2>2, StepsAside, AsideSpares
<1>7. CASE Sweep
  <2> DEFINE x == [Idle EXCEPT !.pc = IF channel THEN "sweep" ELSE "sweepAll",
                               !.paths = {e \in Episodes : ~rows[e].stored}]
  <2>1. x.pc \notin Releasing
    BY DEF Idle, Releasing
  <2>2. act' = [act EXCEPT ![Maintenance] = x] /\ wants' = wants
    BY <1>7 DEF Sweep, Starts
  <2> HIDE DEF x
  <2> QED BY <1>0, <2>1, <2>2, StepsAside, AsideSpares
<1>8. CASE Maintain
  <2> wants \subseteq wants' /\ \A b \in Actors : act'[b] = act[b] \/ act'[b].pc \notin Releasing
    <3>1. CASE ResumeNext
      BY <1>0, <3>1 DEF ResumeNext, Doing, Releasing
    <3>2. CASE SweepFile
      BY <1>0, <3>2 DEF SweepFile, Rests, Idle, Doing, Releasing
    <3> QED BY <1>8, <3>1, <3>2 DEF Maintain
  <2> QED BY AsideSpares DEF Aside
<1>9. CASE Crash
  <2> DEFINE again == {e \in Stuck : Wanted(e)}
             x == [Idle EXCEPT !.pc = "resume", !.paths = again]
  <2>1. x.pc \notin Releasing /\ Idle.pc \notin Releasing
    BY DEF Idle, Releasing
  <2>2. (\A a \in Actors : act'[a] = x \/ act'[a] = Idle) /\ wants' = wants
    BY <1>9 DEF Crash
  <2> HIDE DEF x
  <2> QED BY <2>1, <2>2, AsideSpares DEF Aside
<1>10. CASE Serve
  BY <1>10, AsideSpares DEF Serve, Aside
<1> QED BY <1>3, <1>4, <1>5, <1>6, <1>7, <1>8, <1>9, <1>10, AsideSpares DEF Next

LEMMA SparesStart == Init => Spares
BY DEF Init, Spares, Idle

LEMMA SparesKept == DInv /\ Spares /\ [Next]_vars => Spares'
<1> SUFFICES ASSUME DInv, Spares, [Next]_vars PROVE Spares'
  OBVIOUS
<1>1. CASE Requests
  BY <1>1, RequestsSpare DEF DInv
<1>2. CASE \E t \in Threads : Handler(t)
  BY <1>2, HandlersSpare
<1>3. CASE UNCHANGED vars
  BY <1>3 DEF vars, Spares
<1> QED BY <1>1, <1>2, <1>3, OthersSpare

LEMMA SparesSpare == Spares => ReleaseSpares
BY DEF Spares, ReleaseSpares

(* release_episode_download() takes the file of an episode away only when   *)
(* every user who wanted it when the release began has withdrawn the want   *)
(* (or lost it with the episode) before the count: whatever is requested,   *)
(* released, deleted or restarted in between.                               *)
THEOREM ReleasesSpare == Spec => []ReleaseSpares
BY SparesStart, SparesKept, SparesSpare, DInvInit, DInvNext, PTL DEF Spec

(* However many users ask for, release, delete, cancel and stream episodes, *)
(* and whenever the process dies: an episode is downloaded once at a time   *)
(* (_reserve_download() and relayed_download() share one set under one      *)
(* lock), so no two downloads write to one '.part' file; what os.replace()  *)
(* gives the name of an audio file is a whole file; and a release spares    *)
(* what another user wants.                                                 *)
THEOREM DownloadsAreSound == Spec => []DownloadsSound
<1>1. DInv /\ Spares => DownloadsSound
  <2> SUFFICES ASSUME DInv, Spares PROVE DownloadsSound
    OBVIOUS
  <2>1. TypeOK
    BY DEF DInv, DataTypes, Acts, TypeOK
  <2>2. OneDownload
    BY FetchSteps DEF DInv, Owned, OneDownload
  <2>3. WholeFiles
    BY DEF DInv, Parts, WholeFiles
  <2> QED BY <2>1, <2>2, <2>3, SparesSpare DEF DownloadsSound
<1> QED BY <1>1, SparesStart, SparesKept, DInvInit, DInvNext, PTL DEF Spec

-----------------------------------------------------------------------------
(***************************************************************************)
(* The history of imports. RowsUpTo is what a list of rows keeps when some *)
(* leave and others are added (a part of a list, each element from a place *)
(* of its own, keeps whatever holds of any two elements); FoldersApart is  *)
(* why no album of a run is reported twice: each task has a folder that no *)
(* other task has, nor any report, nor what the run has still to look at.  *)
(***************************************************************************)

IsList(s) == s \in Seq(ToSet(s))

LEMMA ListOf ==
    ASSUME NEW T, NEW s \in Seq(T)
    PROVE  IsList(s) /\ ToSet(s) \subseteq T
<1>1. s \in [1..Len(s) -> T] /\ Len(s) \in Nat BY LenProperties
<1>2. \A i \in 1..Len(s) : s[i] \in ToSet(s) BY <1>1 DEF ToSet
<1>3. s \in [1..Len(s) -> ToSet(s)] BY <1>1, <1>2
<1>4. s \in Seq(ToSet(s)) BY <1>1, <1>3, SeqDef
<1>5. QED BY <1>1, <1>4 DEF IsList, ToSet

(* The elements of t are elements of s, each from a place of its own.       *)
PartOf(t, s) ==
    \E h \in [DOMAIN t -> DOMAIN s] :
        /\ \A k, l \in DOMAIN t : h[k] = h[l] => k = l
        /\ \A k \in DOMAIN t : t[k] = s[h[k]]

LEMMA PartHas ==
    ASSUME NEW s, NEW t, PartOf(t, s)
    PROVE  ToSet(t) \subseteq ToSet(s)
BY DEF PartOf, ToSet

LEMMA KeptIsPart ==
    ASSUME NEW s, IsList(s), NEW I
    PROVE  IsList(Kept(s, I)) /\ PartOf(Kept(s, I), s)
<1>1. s \in Seq(ToSet(s)) BY DEF IsList
<1>2. Kept(s, I) \in Seq(ToSet(s)) BY <1>1, KeptOf
<1>3. PICK h : IsPlaces(h, s, I) BY <1>1, KeptPlaces
<1>4. DOMAIN Kept(s, I) = 1..Len(Kept(s, I)) /\ Len(Kept(s, I)) \in Nat BY <1>2, LenProperties
<1> DEFINE t == Kept(s, I)
<1> HIDE DEF t
<1>5. /\ h \in [DOMAIN t -> DOMAIN s]
      /\ \A k \in DOMAIN t : t[k] = s[h[k]]
      /\ \A k, l \in DOMAIN t : k < l => h[k] < h[l]
  BY <1>3 DEF IsPlaces, t
<1>6. DOMAIN s = 1..Len(s) BY <1>1, LenProperties
<1>7. ASSUME NEW k \in DOMAIN t, NEW l \in DOMAIN t, h[k] = h[l] PROVE k = l
  <2>1. k \in Int /\ l \in Int /\ h[k] \in Int BY <1>4, <1>5, <1>6 DEF t
  <2>2. ~(k < l) /\ ~(l < k) BY <1>5, <1>7, <2>1
  <2>3. QED BY <2>1, <2>2
<1>8. PartOf(t, s) BY <1>5, <1>7 DEF PartOf
<1>9. QED BY <1>2, <1>8, ListOf DEF t

LEMMA NewestIsPart ==
    ASSUME NEW s, IsList(s)
    PROVE  IsList(NewestRows(s)) /\ PartOf(NewestRows(s), s)
<1> DEFINE n == Len(s)
           d == n - HistoryMaxRows
<1>0. HistoryMaxRows \in Nat \ {0} BY HistoryAssumption
<1>1. s \in Seq(ToSet(s)) BY DEF IsList
<1>2. n \in Nat /\ DOMAIN s = 1..n /\ \A i \in 1..n : s[i] \in ToSet(s) BY <1>1, LenProperties
<1>3. CASE ~(n > HistoryMaxRows)
  <2>1. NewestRows(s) = s BY <1>3 DEF NewestRows
  <2>2. [k \in DOMAIN s |-> k] \in [DOMAIN s -> DOMAIN s] OBVIOUS
  <2>3. PartOf(s, s)
    <3> DEFINE h == [k \in DOMAIN s |-> k]
    <3>1. h \in [DOMAIN s -> DOMAIN s] /\ \A k \in DOMAIN s : h[k] = k OBVIOUS
    <3> HIDE DEF h
    <3>2. QED BY <3>1 DEF PartOf
  <2>4. QED BY <2>1, <2>3
<1>4. CASE n > HistoryMaxRows
  <2> DEFINE t == SubSeq(s, d + 1, n)
             h == [k \in 1..HistoryMaxRows |-> d + k]
  <2>1. d \in Nat /\ d + 1 \in Int /\ n \in Int /\ d + 1 <= n /\ n - (d + 1) + 1 = HistoryMaxRows
    BY <1>0, <1>2, <1>4
  <2>2. \A i \in (d + 1)..n : s[i] \in ToSet(s) BY <1>2, <2>1
  <2>3. /\ t \in Seq(ToSet(s)) /\ Len(t) = HistoryMaxRows
        /\ \A i \in 1..HistoryMaxRows : t[i] = s[(d + 1) + i - 1]
    <3> HIDE DEF n, d
    <3>1. /\ t \in Seq(ToSet(s)) /\ Len(t) = n - (d + 1) + 1
          /\ \A i \in 1..(n - (d + 1) + 1) : t[i] = s[(d + 1) + i - 1]
      BY <2>1, <2>2, SubSeqProperties
    <3>2. QED BY <2>1, <3>1
  <2>4. DOMAIN t = 1..HistoryMaxRows BY <2>3, LenProperties
  <2>5. h \in [1..HistoryMaxRows -> DOMAIN s] BY <1>0, <1>2, <1>4
  <2>6. \A k \in 1..HistoryMaxRows : t[k] = s[h[k]]
    <3>1. ASSUME NEW k \in 1..HistoryMaxRows PROVE (d + 1) + k - 1 = d + k BY <1>0, <2>1
    <3>2. QED BY <2>3, <3>1
  <2>7. \A k, l \in 1..HistoryMaxRows : h[k] = h[l] => k = l BY <1>0, <2>1
  <2> HIDE DEF t, h, n, d
  <2>8. PartOf(t, s)
    <3>1. /\ h \in [DOMAIN t -> DOMAIN s]
          /\ \A k, l \in DOMAIN t : h[k] = h[l] => k = l
          /\ \A k \in DOMAIN t : t[k] = s[h[k]]
      BY <2>4, <2>5, <2>6, <2>7
    <3>2. QED BY <3>1, Zenon DEF PartOf
  <2>9. IsList(t) BY <2>3, ListOf
  <2>10. QED BY <1>4, <2>8, <2>9 DEF NewestRows, t, n, d
<1>5. QED BY <1>3, <1>4

LEMMA RestIsPart ==
    ASSUME NEW s, IsList(s), NEW i \in DOMAIN s
    PROVE  IsList(RemoveAt(s, i)) /\ PartOf(RemoveAt(s, i), s)
<1> DEFINE n == Len(s)
           a == SubSeq(s, 1, i - 1)
           b == SubSeq(s, i + 1, n)
           h == [k \in 1..(n - 1) |-> IF k < i THEN k ELSE k + 1]
<1>1. s \in Seq(ToSet(s)) BY DEF IsList
<1>2. n \in Nat /\ DOMAIN s = 1..n /\ \A k \in 1..n : s[k] \in ToSet(s) BY <1>1, LenProperties
<1>3. i \in 1..n BY <1>2
<1> HIDE DEF n
<1>4. a \in Seq(ToSet(s)) /\ Len(a) = i - 1 /\ \A k \in 1..(i - 1) : a[k] = s[k]
  <2>1. \A k \in 1..(i - 1) : s[k] \in ToSet(s) BY <1>2, <1>3
  <2>2. /\ a \in Seq(ToSet(s)) /\ Len(a) = (IF 1 <= i - 1 THEN i - 1 - 1 + 1 ELSE 0)
        /\ \A k \in 1..(i - 1 - 1 + 1) : a[k] = s[1 + k - 1]
    BY <1>2, <1>3, <2>1, SubSeqProperties
  <2> HIDE DEF a
  <2>3. Len(a) = i - 1 BY <1>2, <1>3, <2>2
  <2>4. ASSUME NEW k \in 1..(i - 1) PROVE a[k] = s[k]
    <3>1. i - 1 - 1 + 1 = i - 1 /\ 1 + k - 1 = k BY <1>2, <1>3
    <3>2. QED BY <2>2, <3>1
  <2>5. QED BY <2>2, <2>3, <2>4
<1>5. b \in Seq(ToSet(s)) /\ Len(b) = n - i /\ \A k \in 1..(n - i) : b[k] = s[k + i]
  <2>1. \A k \in (i + 1)..n : s[k] \in ToSet(s) BY <1>2, <1>3
  <2>2. /\ b \in Seq(ToSet(s)) /\ Len(b) = (IF i + 1 <= n THEN n - (i + 1) + 1 ELSE 0)
        /\ \A k \in 1..(n - (i + 1) + 1) : b[k] = s[(i + 1) + k - 1]
    BY <1>2, <1>3, <2>1, SubSeqProperties
  <2> HIDE DEF b
  <2>3. Len(b) = n - i BY <1>2, <1>3, <2>2
  <2>4. ASSUME NEW k \in 1..(n - i) PROVE b[k] = s[k + i]
    <3>1. n - (i + 1) + 1 = n - i /\ (i + 1) + k - 1 = k + i BY <1>2, <1>3
    <3>2. QED BY <2>2, <3>1
  <2>5. QED BY <2>2, <2>3, <2>4
<1>6. RemoveAt(s, i) = a \o b BY DEF RemoveAt, n
<1> DEFINE t == a \o b
<1> HIDE DEF a, b
<1>7. /\ t \in Seq(ToSet(s)) /\ Len(t) = (i - 1) + (n - i)
      /\ \A k \in 1..((i - 1) + (n - i)) : t[k] = (IF k <= i - 1 THEN a[k] ELSE b[k - (i - 1)])
  <2>1. a \in Seq(ToSet(s)) /\ b \in Seq(ToSet(s)) BY <1>4, <1>5
  <2>2. /\ t \in Seq(ToSet(s)) /\ Len(t) = Len(a) + Len(b)
        /\ \A k \in 1..(Len(a) + Len(b)) : t[k] = (IF k <= Len(a) THEN a[k] ELSE b[k - Len(a)])
    BY <2>1, ConcatProperties
  <2> HIDE DEF t
  <2>3. QED BY <1>4, <1>5, <2>2
<1> HIDE DEF t
<1>8. (i - 1) + (n - i) = n - 1 BY <1>2, <1>3
<1>9. DOMAIN t = 1..(n - 1) BY <1>7, <1>8, LenProperties
<1>10. ASSUME NEW k \in 1..(n - 1) PROVE t[k] = s[h[k]]
  <2>1. t[k] = (IF k <= i - 1 THEN a[k] ELSE b[k - (i - 1)]) BY <1>7, <1>8
  <2>2. CASE k < i BY <1>2, <1>3, <1>4, <2>1, <2>2
  <2>3. CASE ~(k < i)
    <3>1. ~(k <= i - 1) /\ k - (i - 1) \in 1..(n - i) /\ (k - (i - 1)) + i = k + 1
      BY <1>2, <1>3, <2>3
    <3>2. QED BY <1>5, <2>1, <2>3, <3>1
  <2>4. QED BY <2>2, <2>3
<1>11. h \in [1..(n - 1) -> DOMAIN s]
  <2>1. ASSUME NEW k \in 1..(n - 1) PROVE (IF k < i THEN k ELSE k + 1) \in DOMAIN s BY <1>2, <1>3
  <2>2. QED BY <2>1
<1>12. \A k, l \in 1..(n - 1) : h[k] = h[l] => k = l BY <1>2, <1>3
<1> HIDE DEF h
<1>13. PartOf(t, s)
  <2>1. /\ h \in [DOMAIN t -> DOMAIN s]
        /\ \A k, l \in DOMAIN t : h[k] = h[l] => k = l
        /\ \A k \in DOMAIN t : t[k] = s[h[k]]
    BY <1>9, <1>10, <1>11, <1>12
  <2>2. QED BY <2>1, Zenon DEF PartOf
<1>14. QED BY <1>6, <1>7, <1>13, ListOf DEF t

-----------------------------------------------------------------------------
(* Two rows that do not both tell the last outcome; lists without such rows.*)
Clash(x, y) ==
    /\ y.event = "skipped"
    /\ \/ x.event = "skipped" /\ x.path = y.path
       \/ x.event = "imported" /\ y.run <= x.run /\ Below(y.path, x.path)

Apart(s) == \A i, j \in DOMAIN s : i # j => ~Clash(s[i], s[j])

LEMMA PartIsApart ==
    ASSUME NEW s, NEW t, PartOf(t, s), Apart(s)
    PROVE  Apart(t)
<1>1. PICK h \in [DOMAIN t -> DOMAIN s] :
         /\ \A k, l \in DOMAIN t : h[k] = h[l] => k = l
         /\ \A k \in DOMAIN t : t[k] = s[h[k]]
  BY DEF PartOf
<1>2. ASSUME NEW k \in DOMAIN t, NEW l \in DOMAIN t, k # l PROVE ~Clash(t[k], t[l])
  <2>1. h[k] \in DOMAIN s /\ h[l] \in DOMAIN s /\ h[k] # h[l] BY <1>1, <1>2
  <2>2. ~Clash(s[h[k]], s[h[l]]) BY <2>1 DEF Apart
  <2>3. QED BY <1>1, <2>2
<1>3. QED BY <1>2 DEF Apart

LEMMA JoinedIsApart ==
    ASSUME NEW s, NEW t, IsList(s), IsList(t), Apart(s), Apart(t),
           \A x \in ToSet(s), y \in ToSet(t) : ~Clash(x, y) /\ ~Clash(y, x)
    PROVE  IsList(s \o t) /\ Apart(s \o t) /\ ToSet(s \o t) \subseteq ToSet(s) \cup ToSet(t)
<1> DEFINE T == ToSet(s) \cup ToSet(t)
           j == s \o t
<1>1. s \in Seq(T) /\ t \in Seq(T)
  <2>1. ToSet(s) \subseteq T /\ ToSet(t) \subseteq T OBVIOUS
  <2>2. QED BY <2>1, SeqMonotonic DEF IsList
<1> HIDE DEF T
<1>2. /\ j \in Seq(T) /\ Len(j) = Len(s) + Len(t)
      /\ \A i \in 1..(Len(s) + Len(t)) : j[i] = (IF i <= Len(s) THEN s[i] ELSE t[i - Len(s)])
  BY <1>1, ConcatProperties
<1> HIDE DEF j
<1>3. /\ DOMAIN s = 1..Len(s) /\ DOMAIN t = 1..Len(t) /\ DOMAIN j = 1..Len(j)
      /\ Len(s) \in Nat /\ Len(t) \in Nat
  BY <1>1, <1>2, LenProperties
<1>4. \A i \in DOMAIN j : \/ i \in DOMAIN s /\ j[i] = s[i]
                          \/ ~(i \in DOMAIN s) /\ i - Len(s) \in DOMAIN t /\ j[i] = t[i - Len(s)]
  BY <1>2, <1>3
<1>5. \A i, k \in DOMAIN j : i # k => i - Len(s) # k - Len(s) BY <1>3
<1>6. ASSUME NEW i \in DOMAIN j, NEW k \in DOMAIN j, i # k PROVE ~Clash(j[i], j[k])
  <2>1. CASE i \in DOMAIN s /\ k \in DOMAIN s BY <1>4, <1>6, <2>1 DEF Apart
  <2>2. CASE i \in DOMAIN s /\ ~(k \in DOMAIN s)
    <3>1. j[i] \in ToSet(s) /\ j[k] \in ToSet(t) BY <1>4, <2>2 DEF ToSet
    <3>2. QED BY <3>1
  <2>3. CASE ~(i \in DOMAIN s) /\ k \in DOMAIN s
    <3>1. j[k] \in ToSet(s) /\ j[i] \in ToSet(t) BY <1>4, <2>3 DEF ToSet
    <3>2. QED BY <3>1
  <2>4. CASE ~(i \in DOMAIN s) /\ ~(k \in DOMAIN s)
    <3>1. i - Len(s) # k - Len(s) BY <1>5, <1>6
    <3>2. QED BY <1>4, <2>4, <3>1 DEF Apart
  <2>5. QED BY <2>1, <2>2, <2>3, <2>4
<1>7. Apart(j) BY <1>6 DEF Apart
<1>8. IsList(j) /\ ToSet(j) \subseteq T BY <1>2, ListOf
<1>9. QED BY <1>7, <1>8 DEF j, T

(* The rows of a history whose last run was the n-th.                       *)
RowsUpTo(s, n) ==
    /\ IsList(s) /\ Apart(s)
    /\ \A x \in ToSet(s) : x.run \in Nat /\ x.run <= n

LEMMA PartIsUpTo ==
    ASSUME NEW n, NEW s, NEW t, RowsUpTo(s, n), IsList(t), PartOf(t, s)
    PROVE  RowsUpTo(t, n)
BY PartHas, PartIsApart DEF RowsUpTo

-----------------------------------------------------------------------------
(* What record_run() makes of the reports of a run.                         *)
LEMMA OfAre ==
    ASSUME NEW records, IsList(records), NEW event
    PROVE  /\ IsList(Of(event, records))
           /\ \A x \in ToSet(Of(event, records)) : x \in ToSet(records) /\ x.event = event
<1> DEFINE I == {i \in DOMAIN records : records[i].event = event}
<1>1. Of(event, records) = Kept(records, I) BY DEF Of
<1>2. records \in Seq(ToSet(records)) BY DEF IsList
<1>3. I \cap DOMAIN records = I OBVIOUS
<1>4. ToSet(Kept(records, I)) = {records[i] : i \in I} BY <1>2, <1>3, KeptElements
<1>5. \A i \in I : records[i].event = event /\ records[i] \in ToSet(records) BY DEF ToSet
<1> HIDE DEF I
<1>6. IsList(Kept(records, I)) BY KeptIsPart
<1>7. QED BY <1>1, <1>4, <1>5, <1>6

LEMMA ImportedAre ==
    ASSUME NEW records, IsList(records)
    PROVE  /\ IsList(Imported(records))
           /\ \A x \in ToSet(Imported(records)) : x \in ToSet(records) /\ x.event = "imported"
<1> DEFINE o == Of("imported", records)
<1>1. IsList(o) /\ \A x \in ToSet(o) : x \in ToSet(records) /\ x.event = "imported" BY OfAre
<1> HIDE DEF o
<1>2. IsList(MergeImports(o)) /\ PartOf(MergeImports(o), o) BY <1>1, KeptIsPart DEF MergeImports
<1>3. QED BY <1>1, <1>2, PartHas DEF Imported, o

LEMMA SkippedAre ==
    ASSUME NEW records, IsList(records)
    PROVE  /\ IsList(SkippedOf(records))
           /\ \A x \in ToSet(SkippedOf(records)) :
                x \in ToSet(records) /\ x.event = "skipped" /\ ~SettledPath(x.path, Settled(records))
           /\ \A k, l \in DOMAIN SkippedOf(records) :
                k # l => SkippedOf(records)[k].path # SkippedOf(records)[l].path
<1> DEFINE o == Of("skipped", records)
           I == {i \in DOMAIN o : /\ ~\E j \in DOMAIN o : j > i /\ o[j].path = o[i].path
                                  /\ ~SettledPath(o[i].path, Settled(records))}
           t == Kept(o, I)
<1>1. t = SkippedOf(records) BY DEF SkippedOf
<1>2. IsList(o) /\ \A x \in ToSet(o) : x \in ToSet(records) /\ x.event = "skipped" BY OfAre
<1>3. /\ I \cap DOMAIN o = I
      /\ \A i \in I : /\ i \in DOMAIN o /\ o[i] \in ToSet(o) /\ ~SettledPath(o[i].path, Settled(records))
                      /\ \A j \in DOMAIN o : j > i => o[j].path # o[i].path
  BY DEF ToSet
<1> HIDE DEF o, I
<1>4. IsList(t) BY <1>2, KeptIsPart
<1>5. o \in Seq(ToSet(o)) BY <1>2 DEF IsList
<1>6. ToSet(t) = {o[i] : i \in I} BY <1>3, <1>5, KeptElements
<1>7. PICK h : IsPlaces(h, o, I) BY <1>5, KeptPlaces
<1> HIDE DEF t
<1>8. /\ \A k \in DOMAIN t : t[k] = o[h[k]] /\ h[k] \in I
      /\ \A k, l \in DOMAIN t : k < l => h[k] < h[l]
  BY <1>3, <1>7 DEF IsPlaces, t
<1>9. DOMAIN t = 1..Len(t) /\ DOMAIN o = 1..Len(o) BY <1>4, <1>5, LenProperties DEF IsList
<1>10. ASSUME NEW k \in DOMAIN t, NEW l \in DOMAIN t, k < l PROVE t[k].path # t[l].path
  <2>1. h[l] > h[k] /\ h[l] \in DOMAIN o
    <3>1. h[k] \in DOMAIN o /\ h[l] \in DOMAIN o BY <1>3, <1>8
    <3>2. h[k] \in Int /\ h[l] \in Int BY <1>9, <3>1
    <3>3. h[k] < h[l] BY <1>8, <1>10
    <3>4. QED BY <3>1, <3>2, <3>3
  <2>2. QED BY <1>3, <1>8, <2>1
<1>11. ASSUME NEW k \in DOMAIN t, NEW l \in DOMAIN t, k # l PROVE t[k].path # t[l].path
  <2>1. k \in Int /\ l \in Int BY <1>9
  <2>2. k < l \/ l < k BY <1>11, <2>1
  <2>3. QED BY <1>10, <2>2
<1>12. QED BY <1>1, <1>2, <1>3, <1>4, <1>6, <1>11

Reported(records) == Imported(records) \o SkippedOf(records)
AddedOf(records)  == [i \in DOMAIN Reported(records) |-> RowOf(Reported(records)[i])]

LEMMA NewRows ==
    ASSUME NEW records, IsList(records)
    PROVE  /\ IsList(AddedOf(records)) /\ Apart(AddedOf(records))
           /\ \A y \in ToSet(AddedOf(records)) :
                \E x \in ToSet(Imported(records)) \cup ToSet(SkippedOf(records)) : y = RowOf(x)
<1> DEFINE a == Imported(records)
           b == SkippedOf(records)
           T == ToSet(a) \cup ToSet(b)
           new   == Reported(records)
           added == AddedOf(records)
<1>1. /\ IsList(a) /\ \A x \in ToSet(a) : x.event = "imported"
      /\ IsList(b) /\ \A x \in ToSet(b) : x.event = "skipped" /\ ~SettledPath(x.path, Settled(records))
      /\ \A k, l \in DOMAIN b : k # l => b[k].path # b[l].path
  BY ImportedAre, SkippedAre
<1>2. \A x \in ToSet(a), y \in ToSet(b) : ~Below(y.path, x.path)
  <2>1. \A x \in ToSet(a) : x.path \in Settled(records) BY DEF Settled
  <2>2. QED BY <1>1, <2>1 DEF SettledPath
<1>3. new = a \o b BY DEF Reported
<1>0. added = [i \in DOMAIN new |-> RowOf(new[i])] BY DEF AddedOf
<1> HIDE DEF a, b, new, added
<1>4. a \in Seq(T) /\ b \in Seq(T)
  <2>1. ToSet(a) \subseteq T /\ ToSet(b) \subseteq T OBVIOUS
  <2>2. QED BY <1>1, <2>1, SeqMonotonic DEF IsList
<1>5. /\ new \in Seq(T) /\ Len(new) = Len(a) + Len(b)
      /\ \A i \in 1..(Len(a) + Len(b)) : new[i] = (IF i <= Len(a) THEN a[i] ELSE b[i - Len(a)])
  <2> HIDE DEF T
  <2>1. QED BY <1>3, <1>4, ConcatProperties
<1>6. /\ DOMAIN a = 1..Len(a) /\ DOMAIN b = 1..Len(b) /\ DOMAIN new = 1..Len(new)
      /\ Len(a) \in Nat /\ Len(b) \in Nat /\ Len(new) \in Nat
  <2> HIDE DEF T
  <2>1. QED BY <1>4, <1>5, LenProperties
<1>7. \A i \in DOMAIN new :
          \/ new[i] \in ToSet(a)
          \/ i - Len(a) \in DOMAIN b /\ new[i] = b[i - Len(a)] /\ new[i] \in ToSet(b)
  <2>1. \A i \in DOMAIN new : \/ i \in DOMAIN a /\ new[i] = a[i]
                              \/ i - Len(a) \in DOMAIN b /\ new[i] = b[i - Len(a)]
    BY <1>5, <1>6
  <2>2. QED BY <2>1 DEF ToSet
<1>8. \A i, k \in DOMAIN new : i # k => i - Len(a) # k - Len(a) BY <1>6
<1>9. DOMAIN added = DOMAIN new /\ \A i \in DOMAIN new : added[i] = RowOf(new[i]) BY <1>0
<1>10. \A x : /\ RowOf(x).event = x.event /\ RowOf(x).path = x.path
  BY DEF RowOf
<1>11. ASSUME NEW i \in DOMAIN new, NEW k \in DOMAIN new, i # k PROVE ~Clash(RowOf(new[i]), RowOf(new[k]))
  <2>1. CASE new[k] \in ToSet(a) BY <1>1, <1>10, <2>1 DEF Clash
  <2>2. CASE new[i] \in ToSet(a) /\ new[k] \in ToSet(b) BY <1>1, <1>2, <1>10, <2>2 DEF Clash
  <2>3. CASE /\ i - Len(a) \in DOMAIN b /\ new[i] = b[i - Len(a)] /\ new[i] \in ToSet(b)
             /\ k - Len(a) \in DOMAIN b /\ new[k] = b[k - Len(a)] /\ new[k] \in ToSet(b)
    <3>1. new[i].path # new[k].path BY <1>1, <1>8, <1>11, <2>3
    <3>2. new[i].event = "skipped" BY <1>1, <2>3
    <3>3. QED BY <1>10, <3>1, <3>2 DEF Clash
  <2>4. QED BY <1>7, <2>1, <2>2, <2>3
<1>12. Apart(added) BY <1>9, <1>11 DEF Apart
<1>13. added \in Seq({RowOf(x) : x \in T})
  <2>1. \A i \in DOMAIN new : new[i] \in T BY <1>7
  <2>2. added \in [1..Len(new) -> {RowOf(x) : x \in T}] BY <1>0, <1>6, <1>9, <2>1
  <2>3. QED BY <1>6, <2>2, SeqDef
<1>14. IsList(added) /\ ToSet(added) \subseteq {RowOf(x) : x \in T} BY <1>13, ListOf
<1>15. QED BY <1>12, <1>14 DEF a, b, added

LEMMA AddedRows ==
    ASSUME NEW records, IsList(records), runs \in Nat, RowsUpTo(outcomes, runs - 1), RecordRun(records)
    PROVE  RowsUpTo(outcomes', runs)
<1> DEFINE settled == Settled(records)
           skipped == SkippedOf(records)
           again   == {r.path : r \in ToSet(skipped)}
           I       == {i \in DOMAIN outcomes : ~Superseded(outcomes[i], settled, again)}
           kept    == Kept(outcomes, I)
           added   == AddedOf(records)
<1>1. \/ outcomes' = outcomes
      \/ outcomes' = NewestRows(kept \o added)
  BY DEF RecordRun, AddedOf, Reported
<1>2. outcomes \in Seq(ToSet(outcomes)) /\ IsList(outcomes) BY DEF RowsUpTo, IsList
<1>3. I \cap DOMAIN outcomes = I OBVIOUS
<1>4. \A x \in ToSet(kept) : x \in ToSet(outcomes) /\ ~Superseded(x, settled, again)
  <2>1. \A i \in I : outcomes[i] \in ToSet(outcomes) /\ ~Superseded(outcomes[i], settled, again) BY DEF ToSet
  <2> HIDE DEF I
  <2>2. ToSet(kept) = {outcomes[i] : i \in I} BY <1>2, <1>3, KeptElements
  <2> HIDE DEF kept
  <2>3. QED BY <2>1, <2>2
<1>5. RowsUpTo(kept, runs - 1)
  <2> HIDE DEF I
  <2>1. IsList(kept) /\ PartOf(kept, outcomes) BY <1>2, KeptIsPart
  <2> HIDE DEF kept
  <2>2. QED BY <2>1, PartIsUpTo
<1>6. /\ IsList(added) /\ Apart(added)
      /\ \A y \in ToSet(added) : \E x \in ToSet(Imported(records)) \cup ToSet(skipped) : y = RowOf(x)
  BY NewRows
<1> HIDE DEF kept, added, I
<1>7. ASSUME NEW y \in ToSet(added)
      PROVE  /\ y.run = runs
             /\ y.event = "imported" => y.path \in settled
             /\ y.event = "skipped" => y.path \in again
  <2>1. PICK x \in ToSet(Imported(records)) \cup ToSet(skipped) : y = RowOf(x) BY <1>6
  <2>2. y.run = runs /\ y.event = x.event /\ y.path = x.path BY <2>1 DEF RowOf
  <2>3. /\ \A z \in ToSet(Imported(records)) : z.event = "imported"
        /\ \A z \in ToSet(skipped) : z.event = "skipped"
    BY ImportedAre, SkippedAre
  <2>4. CASE x \in ToSet(Imported(records)) BY <2>2, <2>3, <2>4 DEF Settled
  <2>5. CASE x \in ToSet(skipped) BY <2>2, <2>3, <2>5
  <2>6. QED BY <2>1, <2>4, <2>5
<1>8. ASSUME NEW x \in ToSet(kept), NEW y \in ToSet(added)
      PROVE  ~Clash(x, y) /\ ~Clash(y, x)
  <2>1. ~Superseded(x, settled, again) /\ x \in ToSet(outcomes) BY <1>4
  <2>2. x.run \in Nat /\ x.run <= runs - 1 BY <2>1 DEF RowsUpTo
  <2>3. ~(y.run <= x.run) BY <1>7, <2>2
  <2>4. x.event = "skipped" => ~(x.path \in again) /\ \A f \in settled : ~Below(x.path, f)
    BY <2>1 DEF Superseded, SettledPath
  <2>5. ~Clash(x, y) BY <1>7, <2>3, <2>4 DEF Clash
  <2>6. ~Clash(y, x) BY <1>7, <2>4 DEF Clash
  <2>7. QED BY <2>5, <2>6
<1>9. IsList(kept) /\ Apart(kept) BY <1>5 DEF RowsUpTo
<1>10. /\ IsList(kept \o added) /\ Apart(kept \o added)
       /\ ToSet(kept \o added) \subseteq ToSet(kept) \cup ToSet(added)
  BY <1>6, <1>8, <1>9, JoinedIsApart
<1>11. RowsUpTo(kept \o added, runs)
  <2>1. \A x \in ToSet(kept) : x.run \in Nat /\ x.run <= runs BY <1>5 DEF RowsUpTo
  <2>2. \A y \in ToSet(added) : y.run \in Nat /\ y.run <= runs BY <1>7
  <2>3. QED BY <1>10, <2>1, <2>2 DEF RowsUpTo
<1>12. RowsUpTo(outcomes, runs) BY DEF RowsUpTo
<1> DEFINE j == kept \o added
<1>13. IsList(j) BY <1>10
<1> HIDE DEF j
<1>14. IsList(NewestRows(j)) /\ PartOf(NewestRows(j), j) BY <1>13, NewestIsPart
<1>15. RowsUpTo(NewestRows(j), runs) BY <1>11, <1>14, PartIsUpTo DEF j
<1>16. QED BY <1>1, <1>12, <1>15 DEF j

-----------------------------------------------------------------------------
(* The tasks of a run, by their folders.                                    *)
InReport(f, rs) == \E r \in ToSet(rs) : r.event = "imported" /\ f \in r.folders

FoldersApart(left, ts, rs) ==
    /\ \A f \in left : ~InReport(f, rs) /\ \A k \in DOMAIN ts : f \notin ts[k]
    /\ \A k \in DOMAIN ts : \E f \in ts[k] :
         f \notin left /\ ~InReport(f, rs) /\ \A l \in DOMAIN ts \ {k} : f \notin ts[l]

Unfinished(ps, rs) ==
    \A k \in DOMAIN ps, r \in ToSet(rs) : r.event = "imported" => ~(ps[k] \subseteq r.folders)

NoneLeft(rs) == \A s \in ToSet(rs) : s.cause # "duplicate"

TasksHold ==
    /\ IsList(results) /\ IsFiniteSet(DOMAIN pending)
    /\ FoldersApart(todo, tasks, results) /\ Unfinished(pending, results)
    /\ runPath = NoRun => todo = {} /\ DOMAIN tasks = {}
    /\ runPath # NoRun => NoneLeft(results)
    /\ ReportsAgree

RowsHold == runs \in Nat /\ RowsUpTo(outcomes, IF runPath = NoRun THEN runs ELSE runs - 1)

HistoryInv == RowsHold /\ TasksHold

LEMMA OneMore ==
    ASSUME NEW s, IsList(s), NEW x
    PROVE  IsList(Append(s, x)) /\ ToSet(Append(s, x)) = ToSet(s) \cup {x}
<1> DEFINE T == ToSet(s) \cup {x}
           t == Append(s, x)
<1>1. s \in Seq(T) /\ x \in T
  <2>1. ToSet(s) \subseteq T OBVIOUS
  <2>2. QED BY <2>1, SeqMonotonic DEF IsList
<1> HIDE DEF T
<1>2. /\ t \in Seq(T) /\ Len(t) = Len(s) + 1
      /\ \A i \in 1..Len(s) : t[i] = s[i]
      /\ t[Len(s) + 1] = x
  BY <1>1, AppendProperties
<1> HIDE DEF t
<1>3. /\ DOMAIN s = 1..Len(s) /\ DOMAIN t = 1..Len(t) /\ Len(s) \in Nat BY <1>1, <1>2, LenProperties
<1>4. \A i \in DOMAIN s : i \in DOMAIN t /\ t[i] = s[i] BY <1>2, <1>3
<1>5. Len(s) + 1 \in DOMAIN t BY <1>2, <1>3
<1>6. T \subseteq ToSet(t) BY <1>2, <1>4, <1>5 DEF T, ToSet
<1>7. IsList(t) /\ ToSet(t) \subseteq T BY <1>2, ListOf
<1>8. QED BY <1>6, <1>7 DEF t, T

LEMMA SomeMore ==
    ASSUME NEW s, IsList(s), NEW S, IsFiniteSet(S)
    PROVE  IsList(s \o SetToSeq(S)) /\ ToSet(s \o SetToSeq(S)) \subseteq ToSet(s) \cup S
<1> DEFINE T == ToSet(s) \cup S
           n == Cardinality(S)
           u == SetToSeq(S)
<1>1. n \in Nat /\ ExistsBijection(1..n, S) BY FS_CardinalityType
<1>2. \E f \in [1..n -> S] : IsInjective(f)
  BY <1>1 DEF ExistsBijection, Bijection, Injection, IsInjective
<1>3. u \in [1..n -> S] BY <1>2 DEF SetToSeq
<1> HIDE DEF n, u
<1>4. u \in Seq(S) BY <1>1, <1>3, SeqDef
<1>5. s \in Seq(T) /\ u \in Seq(T)
  <2>1. ToSet(s) \subseteq T /\ S \subseteq T OBVIOUS
  <2>2. QED BY <1>4, <2>1, SeqMonotonic DEF IsList
<1> HIDE DEF T
<1>6. s \o u \in Seq(T) BY <1>5, ConcatProperties
<1>7. IsList(s \o u) /\ ToSet(s \o u) \subseteq T BY <1>6, ListOf
<1>8. QED BY <1>7 DEF T, u

(* A task with these folders is chosen: it may be taken, or skipped.        *)
LEMMA ChosenHolds ==
    ASSUME TasksHold, runPath # NoRun, runPath' = runPath,
           NEW id, NEW folders, NEW others, id \notin DOMAIN others,
           Chosen(id, folders, others), FoldersApart(todo', Plus(others, id, folders), results)
    PROVE  TasksHold'
<1> DEFINE ts == Plus(others, id, folders)
<1>1. /\ DOMAIN ts = DOMAIN others \cup {id} /\ ts[id] = folders
      /\ \A k \in DOMAIN others : ts[k] = others[k]
  BY DEF Plus
<1>2. FoldersApart(todo', ts, results) OBVIOUS
<1> HIDE DEF ts
<1>3. NoneLeft(results) /\ IsList(results) BY DEF TasksHold
<1>4. CASE results' = Append(results, ReportOf("skipped", "user", folders)) /\ tasks' = others /\ UNCHANGED pending
  <2> DEFINE r == ReportOf("skipped", "user", folders)
  <2>1. r.event = "skipped" /\ r.cause = "user" BY DEF ReportOf
  <2> HIDE DEF r
  <2>2. IsList(results') /\ ToSet(results') = ToSet(results) \cup {r} BY <1>3, <1>4, OneMore DEF r
  <2>3. NoneLeft(results') BY <1>3, <2>1, <2>2 DEF NoneLeft
  <2>4. ReportsAgree' BY <2>3 DEF ReportsAgree, NoneLeft
  <2>5. \A f : InReport(f, results') <=> InReport(f, results) BY <2>1, <2>2 DEF InReport
  <2>6. FoldersApart(todo', tasks', results') BY <1>1, <1>2, <1>4, <2>5 DEF FoldersApart
  <2>7. Unfinished(pending', results') BY <1>4, <2>1, <2>2 DEF Unfinished, TasksHold
  <2>8. QED BY <1>4, <2>2, <2>3, <2>4, <2>6, <2>7 DEF TasksHold
<1>5. CASE tasks' = ts /\ pending' = Plus(pending, id, folders) /\ UNCHANGED results
  <2>1. DOMAIN pending' = DOMAIN pending \cup {id} BY <1>5 DEF Plus
  <2>2. IsFiniteSet(DOMAIN pending') BY <2>1, FS_AddElement DEF TasksHold
  <2>3. pending'[id] = folders /\ \A k \in DOMAIN pending \ {id} : pending'[k] = pending[k] BY <1>5 DEF Plus
  <2>4. \A r \in ToSet(results) : r.event = "imported" => ~(folders \subseteq r.folders)
    <3>1. PICK f \in folders : ~InReport(f, results) BY <1>1, <1>2 DEF FoldersApart
    <3>2. QED BY <3>1 DEF InReport
  <2>5. Unfinished(pending', results) BY <2>1, <2>3, <2>4 DEF Unfinished, TasksHold
  <2>6. FoldersApart(todo', tasks', results') BY <1>2, <1>5
  <2>7. ReportsAgree' BY <1>5 DEF ReportsAgree, TasksHold
  <2>8. QED BY <1>3, <1>5, <2>2, <2>5, <2>6, <2>7 DEF TasksHold
<1>6. QED BY <1>4, <1>5 DEF Chosen, ts

LEMMA ChooseHolds ==
    ASSUME TasksHold, NEW f, NEW id, Choose(f, id)
    PROVE  TasksHold'
<1> DEFINE ts == Plus(tasks, id, {f})
<1>1. /\ f \in todo /\ id \notin DOMAIN tasks /\ todo' = todo \ {f} /\ Chosen(id, {f}, tasks)
      /\ runPath' = runPath
  BY DEF Choose
<1>2. runPath # NoRun BY <1>1 DEF TasksHold
<1>3. /\ DOMAIN ts = DOMAIN tasks \cup {id} /\ ts[id] = {f}
      /\ \A k \in DOMAIN tasks : ts[k] = tasks[k]
  BY <1>1 DEF Plus
<1> HIDE DEF ts
<1>4. FoldersApart(todo, tasks, results) BY DEF TasksHold
<1>5. ASSUME NEW g \in todo' PROVE ~InReport(g, results) /\ \A k \in DOMAIN ts : g \notin ts[k]
  BY <1>1, <1>3, <1>4 DEF FoldersApart
<1>6. ASSUME NEW k \in DOMAIN ts
      PROVE  \E g \in ts[k] : g \notin todo' /\ ~InReport(g, results) /\ \A l \in DOMAIN ts \ {k} : g \notin ts[l]
  <2>1. CASE k = id
    <3>1. ~InReport(f, results) /\ f \notin todo' BY <1>1, <1>4 DEF FoldersApart
    <3>2. \A l \in DOMAIN ts \ {id} : f \notin ts[l] BY <1>1, <1>3, <1>4 DEF FoldersApart
    <3>3. QED BY <1>3, <2>1, <3>1, <3>2
  <2>2. CASE k # id
    <3>1. PICK g \in tasks[k] : g \notin todo /\ ~InReport(g, results) /\ \A l \in DOMAIN tasks \ {k} : g \notin tasks[l]
      BY <1>3, <1>4, <2>2 DEF FoldersApart
    <3>2. g # f BY <1>1, <3>1
    <3>3. \A l \in DOMAIN ts \ {k} : g \notin ts[l] BY <1>3, <3>1, <3>2
    <3>4. QED BY <1>1, <1>3, <2>2, <3>1, <3>3
  <2>3. QED BY <2>1, <2>2
<1>7. FoldersApart(todo', ts, results) BY <1>5, <1>6 DEF FoldersApart
<1>8. QED BY <1>1, <1>2, <1>7, ChosenHolds DEF ts

LEMMA MergeHolds ==
    ASSUME TasksHold, NEW id, NEW f, NEW new, Merge(id, f, new)
    PROVE  TasksHold'
<1> DEFINE x      == InLibrary(f)
           others == Minus(tasks, {id})
           both   == tasks[id] \cup {x}
           ts     == Plus(others, new, both)
<1>1. /\ id \in DOMAIN tasks /\ new \notin DOMAIN tasks /\ \A k \in DOMAIN tasks : x \notin tasks[k]
      /\ todo' = todo \ {x} /\ Chosen(new, both, others) /\ runPath' = runPath
  BY DEF Merge
<1>2. runPath # NoRun BY <1>1 DEF TasksHold
<1>3. DOMAIN others = DOMAIN tasks \ {id} /\ \A k \in DOMAIN others : others[k] = tasks[k] BY DEF Minus
<1> HIDE DEF x, others
<1>4. /\ DOMAIN ts = (DOMAIN tasks \ {id}) \cup {new} /\ ts[new] = both
      /\ \A k \in DOMAIN tasks \ {id} : ts[k] = tasks[k]
  BY <1>1, <1>3 DEF Plus
<1> HIDE DEF ts
<1>5. FoldersApart(todo, tasks, results) BY DEF TasksHold
<1>6. ASSUME NEW g \in todo' PROVE ~InReport(g, results) /\ \A k \in DOMAIN ts : g \notin ts[k]
  BY <1>1, <1>4, <1>5 DEF FoldersApart
<1>7. ASSUME NEW k \in DOMAIN ts
      PROVE  \E g \in ts[k] : g \notin todo' /\ ~InReport(g, results) /\ \A l \in DOMAIN ts \ {k} : g \notin ts[l]
  <2>1. CASE k = new
    <3>1. PICK g \in tasks[id] : g \notin todo /\ ~InReport(g, results) /\ \A l \in DOMAIN tasks \ {id} : g \notin tasks[l]
      BY <1>1, <1>5 DEF FoldersApart
    <3>2. \A l \in DOMAIN ts \ {new} : g \notin ts[l] BY <1>4, <3>1
    <3>3. QED BY <1>1, <1>4, <2>1, <3>1, <3>2
  <2>2. CASE k # new
    <3>1. k \in DOMAIN tasks \ {id} BY <1>4, <2>2
    <3>2. PICK g \in tasks[k] : g \notin todo /\ ~InReport(g, results) /\ \A l \in DOMAIN tasks \ {k} : g \notin tasks[l]
      BY <1>5, <3>1 DEF FoldersApart
    <3>3. g # x /\ g \notin both BY <1>1, <3>1, <3>2
    <3>4. \A l \in DOMAIN ts \ {k} : g \notin ts[l] BY <1>4, <3>2, <3>3
    <3>5. QED BY <1>1, <1>4, <3>1, <3>2, <3>4
  <2>3. QED BY <2>1, <2>2
<1>8. FoldersApart(todo', ts, results) BY <1>6, <1>7 DEF FoldersApart
<1>9. new \notin DOMAIN others BY <1>1, <1>3
<1>10. QED BY <1>1, <1>2, <1>8, <1>9, ChosenHolds DEF ts

LEMMA FilesHold ==
    ASSUME TasksHold, NEW id, Files(id)
    PROVE  TasksHold'
<1> DEFINE r == ReportOf("imported", "none", tasks[id])
<1>1. /\ id \in DOMAIN tasks /\ tasks' = Minus(tasks, {id})
      /\ pending' = Minus(pending, Replaced(id, tasks[id]))
      /\ results' = Append(results, r) /\ todo' = todo /\ runPath' = runPath
  BY DEF Files
<1>2. r.event = "imported" /\ r.cause = "none" /\ r.folders = tasks[id] BY DEF ReportOf
<1> HIDE DEF r
<1>3. runPath # NoRun BY <1>1 DEF TasksHold
<1>4. NoneLeft(results) /\ IsList(results) BY <1>3 DEF TasksHold
<1>5. IsList(results') /\ ToSet(results') = ToSet(results) \cup {r} BY <1>1, <1>4, OneMore
<1>6. NoneLeft(results') BY <1>2, <1>4, <1>5 DEF NoneLeft
<1>7. ReportsAgree' BY <1>6 DEF ReportsAgree, NoneLeft
<1>8. DOMAIN tasks' = DOMAIN tasks \ {id} /\ \A k \in DOMAIN tasks' : tasks'[k] = tasks[k] BY <1>1 DEF Minus
<1>9. /\ DOMAIN pending' \subseteq DOMAIN pending
      /\ \A k \in DOMAIN pending' : pending'[k] = pending[k] /\ ~(pending[k] \subseteq tasks[id])
  BY <1>1 DEF Minus, Replaced
<1>10. IsFiniteSet(DOMAIN pending') BY <1>9, FS_Subset DEF TasksHold
<1>11. Unfinished(pending', results') BY <1>2, <1>5, <1>9 DEF Unfinished, TasksHold
<1>12. \A f : InReport(f, results') <=> InReport(f, results) \/ f \in tasks[id] BY <1>2, <1>5 DEF InReport
<1>13. FoldersApart(todo, tasks, results) BY DEF TasksHold
<1>14. ASSUME NEW g \in todo PROVE ~InReport(g, results') /\ \A k \in DOMAIN tasks' : g \notin tasks'[k]
  BY <1>1, <1>8, <1>12, <1>13 DEF FoldersApart
<1>15. ASSUME NEW k \in DOMAIN tasks'
       PROVE  \E g \in tasks'[k] : /\ g \notin todo /\ ~InReport(g, results')
                                   /\ \A l \in DOMAIN tasks' \ {k} : g \notin tasks'[l]
  <2>1. PICK g \in tasks[k] : g \notin todo /\ ~InReport(g, results) /\ \A l \in DOMAIN tasks \ {k} : g \notin tasks[l]
    BY <1>8, <1>13 DEF FoldersApart
  <2>2. g \notin tasks[id] BY <1>1, <1>8, <2>1
  <2>3. QED BY <1>8, <1>12, <2>1, <2>2
<1>16. FoldersApart(todo', tasks', results') BY <1>1, <1>14, <1>15 DEF FoldersApart
<1>17. QED BY <1>1, <1>3, <1>5, <1>6, <1>7, <1>10, <1>11, <1>16 DEF TasksHold

LEMMA FinishHolds ==
    ASSUME TasksHold, FinishRun
    PROVE  TasksHold'
<1>1. /\ runPath # NoRun /\ todo = {} /\ DOMAIN tasks = {}
      /\ results' = results \o SetToSeq(Leftovers) /\ pending' = << >> /\ runPath' = NoRun
      /\ todo' = todo /\ tasks' = tasks
  BY DEF FinishRun
<1>2. NoneLeft(results) /\ IsList(results) BY <1>1 DEF TasksHold
<1>3. IsFiniteSet(Leftovers)
  <2> DEFINE g == [k \in DOMAIN pending |-> ReportOf("skipped", "duplicate", pending[k])]
  <2>1. g \in [DOMAIN pending -> Leftovers] /\ \A y \in Leftovers : \E k \in DOMAIN pending : g[k] = y
    BY DEF Leftovers
  <2> HIDE DEF g
  <2>2. g \in Surjection(DOMAIN pending, Leftovers) BY <2>1, Fun_IsSurj
  <2>3. QED BY <2>2, FS_Surjection DEF TasksHold
<1>4. IsList(results') /\ ToSet(results') \subseteq ToSet(results) \cup Leftovers BY <1>1, <1>2, <1>3, SomeMore
<1>5. ASSUME NEW s \in Leftovers PROVE s.event = "skipped" /\ \E k \in DOMAIN pending : s.folders = pending[k]
  BY DEF Leftovers, ReportOf
<1>6. ReportsAgree'
  <2>1. ASSUME NEW r \in ToSet(results'), NEW s \in ToSet(results'), r.event = "imported", s.cause = "duplicate"
        PROVE  ~(s.folders \subseteq r.folders)
    <3>1. r \in ToSet(results) BY <1>4, <1>5, <2>1
    <3>2. s \in Leftovers BY <1>2, <1>4, <2>1 DEF NoneLeft
    <3>3. PICK k \in DOMAIN pending : s.folders = pending[k] BY <1>5, <3>2
    <3>4. QED BY <2>1, <3>1, <3>3 DEF TasksHold, Unfinished
  <2>2. QED BY <2>1 DEF ReportsAgree
<1>7. DOMAIN pending' = {} BY <1>1
<1>8. IsFiniteSet(DOMAIN pending') /\ Unfinished(pending', results') BY <1>7, FS_EmptySet DEF Unfinished
<1>9. FoldersApart(todo', tasks', results') BY <1>1 DEF FoldersApart
<1>10. QED BY <1>1, <1>4, <1>6, <1>8, <1>9 DEF TasksHold

LEMMA StartHolds ==
    ASSUME HistoryInv, NEW path, path # NoRun, StartRun(path)
    PROVE  HistoryInv'
<1>1. /\ runPath = NoRun /\ runs' = runs + 1 /\ runPath' = path /\ results' = << >>
      /\ pending' = << >> /\ tasks' = << >> /\ outcomes' = outcomes
  BY DEF StartRun
<1>2. runs \in Nat /\ RowsUpTo(outcomes, runs) BY <1>1 DEF HistoryInv, RowsHold
<1>3. RowsUpTo(outcomes, runs + 1) BY <1>2 DEF RowsUpTo
<1>4. runs' \in Nat /\ runs' - 1 = runs BY <1>1, <1>2
<1>5. RowsHold' BY <1>1, <1>2, <1>3, <1>4 DEF RowsHold
<1>6. ToSet(results') = {} /\ IsList(results') BY <1>1 DEF ToSet, IsList
<1>7. DOMAIN pending' = {} /\ DOMAIN tasks' = {} BY <1>1
<1>8. ReportsAgree' /\ NoneLeft(results') BY <1>6 DEF ReportsAgree, NoneLeft
<1>9. FoldersApart(todo', tasks', results') BY <1>6, <1>7 DEF FoldersApart, InReport
<1>10. Unfinished(pending', results') /\ IsFiniteSet(DOMAIN pending') BY <1>7, FS_EmptySet DEF Unfinished
<1>11. QED BY <1>1, <1>5, <1>6, <1>7, <1>8, <1>9, <1>10 DEF HistoryInv, TasksHold

LEMMA HistoryStarts == HistoryInit => HistoryInv
<1> SUFFICES ASSUME HistoryInit PROVE HistoryInv OBVIOUS
<1>1. /\ todo = {} /\ tasks = << >> /\ pending = << >> /\ results = << >>
      /\ runPath = NoRun /\ runs = 0 /\ outcomes = << >>
  BY DEF HistoryInit
<1>2. ToSet(results) = {} /\ ToSet(outcomes) = {} /\ DOMAIN pending = {} /\ DOMAIN tasks = {} /\ DOMAIN outcomes = {}
  BY <1>1 DEF ToSet
<1>3. IsList(results) /\ IsList(outcomes) BY <1>1 DEF IsList
<1>4. RowsHold BY <1>1, <1>2, <1>3 DEF RowsHold, RowsUpTo, Apart
<1>5. FoldersApart(todo, tasks, results) /\ Unfinished(pending, results) /\ ReportsAgree
  BY <1>1, <1>2 DEF FoldersApart, Unfinished, ReportsAgree
<1>6. IsFiniteSet(DOMAIN pending) BY <1>2, FS_EmptySet
<1>7. QED BY <1>1, <1>2, <1>3, <1>4, <1>5, <1>6 DEF HistoryInv, TasksHold

LEMMA HistoryStays == HistoryInv /\ [HistoryNext]_historyVars => HistoryInv'
<1> SUFFICES ASSUME HistoryInv, [HistoryNext]_historyVars PROVE HistoryInv' OBVIOUS
<1>0. TasksHold /\ RowsHold BY DEF HistoryInv
<1>1. ASSUME UNCHANGED <<runPath, runs, outcomes>> PROVE RowsHold' BY <1>0, <1>1 DEF RowsHold
<1>2. ASSUME UNCHANGED <<todo, tasks, pending, results, runPath>> PROVE TasksHold'
  BY <1>0, <1>2 DEF TasksHold, ReportsAgree
<1>3. ASSUME NEW path, path # NoRun, StartRun(path) PROVE HistoryInv' BY <1>3, StartHolds
<1>4. CASE StartRun(<<"inbox">>)
  <2>1. <<"inbox">> # NoRun BY DEF NoRun
  <2>2. QED BY <1>3, <1>4, <2>1
<1>5. CASE Abort
  <2>1. /\ runPath # NoRun /\ todo' = {} /\ tasks' = << >> /\ UNCHANGED <<pending, results, runPath, runs, outcomes>>
    BY <1>5 DEF Abort
  <2>2. DOMAIN tasks' = {} BY <2>1
  <2>3. FoldersApart(todo', tasks', results') BY <2>1, <2>2 DEF FoldersApart
  <2>4. TasksHold' BY <1>0, <2>1, <2>2, <2>3 DEF TasksHold, ReportsAgree
  <2>5. QED BY <1>1, <2>1, <2>4 DEF HistoryInv
<1>6. CASE FinishRun
  <2>1. TasksHold' BY <1>0, <1>6, FinishHolds
  <2>2. runPath # NoRun /\ runPath' = NoRun /\ runs' = runs /\ RecordRun(results') BY <1>6 DEF FinishRun
  <2>3. IsList(results') BY <2>1 DEF TasksHold
  <2>4. runs \in Nat /\ RowsUpTo(outcomes, runs - 1) BY <1>0, <2>2 DEF RowsHold
  <2>5. RowsUpTo(outcomes', runs) BY <2>2, <2>3, <2>4, AddedRows
  <2>6. RowsHold' BY <2>2, <2>4, <2>5 DEF RowsHold
  <2>7. QED BY <2>1, <2>6 DEF HistoryInv
<1>7. CASE ClearHistory
  <2>1. outcomes' = << >> /\ UNCHANGED <<todo, tasks, pending, results, runPath, runs>>
    BY <1>7 DEF ClearHistory, childVars
  <2>2. ToSet(outcomes') = {} /\ DOMAIN outcomes' = {} /\ IsList(outcomes') BY <2>1 DEF ToSet, IsList
  <2>3. RowsHold' BY <1>0, <2>1, <2>2 DEF RowsHold, RowsUpTo, Apart
  <2>4. QED BY <1>2, <2>1, <2>3 DEF HistoryInv
<1>8. ASSUME NEW f \in Inbox, NEW id \in TaskIds, Choose(f, id) PROVE HistoryInv'
  <2>1. TasksHold' BY <1>0, <1>8, ChooseHolds
  <2>2. QED BY <1>1, <1>8, <2>1 DEF HistoryInv, Choose
<1>9. ASSUME NEW f \in Inbox, NEW id \in TaskIds, NEW new \in TaskIds, Merge(id, f, new) PROVE HistoryInv'
  <2>1. TasksHold' BY <1>0, <1>9, MergeHolds
  <2>2. QED BY <1>1, <1>9, <2>1 DEF HistoryInv, Merge
<1>10. ASSUME NEW id \in TaskIds, DropDuplicate(id) PROVE HistoryInv'
  <2>1. /\ id \in DOMAIN tasks /\ tasks' = Minus(tasks, {id})
        /\ UNCHANGED <<todo, pending, results, runPath, runs, outcomes>>
    BY <1>10 DEF DropDuplicate
  <2>2. DOMAIN tasks' = DOMAIN tasks \ {id} /\ \A k \in DOMAIN tasks' : tasks'[k] = tasks[k] BY <2>1 DEF Minus
  <2>3. FoldersApart(todo', tasks', results')
    <3>1. FoldersApart(todo, tasks, results) BY <1>0 DEF TasksHold
    <3>2. QED BY <2>1, <2>2, <3>1 DEF FoldersApart
  <2>4. TasksHold' BY <1>0, <2>1, <2>2, <2>3 DEF TasksHold, ReportsAgree
  <2>5. QED BY <1>1, <2>1, <2>4 DEF HistoryInv
<1>11. ASSUME NEW id \in TaskIds, Files(id) PROVE HistoryInv'
  <2>1. TasksHold' BY <1>0, <1>11, FilesHold
  <2>2. QED BY <1>1, <1>11, <2>1 DEF HistoryInv, Files
<1>12. ASSUME NEW i \in DOMAIN outcomes, Reimport(i) PROVE HistoryInv' BY <1>3, <1>12 DEF Reimport
<1>13. ASSUME NEW i \in DOMAIN outcomes, RemoveEntry(i) PROVE HistoryInv'
  <2>1. outcomes' = RemoveAt(outcomes, i) /\ UNCHANGED <<todo, tasks, pending, results, runPath, runs>>
    BY <1>13 DEF RemoveEntry, childVars
  <2> DEFINE n == IF runPath = NoRun THEN runs ELSE runs - 1
  <2>2. RowsUpTo(outcomes, n) BY <1>0 DEF RowsHold
  <2> HIDE DEF n
  <2>3. IsList(outcomes) BY <2>2 DEF RowsUpTo
  <2>4. IsList(RemoveAt(outcomes, i)) /\ PartOf(RemoveAt(outcomes, i), outcomes) BY <2>3, RestIsPart
  <2>5. RowsUpTo(outcomes', n) BY <2>1, <2>2, <2>4, PartIsUpTo
  <2>6. RowsHold' BY <1>0, <2>1, <2>5 DEF RowsHold, n
  <2>7. QED BY <1>2, <2>1, <2>6 DEF HistoryInv
<1>14. CASE UNCHANGED historyVars BY <1>1, <1>2, <1>14 DEF HistoryInv, historyVars, childVars
<1>15. QED
  BY <1>4, <1>5, <1>6, <1>7, <1>8, <1>9, <1>10, <1>11, <1>12, <1>13, <1>14 DEF HistoryNext

(* Whatever the runs report, in whatever order, and whatever rows the user  *)
(* removes: the history says of no folder that it was skipped once it, or   *)
(* what is above it, was imported, and no run calls an album a duplicate    *)
(* that it imported itself (core/library/import_history.py).                *)
THEOREM HistoryIsSound == HistorySpec => []HistoryHolds
<1>1. HistoryInv => HistoryHolds
  <2> SUFFICES ASSUME HistoryInv PROVE HistoryHolds OBVIOUS
  <2>1. Apart(outcomes) /\ ReportsAgree BY DEF HistoryInv, RowsHold, TasksHold, RowsUpTo
  <2>2. LastOutcome BY <2>1 DEF Apart, Clash, LastOutcome
  <2>3. QED BY <2>1, <2>2 DEF HistoryHolds
<1>2. QED BY <1>1, HistoryStarts, HistoryStays, PTL DEF HistorySpec

-----------------------------------------------------------------------------
(***************************************************************************)
(* The indexes over the library. The stamp is read outside the lock,       *)
(* before the index is built: an index may be newer than its stamp, never  *)
(* older, and that is what is inductive (an index lacks nothing that was   *)
(* there at its stamp).                                                    *)
(***************************************************************************)

(* The state of the library: its rows, versions, and times so far.          *)
World == [rows |-> entries, version |-> version, opened |-> opened, table |-> table]

(* An index that may be handed out to a request that read time m.           *)
IndexOK(ix, m, w) ==
    /\ ix \in IndexOfRows
    /\ m \in 1..Len(w.opened) /\ w.opened[m] <= ix.at /\ ix.at <= w.version
    /\ ix.at = w.version => ix.rows = w.rows

TimesOK(w) ==
    /\ w.rows \in Rows
    /\ w.version \in Nat /\ w.opened \in Seq(Nat) /\ Len(w.opened) >= 1
    /\ \A m \in 1..Len(w.opened) : w.opened[m] <= w.version

BucketOK(b, w) == b.index # NotBuilt => IndexOK(b.index, b.stamp, w)

(* What a request keeps of the moment it came.                              *)
CameAt(l, w) ==
    /\ l.stamp \in 1..Len(w.opened) /\ w.opened[l.stamp] <= l.since /\ l.since <= w.version
    /\ l.since = w.version => l.stamp = Len(w.opened)

LookupOK(l, w) ==
    /\ l.pc # "idle" => CameAt(l, w)
    /\ l.pc \in {"loads", "answered"} =>
          /\ w.opened[l.stamp] <= l.at /\ l.at <= w.version
          /\ l.at = w.version => l.id = Found(w.table, w.rows, l.key)

(* The dict it holds was handed out for its time.                           *)
HoldsOK(l, bs) ==
    l.pc \in {"looks", "waits", "builds", "built"} =>
        l.bucket \in 1..Len(bs) /\ bs[l.bucket].stamp = l.stamp

BuiltOK(l, ix, w) == l.pc = "built" => IndexOK(ix, l.stamp, w)

(* Only the holder of the lock is building.                                 *)
LockOK == \A t \in IndexThreads : lookup[t].pc \in {"builds", "built"} => builder = t

IndexIInv ==
    /\ TimesOK(World) /\ LockOK
    /\ buckets \in Seq(Bucket) /\ newest \in 0..Len(buckets)
    /\ \A b \in 1..Len(buckets) : BucketOK(buckets[b], World)
    /\ lookup \in [IndexThreads -> Lookup]
    /\ \A t \in IndexThreads :
          LookupOK(lookup[t], World) /\ HoldsOK(lookup[t], buckets) /\ BuiltOK(lookup[t], built, World)

-----------------------------------------------------------------------------
LEMMA RowsAre ==
    ASSUME NEW es \in Rows
    PROVE  DOMAIN es \in SUBSET (1..EntriesMax) /\ es \in [DOMAIN es -> Entry]
BY DEF Rows

LEMMA ToRows ==
    ASSUME NEW ids \in SUBSET (1..EntriesMax), NEW es \in [ids -> Entry]
    PROVE  es \in Rows
BY DEF Rows

LEMMA FoundIsThere ==
    ASSUME NEW tab, NEW es \in Rows, NEW k
    PROVE  /\ Found(tab, es, k) \in Nat \cup {NoEntry}
           /\ Found(tab, es, k) # NoEntry => Found(tab, es, k) \in DOMAIN es
<1> DEFINE N == Named(tab, es, k)
<1>1. N \subseteq DOMAIN es /\ DOMAIN es \subseteq 1..EntriesMax BY RowsAre DEF Named
<1>2. N \in SUBSET Nat /\ IsFiniteSet(N)
  <2>1. IsFiniteSet(1..EntriesMax) BY IndexAssumption, FS_Interval
  <2>2. QED BY <1>1, <2>1, IndexAssumption, FS_Subset
<1> HIDE DEF N
<1>3. CASE N = {} BY <1>3 DEF Found, N
<1>4. CASE N # {}
  <2>1. \E i \in N : \A j \in N : i <= j BY <1>2, <1>4, HasLeast
  <2>2. Found(tab, es, k) \in N BY <1>4, <2>1 DEF Found, N
  <2>3. QED BY <1>1, <1>2, <2>2
<1>5. QED BY <1>3, <1>4

LEMMA IndexStarts == IndexInit => IndexIInv
<1> SUFFICES ASSUME IndexInit PROVE IndexIInv OBVIOUS
<1> USE DEF IndexInit
<1>1. TimesOK(World)
  <2>1. <<0>> \in Seq(Nat) /\ Len(<<0>>) = 1 /\ <<0>>[1] = 0 OBVIOUS
  <2>2. QED BY <2>1 DEF TimesOK, World
<1>2. Unasked \in Lookup BY DEF Unasked, Lookup
<1>3. \A t \in IndexThreads : lookup[t] = Unasked OBVIOUS
<1>4. LookupOK(Unasked, World) /\ HoldsOK(Unasked, buckets) /\ BuiltOK(Unasked, built, World)
  BY DEF LookupOK, HoldsOK, BuiltOK, Unasked
<1>5. LockOK BY <1>3 DEF LockOK, Unasked
<1>6. QED BY <1>1, <1>2, <1>3, <1>4, <1>5 DEF IndexIInv

(* A step of one request that adds nothing to the cache but dicts and       *)
(* indexes that may be handed out, and takes the lock from nobody.          *)
LEMMA StepKeeps ==
    ASSUME IndexIInv, NEW t \in IndexThreads, NEW l \in Lookup, Go(t, l),
           UNCHANGED <<table, entries, version, opened>>,
           buckets' \in Seq(Bucket), newest' \in 0..Len(buckets'),
           \A b \in 1..Len(buckets') : BucketOK(buckets'[b], World),
           \A b \in 1..Len(buckets) : b \in 1..Len(buckets') /\ buckets'[b].stamp = buckets[b].stamp,
           LookupOK(l, World), HoldsOK(l, buckets'), BuiltOK(l, built', World),
           built' = built \/ builder = t,
           l.pc \in {"builds", "built"} => builder' = t,
           builder' = builder \/ builder \in {t, NoThread}
    PROVE  IndexIInv'
<1> USE DEF IndexIInv
<1>1. World' = World BY DEF World
<1>2. lookup' \in [IndexThreads -> Lookup] /\ lookup'[t] = l
      /\ \A u \in IndexThreads \ {t} : lookup'[u] = lookup[u]
  BY DEF Go
<1>3. \A u \in IndexThreads \ {t} : lookup[u].pc \in {"builds", "built"} => builder = u /\ builder' = u /\ built' = built
  BY IndexAssumption DEF LockOK
<1>4. LockOK' BY <1>2, <1>3 DEF LockOK
<1>5. ASSUME NEW u \in IndexThreads
      PROVE LookupOK(lookup'[u], World) /\ HoldsOK(lookup'[u], buckets') /\ BuiltOK(lookup'[u], built', World)
  <2>1. CASE u = t BY <1>2, <2>1
  <2>2. CASE u # t
    <3>1. lookup'[u] = lookup[u] BY <1>2, <2>2
    <3>2. HoldsOK(lookup[u], buckets') BY DEF HoldsOK
    <3>3. BuiltOK(lookup[u], built', World) BY <1>3, <2>2 DEF BuiltOK
    <3>4. QED BY <3>1, <3>2, <3>3
  <2>3. QED BY <2>1, <2>2
<1>6. QED BY <1>1, <1>2, <1>4, <1>5

LEMMA AskKeeps ==
    ASSUME IndexIInv, NEW t \in IndexThreads, NEW k \in Keys, NEW batch \in BOOLEAN, Ask(t, k, batch)
    PROVE  IndexIInv'
<1> USE DEF IndexIInv
<1> DEFINE l == [Unasked EXCEPT !.key = k, !.since = version, !.stamp = Mtime]
           query == [l EXCEPT !.pc = "loads", !.at = version, !.id = Found(table, entries, k)]
           wait == [l EXCEPT !.pc = "stamped"]
           new == IF k \in Mbids /\ ~batch THEN query ELSE wait
<1>1. /\ Go(t, new) /\ lookup[t].pc \in {"idle", "answered"}
      /\ UNCHANGED <<table, entries, version, opened, buckets, newest, builder, built>>
  BY DEF Ask
<1>2. /\ version \in Nat /\ Mtime \in Nat /\ Mtime >= 1 /\ opened[Mtime] <= version /\ entries \in Rows
  BY DEF TimesOK, World, Mtime
<1>3. Found(table, entries, k) \in Nat \cup {NoEntry} BY <1>2, FoundIsThere
<1>4. /\ query \in Lookup /\ query.pc = "loads" /\ query.key = k /\ query.since = version
      /\ query.stamp = Mtime /\ query.at = version /\ query.id = Found(table, entries, k)
  BY <1>2, <1>3 DEF Unasked, Lookup
<1>5. /\ wait \in Lookup /\ wait.pc = "stamped" /\ wait.key = k /\ wait.since = version
      /\ wait.stamp = Mtime
  BY <1>2 DEF Unasked, Lookup
<1> HIDE DEF query, wait
<1>6. new \in Lookup /\ new.pc \notin {"looks", "waits", "builds", "built"} BY <1>4, <1>5
<1>7. LookupOK(query, World) BY <1>2, <1>4 DEF LookupOK, CameAt, World, Mtime
<1>8. LookupOK(wait, World) BY <1>2, <1>5 DEF LookupOK, CameAt, World, Mtime
<1>9. LookupOK(new, World) BY <1>7, <1>8
<1> HIDE DEF new
<1>10. HoldsOK(new, buckets') /\ BuiltOK(new, built', World) BY <1>6 DEF HoldsOK, BuiltOK
<1>11. QED BY <1>1, <1>6, <1>9, <1>10, StepKeeps

LEMMA TakeKeeps ==
    ASSUME IndexIInv, NEW t \in IndexThreads, TakeBucket(t)
    PROVE  IndexIInv'
<1> USE DEF IndexIInv
<1> DEFINE one == [stamp |-> lookup[t].stamp, index |-> NotBuilt]
           new == [lookup[t] EXCEPT !.pc = "looks", !.bucket = newest']
<1>1. /\ lookup[t].pc = "stamped" /\ Go(t, new) /\ lookup[t] \in Lookup
      /\ UNCHANGED <<table, entries, version, opened, builder, built>>
      /\ IF Current(lookup[t].stamp) THEN UNCHANGED <<buckets, newest>>
         ELSE buckets' = Append(buckets, one) /\ newest' = Len(buckets')
  BY DEF TakeBucket, AtPc
<1>2. lookup[t].stamp \in Nat /\ one \in Bucket BY <1>1 DEF Lookup, Bucket
<1>3. /\ buckets' \in Seq(Bucket) /\ newest' \in 1..Len(buckets')
      /\ buckets'[newest'].stamp = lookup[t].stamp
      /\ \A b \in 1..Len(buckets) : b \in 1..Len(buckets') /\ buckets'[b] = buckets[b]
      /\ \A b \in 1..Len(buckets') : b \in 1..Len(buckets) \/ buckets'[b] = one
  <2>1. CASE Current(lookup[t].stamp) BY <1>1, <2>1 DEF Current
  <2>2. CASE ~Current(lookup[t].stamp)
    <3>1. /\ buckets' \in Seq(Bucket) /\ Len(buckets') = Len(buckets) + 1
          /\ \A b \in 1..Len(buckets) : buckets'[b] = buckets[b]
          /\ buckets'[Len(buckets) + 1] = one
      BY <1>1, <1>2, <2>2, AppendProperties
    <3>2. Len(buckets) \in Nat /\ newest' = Len(buckets) + 1 BY <1>1, <2>2, <3>1
    <3>3. QED BY <3>1, <3>2
  <2>3. QED BY <2>1, <2>2
<1>4. PICK n \in Nat : n = newest' BY <1>3
<1>5. /\ [lookup[t] EXCEPT !.pc = "looks", !.bucket = n] \in Lookup
      /\ [lookup[t] EXCEPT !.pc = "looks", !.bucket = n].pc = "looks"
      /\ [lookup[t] EXCEPT !.pc = "looks", !.bucket = n].bucket = n
      /\ [lookup[t] EXCEPT !.pc = "looks", !.bucket = n].stamp = lookup[t].stamp
      /\ [lookup[t] EXCEPT !.pc = "looks", !.bucket = n].since = lookup[t].since
  BY <1>1 DEF Lookup
<1>6. /\ new \in Lookup /\ new.pc = "looks" /\ new.bucket = newest'
      /\ new.stamp = lookup[t].stamp /\ new.since = lookup[t].since
  BY <1>4, <1>5
<1> HIDE DEF new
<1>7. LookupOK(new, World)
  <2>1. CameAt(lookup[t], World) BY <1>1 DEF LookupOK
  <2>2. QED BY <1>6, <2>1 DEF LookupOK, CameAt
<1>8. HoldsOK(new, buckets') /\ BuiltOK(new, built', World) BY <1>3, <1>6 DEF HoldsOK, BuiltOK
<1>9. \A b \in 1..Len(buckets') : BucketOK(buckets'[b], World) BY <1>3 DEF BucketOK
<1>10. newest' \in 0..Len(buckets')
  <2>1. newest' \in 1..Len(buckets') BY <1>3
  <2>2. QED BY <2>1
<1>11. \A b \in 1..Len(buckets) : b \in 1..Len(buckets') /\ buckets'[b].stamp = buckets[b].stamp
  BY <1>3
<1>12. built' = built /\ builder' = builder /\ new.pc \notin {"builds", "built"} BY <1>1, <1>6
<1>13. buckets' \in Seq(Bucket) /\ Go(t, new) /\ UNCHANGED <<table, entries, version, opened>>
  BY <1>1, <1>3
<1>14. QED BY <1>6, <1>7, <1>8, <1>9, <1>10, <1>11, <1>12, <1>13, StepKeeps

(* What is found in an index of the dict that a request took may be loaded. *)
LEMMA LoadsSoundly ==
    ASSUME IndexIInv, NEW t \in IndexThreads, lookup[t].pc # "idle",
           NEW ix, IndexOK(ix, lookup[t].stamp, World)
    PROVE  /\ ToLoad(t, ix) \in Lookup /\ ToLoad(t, ix).pc = "loads"
           /\ LookupOK(ToLoad(t, ix), World)
<1> USE DEF IndexIInv
<1> DEFINE i == Found(table, ix.rows, lookup[t].key)
<1>1. ix.at \in Nat /\ ix.rows \in Rows BY DEF IndexOK, IndexOfRows
<1>2. PICK j \in Nat \cup {NoEntry} : j = i BY <1>1, FoundIsThere
<1>3. lookup[t] \in Lookup OBVIOUS
<1> DEFINE new == [lookup[t] EXCEPT !.pc = "loads", !.at = ix.at, !.id = j]
<1>4. ToLoad(t, ix) = new BY <1>2 DEF ToLoad
<1>5. /\ new \in Lookup /\ new.pc = "loads" /\ new.at = ix.at /\ new.id = j
      /\ new.stamp = lookup[t].stamp /\ new.since = lookup[t].since /\ new.key = lookup[t].key
  BY <1>1, <1>3 DEF Lookup
<1> HIDE DEF new
<1>6. CameAt(new, World) BY <1>5 DEF LookupOK, CameAt
<1>7. World.opened[new.stamp] <= new.at /\ new.at <= World.version BY <1>5 DEF IndexOK
<1>8. ASSUME new.at = World.version PROVE new.id = Found(World.table, World.rows, new.key)
  BY <1>2, <1>5, <1>8 DEF IndexOK, World
<1>9. LookupOK(new, World) BY <1>5, <1>6, <1>7, <1>8 DEF LookupOK
<1>10. QED BY <1>4, <1>5, <1>9

(* A request goes on as it is.                                              *)
LEMMA GoesOn ==
    ASSUME IndexIInv, NEW t \in IndexThreads, lookup[t].pc # "idle",
           NEW pc \in {"looks", "waits", "builds", "built"}
    PROVE  LET l == [lookup[t] EXCEPT !.pc = pc] IN
           /\ l \in Lookup /\ l.pc = pc /\ l.stamp = lookup[t].stamp /\ l.bucket = lookup[t].bucket
           /\ LookupOK(l, World)
<1> DEFINE l == [lookup[t] EXCEPT !.pc = pc]
<1>1. lookup[t] \in Lookup /\ LookupOK(lookup[t], World) BY DEF IndexIInv
<1>2. /\ l \in Lookup /\ l.pc = pc /\ l.stamp = lookup[t].stamp /\ l.since = lookup[t].since
      /\ l.bucket = lookup[t].bucket
  BY <1>1 DEF Lookup
<1> HIDE DEF l
<1>3. LookupOK(l, World) BY <1>1, <1>2 DEF LookupOK, CameAt
<1>4. QED BY <1>2, <1>3 DEF l

LEMMA LookKeeps ==
    ASSUME IndexIInv, NEW t \in IndexThreads, LookFirst(t) \/ LookAgain(t)
    PROVE  IndexIInv'
<1> USE DEF IndexIInv
<1> DEFINE ix == Index(t)
           load == ToLoad(t, ix)
           wait == [lookup[t] EXCEPT !.pc = "waits"]
           build == [lookup[t] EXCEPT !.pc = "builds"]
<1>1. /\ lookup[t].pc \in {"looks", "waits"}
      /\ UNCHANGED <<table, entries, version, opened, buckets, newest, built>>
      /\ \/ ix # NotBuilt /\ Go(t, load) /\ builder' = builder
         \/ Go(t, wait) /\ builder' = builder
         \/ Go(t, build) /\ builder = NoThread /\ builder' = t
  BY DEF LookFirst, LookAgain, AtPc
<1>2. /\ lookup[t].bucket \in 1..Len(buckets)
      /\ buckets[lookup[t].bucket].stamp = lookup[t].stamp
  BY <1>1 DEF HoldsOK
<1>3. CASE ix # NotBuilt /\ Go(t, load) /\ builder' = builder
  <2>1. IndexOK(ix, lookup[t].stamp, World) BY <1>2, <1>3 DEF Index, BucketOK
  <2>2. load \in Lookup /\ load.pc = "loads" /\ LookupOK(load, World) BY <1>1, <2>1, LoadsSoundly
  <2> HIDE DEF load
  <2>3. HoldsOK(load, buckets') /\ BuiltOK(load, built', World) BY <2>2 DEF HoldsOK, BuiltOK
  <2>4. QED BY <1>1, <1>3, <2>2, <2>3, StepKeeps
<1>4. CASE Go(t, wait) /\ builder' = builder
  <2>1. /\ wait \in Lookup /\ wait.pc = "waits" /\ wait.stamp = lookup[t].stamp
        /\ wait.bucket = lookup[t].bucket /\ LookupOK(wait, World)
    BY <1>1, GoesOn
  <2> HIDE DEF wait
  <2>2. HoldsOK(wait, buckets') /\ BuiltOK(wait, built', World) BY <1>1, <1>2, <2>1 DEF HoldsOK, BuiltOK
  <2>3. QED BY <1>1, <1>4, <2>1, <2>2, StepKeeps
<1>5. CASE Go(t, build) /\ builder = NoThread /\ builder' = t
  <2>1. /\ build \in Lookup /\ build.pc = "builds" /\ build.stamp = lookup[t].stamp
        /\ build.bucket = lookup[t].bucket /\ LookupOK(build, World)
    BY <1>1, GoesOn
  <2> HIDE DEF build
  <2>2. HoldsOK(build, buckets') /\ BuiltOK(build, built', World) BY <1>1, <1>2, <2>1 DEF HoldsOK, BuiltOK
  <2>3. QED BY <1>1, <1>5, <2>1, <2>2, StepKeeps
<1>6. QED BY <1>1, <1>3, <1>4, <1>5

LEMMA BuildKeeps ==
    ASSUME IndexIInv, NEW t \in IndexThreads, Build(t)
    PROVE  IndexIInv'
<1> USE DEF IndexIInv
<1> DEFINE new == [lookup[t] EXCEPT !.pc = "built"]
<1>1. /\ lookup[t].pc = "builds" /\ Go(t, new) /\ built' = [at |-> version, rows |-> entries]
      /\ UNCHANGED <<table, entries, version, opened, buckets, newest, builder>>
  BY DEF Build, AtPc
<1>2. /\ new \in Lookup /\ new.pc = "built" /\ new.stamp = lookup[t].stamp
      /\ new.bucket = lookup[t].bucket /\ LookupOK(new, World)
  BY <1>1, GoesOn
<1> HIDE DEF new
<1>3. lookup[t].stamp \in 1..Len(World.opened) BY <1>1 DEF LookupOK, CameAt
<1>4. IndexOK(built', lookup[t].stamp, World)
  BY <1>1, <1>3 DEF IndexOK, IndexOfRows, World, TimesOK
<1>5. HoldsOK(new, buckets') /\ BuiltOK(new, built', World)
  BY <1>1, <1>2, <1>4 DEF HoldsOK, BuiltOK
<1>6. builder = t BY <1>1 DEF LockOK
<1>7. QED BY <1>1, <1>2, <1>5, <1>6, StepKeeps

LEMMA FailKeeps ==
    ASSUME IndexIInv, NEW t \in IndexThreads, BuildFails(t)
    PROVE  IndexIInv'
<1> USE DEF IndexIInv
<1>1. /\ lookup[t].pc = "builds" /\ Go(t, Unasked) /\ builder' = NoThread
      /\ UNCHANGED <<table, entries, version, opened, buckets, newest, built>>
  BY DEF BuildFails, AtPc
<1>2. builder = t BY <1>1 DEF LockOK
<1>3. Unasked \in Lookup /\ Unasked.pc = "idle" BY DEF Unasked, Lookup
<1>4. LookupOK(Unasked, World) /\ HoldsOK(Unasked, buckets') /\ BuiltOK(Unasked, built', World)
  BY <1>3 DEF LookupOK, HoldsOK, BuiltOK
<1>5. \A u \in IndexThreads \ {t} : lookup[u].pc \notin {"builds", "built"} BY <1>2 DEF LockOK
<1>6. QED
  <2>1. World' = World BY <1>1 DEF World
  <2>2. lookup' \in [IndexThreads -> Lookup] /\ lookup'[t] = Unasked
        /\ \A u \in IndexThreads \ {t} : lookup'[u] = lookup[u]
    BY <1>1, <1>3 DEF Go
  <2>3. LockOK' BY <1>3, <1>5, <2>2 DEF LockOK
  <2>4. QED BY <1>1, <1>4, <2>1, <2>2, <2>3

LEMMA StoreKeeps ==
    ASSUME IndexIInv, NEW t \in IndexThreads, StoreIndex(t)
    PROVE  IndexIInv'
<1> USE DEF IndexIInv
<1> DEFINE load == ToLoad(t, built)
           b == lookup[t].bucket
<1>1. /\ lookup[t].pc = "built" /\ Go(t, load) /\ builder' = NoThread /\ built' = NotBuilt
      /\ buckets' = [buckets EXCEPT ![b].index = built]
      /\ UNCHANGED <<table, entries, version, opened, newest>>
  BY DEF StoreIndex, AtPc
<1>2. /\ IndexOK(built, lookup[t].stamp, World) /\ b \in 1..Len(buckets)
      /\ buckets[b].stamp = lookup[t].stamp /\ builder = t
  BY <1>1 DEF BuiltOK, HoldsOK, LockOK
<1>3. load \in Lookup /\ load.pc = "loads" /\ LookupOK(load, World) BY <1>1, <1>2, LoadsSoundly
<1> HIDE DEF load
<1>4. buckets[b] \in Bucket /\ built \in IndexOfRows BY <1>2 DEF IndexOK
<1> DEFINE one == [buckets[b] EXCEPT !.index = built]
<1>5. one \in Bucket /\ one.stamp = buckets[b].stamp /\ one.index = built BY <1>4 DEF Bucket
<1>6. buckets' = [buckets EXCEPT ![b] = one] BY <1>1
<1> HIDE DEF one
<1>7. /\ buckets' \in Seq(Bucket) /\ Len(buckets') = Len(buckets) /\ buckets'[b] = one
      /\ \A c \in 1..Len(buckets) : c # b => buckets'[c] = buckets[c]
  BY <1>2, <1>5, <1>6
<1>8. \A c \in 1..Len(buckets') : BucketOK(buckets'[c], World) /\ buckets'[c].stamp = buckets[c].stamp
  BY <1>2, <1>5, <1>7 DEF BucketOK
<1>9. HoldsOK(load, buckets') /\ BuiltOK(load, built', World) BY <1>3 DEF HoldsOK, BuiltOK
<1>10. \A u \in IndexThreads \ {t} : lookup[u].pc \notin {"builds", "built"} BY <1>2 DEF LockOK
<1>11. QED BY <1>1, <1>2, <1>3, <1>7, <1>8, <1>9, StepKeeps

LEMMA LoadKeeps ==
    ASSUME IndexIInv, NEW t \in IndexThreads, Load(t)
    PROVE  IndexIInv'
<1> USE DEF IndexIInv
<1> DEFINE i == IF lookup[t].id \in DOMAIN entries THEN lookup[t].id ELSE NoEntry
           new == [lookup[t] EXCEPT !.pc = "answered", !.id = i]
<1>1. /\ lookup[t].pc = "loads" /\ Go(t, new) /\ lookup[t] \in Lookup /\ LookupOK(lookup[t], World)
      /\ UNCHANGED <<table, entries, version, opened, buckets, newest, builder, built>>
  BY DEF Load, AtPc
<1>2. i \in Nat \cup {NoEntry} BY <1>1 DEF Lookup
<1>3. lookup[t].id = Found(table, entries, lookup[t].key) => i = lookup[t].id
  BY FoundIsThere DEF TimesOK, World
<1> HIDE DEF i
<1>4. /\ new \in Lookup /\ new.pc = "answered" /\ new.id = i /\ new.at = lookup[t].at
      /\ new.stamp = lookup[t].stamp /\ new.since = lookup[t].since /\ new.key = lookup[t].key
  BY <1>1, <1>2 DEF Lookup
<1> HIDE DEF new
<1>5. LookupOK(new, World) BY <1>1, <1>3, <1>4 DEF LookupOK, CameAt, World
<1>6. HoldsOK(new, buckets') /\ BuiltOK(new, built', World) BY <1>4 DEF HoldsOK, BuiltOK
<1>7. QED BY <1>1, <1>4, <1>5, <1>6, StepKeeps

(* A write makes everything that was read before an older version, of       *)
(* which nothing more is promised.                                          *)
LEMMA WriteKeeps ==
    ASSUME IndexIInv, NEW es \in Rows, Write(es)
    PROVE  IndexIInv'
<1> USE DEF IndexIInv
<1>1. /\ version' = version + 1 /\ entries' = es
      /\ opened' = opened \/ opened' = Append(opened, version + 1)
      /\ UNCHANGED <<table, buckets, newest, builder, built, lookup>>
  BY DEF Write
<1>2. version \in Nat /\ opened \in Seq(Nat) /\ Len(opened) >= 1
      /\ \A m \in 1..Len(opened) : opened[m] <= version
  BY DEF TimesOK, World
<1>3. /\ opened' \in Seq(Nat) /\ Len(opened') >= Len(opened)
      /\ \A m \in 1..Len(opened) : opened'[m] = opened[m]
      /\ \A m \in 1..Len(opened') : opened'[m] <= version + 1
  <2>1. CASE opened' = opened BY <1>2, <2>1
  <2>2. CASE opened' = Append(opened, version + 1)
    <3>1. version + 1 \in Nat BY <1>2
    <3>2. /\ Append(opened, version + 1) \in Seq(Nat)
          /\ Len(Append(opened, version + 1)) = Len(opened) + 1
          /\ \A m \in 1..Len(opened) : Append(opened, version + 1)[m] = opened[m]
          /\ Append(opened, version + 1)[Len(opened) + 1] = version + 1
      BY <1>2, <3>1, AppendProperties
    <3>3. Len(opened) \in Nat BY <1>2
    <3>4. ASSUME NEW m \in 1..(Len(opened) + 1) PROVE Append(opened, version + 1)[m] <= version + 1
      BY <1>2, <3>2, <3>3
    <3>5. QED BY <2>2, <3>2, <3>3, <3>4
  <2>3. QED BY <1>1, <2>1, <2>2
<1>4. /\ World.version = version /\ World.opened = opened
       /\ World'.version = version + 1 /\ World'.opened = opened' /\ World'.rows = es
  BY <1>1 DEF World
<1>5. PICK W, V :
         /\ W = World /\ W.version = version /\ W.opened = opened
         /\ V = World' /\ V.version = version + 1 /\ V.opened = opened' /\ V.rows = es
  BY <1>4
<1>6. TimesOK(V)
  <2>1. Len(opened') >= 1 BY <1>2, <1>3
  <2>2. QED BY <1>2, <1>3, <1>5, <2>1 DEF TimesOK
<1>7. /\ W.version \in Nat /\ V.version = W.version + 1 /\ Len(W.opened) \in Nat /\ Len(V.opened) \in Nat
      /\ Len(V.opened) >= Len(W.opened)
      /\ \A m \in 1..Len(W.opened) : V.opened[m] = W.opened[m] /\ W.opened[m] \in Nat
  BY <1>2, <1>3, <1>5
<1>8. ASSUME NEW ix, NEW m \in Nat, IndexOK(ix, m, W) PROVE IndexOK(ix, m, V)
  <2>1. /\ ix \in IndexOfRows /\ ix.at \in Nat /\ m \in 1..Len(W.opened)
        /\ W.opened[m] <= ix.at /\ ix.at <= W.version
    BY <1>8 DEF IndexOK, IndexOfRows
  <2>2. V.opened[m] = W.opened[m] /\ m \in 1..Len(V.opened) BY <1>7, <2>1
  <2>3. ix.at <= V.version /\ ix.at # V.version BY <1>7, <2>1
  <2>4. QED BY <2>1, <2>2, <2>3 DEF IndexOK
<1>9. ASSUME NEW l \in Lookup, LookupOK(l, W) PROVE LookupOK(l, V)
  <2>1. l.since \in Nat /\ l.stamp \in Nat /\ l.at \in Nat BY DEF Lookup
  <2>2. ASSUME l.pc # "idle" PROVE CameAt(l, V)
    <3>1. l.stamp \in 1..Len(W.opened) /\ W.opened[l.stamp] <= l.since /\ l.since <= W.version
      BY <1>9, <2>2 DEF LookupOK, CameAt
    <3>2. V.opened[l.stamp] = W.opened[l.stamp] /\ l.stamp \in 1..Len(V.opened) BY <1>7, <3>1
    <3>3. l.since <= V.version /\ l.since # V.version BY <1>7, <2>1, <3>1
    <3>4. QED BY <3>1, <3>2, <3>3 DEF CameAt
  <2>3. ASSUME l.pc \in {"loads", "answered"}
        PROVE  V.opened[l.stamp] <= l.at /\ l.at <= V.version /\ l.at # V.version
    <3>1. W.opened[l.stamp] <= l.at /\ l.at <= W.version /\ CameAt(l, W)
      BY <1>9, <2>3 DEF LookupOK
    <3>2. QED BY <1>7, <2>1, <3>1, SMTT(30) DEF CameAt
  <2>4. QED BY <2>2, <2>3 DEF LookupOK
<1>10. \A b \in 1..Len(buckets') : BucketOK(buckets'[b], V)
  <2>1. ASSUME NEW b \in 1..Len(buckets) PROVE BucketOK(buckets[b], V)
    <3>1. buckets[b] \in Bucket /\ BucketOK(buckets[b], W) BY <1>5
    <3>2. buckets[b].stamp \in Nat BY <3>1 DEF Bucket
    <3>3. QED BY <1>8, <3>1, <3>2 DEF BucketOK
  <2>2. QED BY <1>1, <2>1
<1>11. ASSUME NEW t \in IndexThreads
      PROVE LookupOK(lookup'[t], V) /\ HoldsOK(lookup'[t], buckets') /\ BuiltOK(lookup'[t], built', V)
  <2>1. /\ lookup[t] \in Lookup /\ LookupOK(lookup[t], W) /\ HoldsOK(lookup[t], buckets)
        /\ BuiltOK(lookup[t], built, W)
    BY <1>5
  <2>2. LookupOK(lookup[t], V) BY <1>9, <2>1
  <2>3. lookup[t].stamp \in Nat BY <2>1 DEF Lookup
  <2>4. BuiltOK(lookup[t], built, V) BY <1>8, <2>1, <2>3 DEF BuiltOK
  <2>5. QED BY <1>1, <2>1, <2>2, <2>4
<1>12. LockOK' BY <1>1 DEF LockOK
<1>13. QED BY <1>1, <1>6, <1>10, <1>11, <1>12, <1>5

LEMMA WritesKeep ==
    ASSUME IndexIInv, WriteLibrary
    PROVE  IndexIInv'
<1>1. /\ entries \in Rows /\ DOMAIN entries \in SUBSET (1..EntriesMax)
      /\ entries \in [DOMAIN entries -> Entry]
  <2>1. entries \in Rows BY DEF IndexIInv, TimesOK, World
  <2>2. QED BY <2>1, RowsAre
<1>2. ASSUME NEW i \in 1..EntriesMax, NEW e \in Entry,
             Write([j \in DOMAIN entries \cup {i} |-> IF j = i THEN e ELSE entries[j]])
      PROVE  IndexIInv'
  <2>1. [j \in DOMAIN entries \cup {i} |-> IF j = i THEN e ELSE entries[j]] \in Rows
    BY <1>1, ToRows
  <2>2. QED BY <1>2, <2>1, WriteKeeps
<1>3. ASSUME NEW i \in DOMAIN entries, Write([j \in DOMAIN entries \ {i} |-> entries[j]])
      PROVE  IndexIInv'
  <2>1. [j \in DOMAIN entries \ {i} |-> entries[j]] \in Rows BY <1>1, ToRows
  <2>2. QED BY <1>3, <2>1, WriteKeeps
<1>4. ASSUME NEW i \in DOMAIN entries, NEW e \in Entry, Write([entries EXCEPT ![i] = e])
      PROVE  IndexIInv'
  <2>1. [entries EXCEPT ![i] = e] \in Rows BY <1>1, ToRows
  <2>2. QED BY <1>4, <2>1, WriteKeeps
<1>5. QED BY <1>2, <1>3, <1>4 DEF WriteLibrary

-----------------------------------------------------------------------------
LEMMA IndexInduction == IndexIInv /\ [IndexNext]_indexVars => IndexIInv'
<1> SUFFICES ASSUME IndexIInv, [IndexNext]_indexVars PROVE IndexIInv' OBVIOUS
<1>1. CASE WriteLibrary BY <1>1, WritesKeep
<1>2. ASSUME NEW t \in IndexThreads, NEW k \in Keys, NEW batch \in BOOLEAN, Ask(t, k, batch)
      PROVE  IndexIInv'
  BY <1>2, AskKeeps
<1>3. ASSUME NEW t \in IndexThreads, TakeBucket(t) PROVE IndexIInv' BY <1>3, TakeKeeps
<1>4. ASSUME NEW t \in IndexThreads, LookFirst(t) \/ LookAgain(t) PROVE IndexIInv' BY <1>4, LookKeeps
<1>5. ASSUME NEW t \in IndexThreads, Build(t) PROVE IndexIInv' BY <1>5, BuildKeeps
<1>6. ASSUME NEW t \in IndexThreads, BuildFails(t) PROVE IndexIInv' BY <1>6, FailKeeps
<1>7. ASSUME NEW t \in IndexThreads, StoreIndex(t) PROVE IndexIInv' BY <1>7, StoreKeeps
<1>8. ASSUME NEW t \in IndexThreads, Load(t) PROVE IndexIInv' BY <1>8, LoadKeeps
<1>9. CASE UNCHANGED indexVars BY <1>9 DEF indexVars, IndexIInv, LockOK, World
<1>10. QED BY <1>1, <1>2, <1>3, <1>4, <1>5, <1>6, <1>7, <1>8, <1>9 DEF IndexNext

LEMMA LookupsFromIndex == IndexIInv => LookupsHold
<1> SUFFICES ASSUME IndexIInv PROVE LookupsHold OBVIOUS
<1>1. TimesOK(World) /\ World.version = version /\ World.opened = opened
      /\ World.table = table /\ World.rows = entries
  BY DEF IndexIInv, World
<1>2. ASSUME NEW t \in IndexThreads, lookup[t].pc \in {"loads", "answered"}
      PROVE  /\ opened[lookup[t].stamp] <= lookup[t].at /\ lookup[t].at <= version
             /\ lookup[t].at = version => lookup[t].id = Found(table, entries, lookup[t].key)
             /\ lookup[t].since = version => lookup[t].stamp = Mtime
             /\ lookup[t].at \in Nat /\ opened[lookup[t].stamp] \in Nat
  <2>1. LookupOK(lookup[t], World) /\ lookup[t] \in Lookup BY DEF IndexIInv
  <2>2. CameAt(lookup[t], World) BY <1>2, <2>1 DEF LookupOK
  <2>3. lookup[t].at \in Nat /\ lookup[t].since \in Nat BY <2>1 DEF Lookup
  <2>4. opened[lookup[t].stamp] \in Nat BY <1>1, <2>2 DEF CameAt, TimesOK
  <2>5. QED BY <1>1, <1>2, <2>1, <2>2, <2>3, <2>4 DEF LookupOK, CameAt, Mtime
<1>3. FreshIndex BY <1>2 DEF FreshIndex
<1>4. version \in Nat BY <1>1 DEF TimesOK
<1>5. ASSUME NEW t \in IndexThreads, lookup[t].pc = "answered",
             lookup[t].since = version, opened[Mtime] = version
      PROVE  lookup[t].id = Found(table, entries, lookup[t].key)
  BY <1>2, <1>4, <1>5
<1>6. QED BY <1>3, <1>5 DEF LookupsHold, RightEntry

(* However many requests look up ids at once, whichever of them builds the  *)
(* index and however long it takes: nobody is answered from an index older  *)
(* than the time of the files it has read (SchemaCache._sync, BuildOnce),   *)
(* and an id that nothing was written to since is the entry it names.       *)
THEOREM LookupsAreSound == IndexSpec => []LookupsHold
<1>1. IndexSpec => []IndexIInv BY IndexStarts, IndexInduction, PTL DEF IndexSpec
<1>2. QED BY <1>1, LookupsFromIndex, PTL

-----------------------------------------------------------------------------
(***************************************************************************)
(* The health scan and the sweep. What was found of a file holds as long   *)
(* as its time is the file's; a scan that nothing disturbs has for each    *)
(* song that is left the rows it read, and exact ones for the others; and  *)
(* whatever is referred to was in the library once, so that it is there or *)
(* has been out.                                                           *)
(***************************************************************************)

DecodeRow  == [track : Tracks, mtime : Nat, ok : BOOLEAN]
MissingRow == [track : Tracks, ok : BOOLEAN]
AudioFile  == [there : BOOLEAN, mtime : Nat, sound : BOOLEAN]
Looking    == {"song", "decode", "record"}
LookFields == {"pc", "full", "items", "left", "decodes", "missings", "checked", "row"}
TracksOf(checks) == {r.track : r \in checks}

ScanOK(s) ==
    /\ s.pc \in {"idle", "checks", "done"} \cup Looking
    /\ s.pc # "idle" => s.items \subseteq Tracks
    /\ s.pc \in Looking => DOMAIN s = LookFields /\ s.left \subseteq s.items
    /\ s.pc \in {"decode", "record"} => s.row \in DecodeRow /\ s.row.track \in s.left

HealthTyped ==
    /\ tracks \subseteq Tracks /\ liked \subseteq Tracks
    /\ audio \in [Tracks -> AudioFile]
    /\ decodes \subseteq DecodeRow /\ missings \subseteq MissingRow
    /\ ScanOK(scan)

\* What was found of a file of that time, and is so if it is the file's time still.
FoundTrue(files, r, ok) ==
    r.mtime <= files[r.track].mtime /\ (ok /\ r.mtime = files[r.track].mtime => files[r.track].sound)

FoundInv ==
    /\ \A r \in decodes : FoundTrue(audio, r, r.ok)
    /\ scan.pc = "decode" => FoundTrue(audio, scan.row, FALSE)
    /\ scan.pc = "record" => FoundTrue(audio, scan.row, scan.row.ok)

\* Of a scan that nothing disturbed: what it has still to look at is as it was read, the
\* rest is exact.
SameRows(checks, checks2, t) == \A r : r.track = t => (r \in checks <=> r \in checks2)
ChecksExact(t, decs, miss) ==
    /\ Flagged(miss, t) <=> ~audio[t].there
    /\ audio[t].there => \E r \in decs : r.track = t /\ r.mtime = audio[t].mtime

Quiet(s) == s.pc # "idle" /\ ~s.full
SteadyLook(s, decs, miss) ==
    /\ TracksOf(decs) \cup TracksOf(miss) \subseteq s.checked \cup s.items
    /\ \A t \in s.left : SameRows(decs, s.decodes, t)
    /\ \A t \in s.left : SameRows(miss, s.missings, t) \/ (s.pc # "song" /\ t = s.row.track)
    /\ \A t \in s.items \ s.left : ChecksExact(t, decs, miss)
SteadyFound(s, miss) ==
    audio[s.row.track].there /\ audio[s.row.track].mtime = s.row.mtime /\ ~Flagged(miss, s.row.track)
SteadyDone(s, decs, miss) ==
    /\ \A t \in s.items : ChecksExact(t, decs, miss)
    /\ TracksOf(decs) \cup TracksOf(miss) \subseteq s.items

SteadyScan(s, decs, miss) ==
    /\ s.pc \in Looking => SteadyLook(s, decs, miss)
    /\ s.pc \in {"decode", "record"} => SteadyFound(s, miss)
    /\ s.pc = "done" => SteadyDone(s, decs, miss)
SteadyInv ==
    steady /\ Quiet(scan) => scan.items = tracks /\ SteadyScan(scan, decodes, missings)

\* Whatever is referred to was in the library once: it is there, or it has been out.
AbsentInv ==
    /\ liked \cup TracksOf(decodes) \cup TracksOf(missings) \subseteq tracks \cup absent
    /\ scan.pc # "idle" => scan.items \subseteq tracks \cup absent
    /\ sweeping.pc = "resolve" => sweeping.refs \subseteq tracks \cup absent
    /\ sweeping.pc = "delete" => sweeping.stale \subseteq absent

HealthInv == HealthTyped /\ FoundInv /\ SteadyInv /\ AbsentInv

LikesStep == liked \ liked' \subseteq absent

LEMMA RecordedIs ==
    ASSUME NEW checks, NEW row
    PROVE  /\ \A r \in Recorded(checks, row) : r = row \/ (r \in checks /\ r.track # row.track)
           /\ row \in Recorded(checks, row)
           /\ \A t : t # row.track => SameRows(Recorded(checks, row), checks, t)
           /\ TracksOf(Recorded(checks, row)) \subseteq TracksOf(checks) \cup {row.track}
           /\ Flagged(Recorded(checks, row), row.track) <=> ~row.ok
BY DEF Recorded, SameRows, TracksOf, Flagged

LEMMA SameFlag == ASSUME NEW checks, NEW checks2, NEW t, SameRows(checks, checks2, t)
                  PROVE  Flagged(checks, t) <=> Flagged(checks2, t)
BY DEF SameRows, Flagged

LEMMA SameExact ==
    ASSUME NEW t, NEW d1, NEW d2, NEW m1, NEW m2, SameRows(d1, d2, t), SameRows(m1, m2, t)
    PROVE  ChecksExact(t, d1, m1) <=> ChecksExact(t, d2, m2)
BY DEF ChecksExact, SameRows, Flagged

-----------------------------------------------------------------------------
\* What a step of the scan keeps: all but the scan and its two tables is as it was.
ScanMoves(s, decs, miss) ==
    /\ scan' = s /\ decodes' = decs /\ missings' = miss
    /\ Outside

LEMMA ScanKeeps ==
    ASSUME HealthInv, NEW s, NEW decs, NEW miss, ScanMoves(s, decs, miss),
           ScanOK(s), decs \subseteq DecodeRow, miss \subseteq MissingRow,
           \A r \in decs : FoundTrue(audio, r, r.ok),
           s.pc = "decode" => FoundTrue(audio, s.row, FALSE),
           s.pc = "record" => FoundTrue(audio, s.row, s.row.ok),
           steady' /\ Quiet(s) => s.items = tracks /\ SteadyScan(s, decs, miss),
           TracksOf(decs) \cup TracksOf(miss) \subseteq tracks \cup absent,
           s.pc # "idle" => s.items \subseteq tracks \cup absent
    PROVE  HealthInv' /\ LikesStep
<1>1. UNCHANGED <<tracks, audio, liked, sweeping, absent>> BY DEF ScanMoves, Outside
<1>2. HealthTyped' BY <1>1 DEF HealthInv, HealthTyped, ScanMoves
<1>3. FoundInv' BY <1>1 DEF FoundInv, ScanMoves
<1>4. SteadyInv'
  BY <1>1 DEF SteadyInv, ScanMoves, SteadyScan, SteadyLook, SteadyFound, SteadyDone, ChecksExact
<1>5. AbsentInv' BY <1>1 DEF HealthInv, AbsentInv, ScanMoves
<1>6. LikesStep BY <1>1 DEF LikesStep
<1>7. QED BY <1>2, <1>3, <1>4, <1>5, <1>6 DEF HealthInv

LEMMA ScanFacts ==
    ASSUME HealthInv
    PROVE  /\ ScanOK(scan) /\ decodes \subseteq DecodeRow /\ missings \subseteq MissingRow
           /\ tracks \subseteq Tracks /\ audio \in [Tracks -> AudioFile]
           /\ \A r \in decodes : FoundTrue(audio, r, r.ok)
           /\ TracksOf(decodes) \cup TracksOf(missings) \subseteq tracks \cup absent
           /\ scan.pc # "idle" => scan.items \subseteq tracks \cup absent
           /\ steady /\ Quiet(scan) => scan.items = tracks /\ SteadyScan(scan, decodes, missings)
BY DEF HealthInv, HealthTyped, FoundInv, AbsentInv, SteadyInv

LEMMA StartKeepsHealth ==
    ASSUME HealthInv, NEW full \in BOOLEAN, StartScan(full) PROVE HealthInv' /\ LikesStep
<1> DEFINE s == [pc |-> "checks", full |-> full, items |-> tracks]
<1>1. ScanMoves(s, decodes, missings) BY DEF StartScan, ScanMoves
<1>2. s.pc = "checks" /\ s.items = tracks OBVIOUS
<1> HIDE DEF s
<1>3. ScanOK(s) BY <1>2, ScanFacts DEF ScanOK, Looking
<1>4. SteadyScan(s, decodes, missings) BY <1>2 DEF SteadyScan, Looking
<1>5. QED BY <1>1, <1>2, <1>3, <1>4, ScanFacts, ScanKeeps

LEMMA ReadKeepsHealth == ASSUME HealthInv, ReadChecks PROVE HealthInv' /\ LikesStep
<1> DEFINE s == [pc |-> "song", full |-> scan.full, items |-> scan.items, left |-> scan.items,
                 decodes |-> IF scan.full THEN {} ELSE decodes,
                 missings |-> IF scan.full THEN {} ELSE missings,
                 checked |-> {r.track : r \in decodes \cup missings}, row |-> NoRow]
<1>1. ScanMoves(s, decodes, missings) /\ scan.pc = "checks" /\ steady' = steady
  BY DEF ReadChecks, ScanMoves
<1>2. /\ s.pc = "song" /\ s.full = scan.full /\ s.items = scan.items /\ s.left = scan.items
      /\ ~scan.full => s.decodes = decodes /\ s.missings = missings
      /\ s.checked = TracksOf(decodes) \cup TracksOf(missings) /\ DOMAIN s = LookFields
  BY DEF TracksOf, LookFields
<1> HIDE DEF s
<1>3. ScanOK(s) BY <1>1, <1>2, ScanFacts DEF ScanOK, Looking
<1>4. Quiet(s) => Quiet(scan) /\ SteadyScan(s, decodes, missings)
  BY <1>1, <1>2 DEF SteadyScan, SteadyLook, Looking, Quiet, SameRows
<1>5. QED BY <1>1, <1>2, <1>3, <1>4, ScanFacts, ScanKeeps

LEMMA LookKeepsHealth ==
    ASSUME HealthInv, NEW t \in Tracks, LookAtSong(t) PROVE HealthInv' /\ LikesStep
<1> DEFINE r0 == [track |-> t, mtime |-> audio[t].mtime, ok |-> FALSE]
           past == [scan EXCEPT !.left = scan.left \ {t}]
           dec  == [scan EXCEPT !.pc = "decode", !.row = r0]
           miss == IF ~audio[t].there
                     THEN IF Flagged(scan.missings, t) THEN missings
                          ELSE Recorded(missings, [track |-> t, ok |-> FALSE])
                     ELSE IF Reappeared(t) THEN Recorded(missings, [track |-> t, ok |-> TRUE])
                          ELSE missings
<1>1. /\ scan.pc = "song" /\ t \in scan.left /\ DOMAIN scan = LookFields /\ scan.left \subseteq scan.items
      /\ scan.items \subseteq Tracks
  BY ScanFacts DEF LookAtSong, ScanOK, Looking
<1>2. /\ audio[t].there /\ ~Unchanged(t) => scan' = dec
      /\ ~(audio[t].there /\ ~Unchanged(t)) => scan' = past
      /\ missings' = miss /\ UNCHANGED <<decodes, steady>> /\ Outside
  BY DEF LookAtSong
<1>3. /\ past.pc = "song" /\ past.full = scan.full /\ past.items = scan.items
      /\ past.left = scan.left \ {t} /\ past.decodes = scan.decodes /\ past.missings = scan.missings
      /\ past.checked = scan.checked /\ DOMAIN past = LookFields
  BY <1>1 DEF LookFields
<1>4. /\ dec.pc = "decode" /\ dec.full = scan.full /\ dec.items = scan.items
      /\ dec.left = scan.left /\ dec.decodes = scan.decodes /\ dec.missings = scan.missings
      /\ dec.checked = scan.checked /\ DOMAIN dec = LookFields /\ dec.row = r0
  BY <1>1 DEF LookFields
<1>5. /\ r0.track = t /\ r0.mtime = audio[t].mtime /\ r0 \in DecodeRow
  BY ScanFacts DEF DecodeRow, AudioFile
<1> HIDE DEF past, dec, r0
<1>6. /\ miss \subseteq MissingRow /\ TracksOf(miss) \subseteq TracksOf(missings) \cup {t}
      /\ \A u : u # t => SameRows(miss, missings, u)
  <2> DEFINE row(ok) == [track |-> t, ok |-> ok]
  <2>1. \A ok \in BOOLEAN : row(ok) \in MissingRow /\ row(ok).track = t BY DEF MissingRow
  <2>2. miss = missings \/ \E ok \in BOOLEAN : miss = Recorded(missings, row(ok)) OBVIOUS
  <2> HIDE DEF row, miss
  <2>3. CASE miss = missings BY <2>3, ScanFacts DEF SameRows
  <2>4. CASE \E ok \in BOOLEAN : miss = Recorded(missings, row(ok))
    <3>1. PICK ok \in BOOLEAN : miss = Recorded(missings, row(ok)) BY <2>4
    <3>2. \A r \in miss : r = row(ok) \/ r \in missings BY <3>1, RecordedIs
    <3>3. QED BY <2>1, <3>1, <3>2, RecordedIs, ScanFacts
  <2>5. QED BY <2>2, <2>3, <2>4
<1>7. SameRows(missings, scan.missings, t) => (Flagged(miss, t) <=> ~audio[t].there)
  <2> SUFFICES ASSUME SameRows(missings, scan.missings, t)
               PROVE  Flagged(miss, t) <=> ~audio[t].there
    OBVIOUS
  <2>1. Flagged(missings, t) <=> Flagged(scan.missings, t) BY SameFlag
  <2>2. /\ Flagged(Recorded(missings, [track |-> t, ok |-> FALSE]), t)
        /\ ~Flagged(Recorded(missings, [track |-> t, ok |-> TRUE]), t)
    BY RecordedIs
  <2>3. QED BY <2>1, <2>2 DEF Reappeared
<1> HIDE DEF miss
<1>8. TracksOf(decodes) \cup TracksOf(miss) \subseteq tracks \cup absent
  BY <1>1, <1>6, ScanFacts
<1>9. CASE audio[t].there /\ ~Unchanged(t)
  <2>1. ScanMoves(dec, decodes, miss) BY <1>2, <1>9 DEF ScanMoves
  <2>2. ScanOK(dec) BY <1>1, <1>4, <1>5, ScanFacts DEF ScanOK, Looking
  <2>3. FoundTrue(audio, dec.row, FALSE)
    BY <1>4, <1>5, ScanFacts DEF FoundTrue, AudioFile
  <2>4. ASSUME steady, Quiet(dec) PROVE dec.items = tracks /\ SteadyScan(dec, decodes, miss)
    <3>1. Quiet(scan) BY <1>1, <1>4, <2>4 DEF Quiet
    <3>2. scan.items = tracks /\ SteadyLook(scan, decodes, missings)
      BY <1>1, <2>4, <3>1, ScanFacts DEF SteadyScan, Looking
    <3>3. SameRows(missings, scan.missings, t) BY <1>1, <3>2 DEF SteadyLook
    <3>4. SteadyFound(dec, miss) BY <1>4, <1>5, <1>7, <1>9, <3>3 DEF SteadyFound
    <3>5. \A u \in dec.left : SameRows(miss, dec.missings, u) \/ (dec.pc # "song" /\ u = dec.row.track)
      BY <1>1, <1>4, <1>5, <1>6, <3>2 DEF SteadyLook, SameRows
    <3>6. \A u \in dec.items \ dec.left : ChecksExact(u, decodes, miss)
      <4>1. \A u : SameRows(decodes, decodes, u) BY DEF SameRows
      <4>2. \A u \in dec.items \ dec.left : u # t /\ ChecksExact(u, decodes, missings)
        BY <1>1, <1>4, <3>2 DEF SteadyLook
      <4>3. QED BY <1>6, <4>1, <4>2, SameExact
    <3>7. TracksOf(decodes) \cup TracksOf(miss) \subseteq dec.checked \cup dec.items
      BY <1>1, <1>4, <1>6, <3>2 DEF SteadyLook
    <3>8. SteadyLook(dec, decodes, miss) BY <1>4, <3>2, <3>5, <3>6, <3>7 DEF SteadyLook
    <3>9. QED BY <1>4, <3>2, <3>4, <3>8 DEF SteadyScan
  <2>5. QED BY <1>2, <1>4, <1>6, <1>8, <2>1, <2>2, <2>3, <2>4, ScanFacts, ScanKeeps, <1>1
<1>10. CASE ~(audio[t].there /\ ~Unchanged(t))
  <2>1. ScanMoves(past, decodes, miss) BY <1>2, <1>10 DEF ScanMoves
  <2>2. ScanOK(past) BY <1>1, <1>3, ScanFacts DEF ScanOK, Looking
  <2>4. ASSUME steady, Quiet(past) PROVE past.items = tracks /\ SteadyScan(past, decodes, miss)
    <3>1. Quiet(scan) BY <1>1, <1>3, <2>4 DEF Quiet
    <3>2. scan.items = tracks /\ SteadyLook(scan, decodes, missings)
      BY <1>1, <2>4, <3>1, ScanFacts DEF SteadyScan, Looking
    <3>3. SameRows(missings, scan.missings, t) /\ SameRows(decodes, scan.decodes, t)
      BY <1>1, <3>2 DEF SteadyLook
    <3>4. ChecksExact(t, decodes, miss)
      <4>1. Unchanged(t) => \E r \in decodes : r.track = t /\ r.mtime = audio[t].mtime
        BY <3>3 DEF Unchanged, SameRows
      <4>2. QED BY <1>7, <1>10, <3>3, <4>1 DEF ChecksExact
    <3>5. \A u \in past.left : SameRows(miss, past.missings, u)
      BY <1>1, <1>3, <1>6, <3>2 DEF SteadyLook, SameRows
    <3>6. \A u \in past.items \ past.left : ChecksExact(u, decodes, miss)
      <4>1. \A u : SameRows(decodes, decodes, u) BY DEF SameRows
      <4>2. \A u \in scan.items \ scan.left : u # t /\ ChecksExact(u, decodes, missings)
        BY <1>1, <3>2 DEF SteadyLook
      <4>3. \A u \in scan.items \ scan.left : ChecksExact(u, decodes, miss)
        BY <1>6, <4>1, <4>2, SameExact
      <4>4. QED BY <1>3, <3>4, <4>3
    <3>7. TracksOf(decodes) \cup TracksOf(miss) \subseteq past.checked \cup past.items
      BY <1>1, <1>3, <1>6, <3>2 DEF SteadyLook
    <3>8. \A u \in past.left : SameRows(decodes, past.decodes, u) BY <1>3, <3>2 DEF SteadyLook
    <3>9. SteadyLook(past, decodes, miss) BY <3>5, <3>6, <3>7, <3>8 DEF SteadyLook
    <3>10. QED BY <1>3, <3>2, <3>9 DEF SteadyScan, Looking
  <2>5. QED BY <1>1, <1>2, <1>3, <1>6, <1>8, <2>1, <2>2, <2>4, ScanFacts, ScanKeeps
<1>11. QED BY <1>9, <1>10

LEMMA DecodeKeepsHealth == ASSUME HealthInv, Decode PROVE HealthInv' /\ LikesStep
<1>1. PICK ok \in {audio[scan.row.track].there /\ audio[scan.row.track].sound, FALSE} :
         scan' = [scan EXCEPT !.pc = "record", !.row.ok = ok]
  BY DEF Decode
<1> DEFINE row == scan.row
           s == [scan EXCEPT !.pc = "record", !.row.ok = ok]
<1>2. /\ scan.pc = "decode" /\ DOMAIN scan = LookFields /\ row \in DecodeRow /\ row.track \in scan.left
      /\ ScanMoves(s, decodes, missings) /\ steady' = steady
  BY <1>1, ScanFacts DEF Decode, ScanMoves, ScanOK, Looking
<1>3. audio[row.track] \in AudioFile /\ FoundTrue(audio, row, FALSE)
  BY <1>2, ScanFacts DEF DecodeRow, HealthInv, FoundInv
<1>4. ok \in BOOLEAN /\ (ok => audio[row.track].sound) BY <1>1, <1>3 DEF AudioFile
<1> DEFINE row2 == [row EXCEPT !.ok = ok]
<1>5. row2 \in DecodeRow /\ row2.track = row.track /\ row2.mtime = row.mtime /\ row2.ok = ok
  BY <1>2, <1>4 DEF DecodeRow
<1>6. /\ s.pc = "record" /\ s.full = scan.full /\ s.items = scan.items /\ s.left = scan.left
      /\ s.decodes = scan.decodes /\ s.missings = scan.missings /\ s.checked = scan.checked
      /\ DOMAIN s = LookFields /\ s.row = row2
  BY <1>2 DEF LookFields
<1> HIDE DEF s, row2
<1>7. FoundTrue(audio, s.row, s.row.ok) BY <1>3, <1>4, <1>5, <1>6 DEF FoundTrue
<1>8. ScanOK(s) BY <1>2, <1>5, <1>6, ScanFacts DEF ScanOK, Looking
<1>9. ASSUME steady, Quiet(s) PROVE s.items = tracks /\ SteadyScan(s, decodes, missings)
  <2>1. Quiet(scan) BY <1>2, <1>6, <1>9 DEF Quiet
  <2>2. /\ scan.items = tracks /\ SteadyLook(scan, decodes, missings) /\ SteadyFound(scan, missings)
    BY <1>2, <1>9, <2>1, ScanFacts DEF SteadyScan, Looking
  <2>3. SteadyLook(s, decodes, missings) BY <1>2, <1>5, <1>6, <2>2 DEF SteadyLook
  <2>4. SteadyFound(s, missings) BY <1>5, <1>6, <2>2 DEF SteadyFound
  <2>5. QED BY <1>6, <2>2, <2>3, <2>4 DEF SteadyScan
<1>10. QED BY <1>2, <1>6, <1>7, <1>8, <1>9, ScanFacts, ScanKeeps

LEMMA RecordKeepsHealth == ASSUME HealthInv, Record PROVE HealthInv' /\ LikesStep
<1> DEFINE row == scan.row
           s == [scan EXCEPT !.pc = "song", !.left = scan.left \ {row.track}, !.row = NoRow]
           decs == Recorded(decodes, row)
<1>1. /\ scan.pc = "record" /\ DOMAIN scan = LookFields /\ row \in DecodeRow /\ row.track \in scan.left
      /\ scan.left \subseteq scan.items /\ scan.items \subseteq Tracks
      /\ ScanMoves(s, decs, missings) /\ steady' = steady
  BY ScanFacts DEF Record, ScanMoves, ScanOK, Looking
<1>2. /\ s.pc = "song" /\ s.full = scan.full /\ s.items = scan.items
      /\ s.left = scan.left \ {row.track} /\ s.decodes = scan.decodes /\ s.missings = scan.missings
      /\ s.checked = scan.checked /\ DOMAIN s = LookFields
  BY <1>1 DEF LookFields
<1> HIDE DEF s
<1>3. /\ \A r \in decs : r = row \/ (r \in decodes /\ r.track # row.track)
      /\ row \in decs /\ \A t : t # row.track => SameRows(decs, decodes, t)
      /\ TracksOf(decs) \subseteq TracksOf(decodes) \cup {row.track}
  BY RecordedIs
<1> HIDE DEF decs
<1>4. FoundTrue(audio, row, row.ok) BY <1>1 DEF HealthInv, FoundInv
<1>5. decs \subseteq DecodeRow /\ \A r \in decs : FoundTrue(audio, r, r.ok)
  BY <1>1, <1>3, <1>4, ScanFacts
<1>6. TracksOf(decs) \cup TracksOf(missings) \subseteq tracks \cup absent
  BY <1>1, <1>3, ScanFacts
<1>7. ScanOK(s) BY <1>1, <1>2 DEF ScanOK, Looking
<1>8. ASSUME steady, Quiet(s) PROVE s.items = tracks /\ SteadyScan(s, decs, missings)
  <2>1. Quiet(scan) BY <1>1, <1>2, <1>8 DEF Quiet
  <2>2. /\ scan.items = tracks /\ SteadyLook(scan, decodes, missings) /\ SteadyFound(scan, missings)
    BY <1>1, <1>8, <2>1, ScanFacts DEF SteadyScan, Looking
  <2>3. ChecksExact(row.track, decs, missings) BY <1>3, <2>2 DEF SteadyFound, ChecksExact
  <2>4. \A t : SameRows(missings, missings, t) BY DEF SameRows
  <2>5. \A t \in s.items \ s.left : ChecksExact(t, decs, missings)
    <3>1. \A t \in scan.items \ scan.left : t # row.track /\ ChecksExact(t, decodes, missings)
      BY <1>1, <2>2 DEF SteadyLook
    <3>2. \A t \in scan.items \ scan.left : ChecksExact(t, decs, missings)
      BY <1>3, <2>4, <3>1, SameExact
    <3>3. QED BY <1>2, <2>3, <3>2
  <2>6. \A t \in s.left : SameRows(decs, s.decodes, t) /\ SameRows(missings, s.missings, t)
    BY <1>1, <1>2, <1>3, <2>2 DEF SteadyLook, SameRows
  <2>7. TracksOf(decs) \cup TracksOf(missings) \subseteq s.checked \cup s.items
    BY <1>1, <1>2, <1>3, <2>2 DEF SteadyLook
  <2>8. SteadyLook(s, decs, missings) BY <2>5, <2>6, <2>7 DEF SteadyLook
  <2>9. QED BY <1>2, <2>2, <2>8 DEF SteadyScan
<1>9. QED BY <1>1, <1>2, <1>5, <1>6, <1>7, <1>8, ScanFacts, ScanKeeps

LEMMA OfTracksIs ==
    ASSUME NEW checks, NEW set
    PROVE  /\ OfTracks(checks, set) \subseteq checks
           /\ TracksOf(OfTracks(checks, set)) = TracksOf(checks) \cap set
           /\ \A t \in set : SameRows(OfTracks(checks, set), checks, t)
BY DEF OfTracks, TracksOf, SameRows

LEMMA PruneKeepsHealth == ASSUME HealthInv, PruneChecks PROVE HealthInv' /\ LikesStep
<1> DEFINE kept == Tracks \ (scan.checked \ scan.items)
           decs == OfTracks(decodes, kept)
           miss == OfTracks(missings, kept)
           s == [pc |-> "done", full |-> scan.full, items |-> scan.items]
<1>1. /\ scan.pc = "song" /\ scan.left = {} /\ ScanMoves(s, decs, miss) /\ steady' = steady
      /\ scan.items \subseteq Tracks
  BY ScanFacts DEF PruneChecks, ScanMoves, ScanOK, Looking
<1>2. s.pc = "done" /\ s.full = scan.full /\ s.items = scan.items OBVIOUS
<1>3. /\ decs \subseteq decodes /\ miss \subseteq missings
      /\ TracksOf(decs) = TracksOf(decodes) \cap kept /\ TracksOf(miss) = TracksOf(missings) \cap kept
      /\ \A t \in kept : SameRows(decs, decodes, t) /\ SameRows(miss, missings, t)
  BY OfTracksIs
<1> HIDE DEF s, decs, miss
<1>4. ScanOK(s) BY <1>1, <1>2 DEF ScanOK, Looking
<1>5. ASSUME steady, Quiet(s) PROVE s.items = tracks /\ SteadyScan(s, decs, miss)
  <2>1. Quiet(scan) BY <1>1, <1>2, <1>5 DEF Quiet
  <2>2. scan.items = tracks /\ SteadyLook(scan, decodes, missings)
    BY <1>1, <1>5, <2>1, ScanFacts DEF SteadyScan, Looking
  <2>3. \A t \in scan.items : t \in kept /\ ChecksExact(t, decodes, missings)
    BY <1>1, <2>2 DEF SteadyLook
  <2>4. \A t \in scan.items : ChecksExact(t, decs, miss) BY <1>3, <2>3, SameExact
  <2>5. TracksOf(decs) \cup TracksOf(miss) \subseteq scan.items BY <1>3, <2>2 DEF SteadyLook
  <2>6. SteadyDone(s, decs, miss) BY <1>2, <2>4, <2>5 DEF SteadyDone
  <2>7. QED BY <1>2, <2>2, <2>6 DEF SteadyScan, Looking
<1>6. /\ decs \subseteq DecodeRow /\ miss \subseteq MissingRow
      /\ \A r \in decs : FoundTrue(audio, r, r.ok)
      /\ TracksOf(decs) \cup TracksOf(miss) \subseteq tracks \cup absent
  BY <1>3, ScanFacts
<1>7. QED BY <1>1, <1>2, <1>4, <1>5, <1>6, ScanFacts, ScanKeeps

LEMMA EndKeepsHealth == ASSUME HealthInv, EndScan PROVE HealthInv' /\ LikesStep
<1>1. ScanMoves(NoScan, decodes, missings) BY DEF EndScan, ScanMoves
<1>2. NoScan.pc = "idle" BY DEF NoScan
<1>3. ScanOK(NoScan) BY <1>2 DEF ScanOK, Looking
<1>4. ~Quiet(NoScan) BY <1>2 DEF Quiet
<1>5. QED BY <1>1, <1>2, <1>3, <1>4, ScanFacts, ScanKeeps

-----------------------------------------------------------------------------
LEMMA ChangeKeepsHealth ==
    ASSUME HealthInv, NEW t \in Tracks, ReplaceFile(t) \/ LoseOrFindFile(t) \/ LeaveOrJoin(t) \/ Like(t)
    PROVE  HealthInv' /\ LikesStep
<1>1. /\ ~steady' /\ UNCHANGED <<decodes, missings, scan, sweeping>> /\ liked \subseteq liked'
  BY DEF ReplaceFile, LoseOrFindFile, LeaveOrJoin, Like, Changed
<1>2. SteadyInv' /\ LikesStep BY <1>1 DEF SteadyInv, LikesStep
<1>3. CASE ReplaceFile(t)
  <2>1. UNCHANGED <<tracks, liked, absent>> BY <1>3 DEF ReplaceFile
  <2>2. PICK sound \in BOOLEAN :
           audio' = [audio EXCEPT ![t] = [there |-> TRUE, mtime |-> audio[t].mtime + 1, sound |-> sound]]
    BY <1>3 DEF ReplaceFile
  <2>3. audio \in [Tracks -> AudioFile] BY ScanFacts
  <2> DEFINE audioFile == [there |-> TRUE, mtime |-> audio[t].mtime + 1, sound |-> sound]
  <2>4. audio[t].mtime \in Nat BY <2>3 DEF AudioFile
  <2>5. audioFile \in AudioFile /\ audioFile.mtime = audio[t].mtime + 1 BY <2>4 DEF AudioFile
  <2>6. audio' = [audio EXCEPT ![t] = audioFile] BY <2>2
  <2> HIDE DEF audioFile
  <2>7. /\ audio' \in [Tracks -> AudioFile]
        /\ \A u \in Tracks : audio'[u] = IF u = t THEN audioFile ELSE audio[u]
    BY <2>3, <2>5, <2>6
  <2>8. \A r \in DecodeRow : \A ok \in BOOLEAN : FoundTrue(audio, r, ok) => FoundTrue(audio', r, ok)
    <3> SUFFICES ASSUME NEW r \in DecodeRow, NEW ok \in BOOLEAN, FoundTrue(audio, r, ok)
                 PROVE  FoundTrue(audio', r, ok)
      OBVIOUS
    <3>1. r.track \in Tracks /\ r.mtime \in Nat BY DEF DecodeRow
    <3>2. CASE r.track = t
      <4>1. r.mtime <= audio[t].mtime BY <3>2 DEF FoundTrue
      <4>2. r.mtime <= audioFile.mtime /\ r.mtime # audioFile.mtime BY <2>4, <2>5, <3>1, <4>1
      <4>3. QED BY <2>7, <3>1, <3>2, <4>2 DEF FoundTrue
    <3>3. CASE r.track # t BY <2>7, <3>1, <3>3 DEF FoundTrue
    <3>4. QED BY <3>2, <3>3
  <2>9. FoundInv'
    <3>1. \A r \in decodes : r \in DecodeRow /\ r.ok \in BOOLEAN BY ScanFacts DEF DecodeRow
    <3>2. scan.pc \in {"decode", "record"} => scan.row \in DecodeRow /\ scan.row.ok \in BOOLEAN
      BY ScanFacts DEF ScanOK, DecodeRow
    <3>3. FALSE \in BOOLEAN OBVIOUS
    <3>4. QED BY <1>1, <2>8, <3>1, <3>2, <3>3 DEF HealthInv, FoundInv
  <2>10. HealthTyped' BY <1>1, <2>1, <2>7 DEF HealthInv, HealthTyped
  <2>11. AbsentInv' BY <1>1, <2>1 DEF HealthInv, AbsentInv
  <2>12. QED BY <1>2, <2>9, <2>10, <2>11 DEF HealthInv
<1>4. CASE LoseOrFindFile(t)
  <2>1. UNCHANGED <<tracks, liked, absent>> /\ audio' = [audio EXCEPT ![t].there = ~@]
    BY <1>4 DEF LoseOrFindFile
  <2>2. audio \in [Tracks -> AudioFile] BY ScanFacts
  <2> DEFINE audioFile == [audio[t] EXCEPT !.there = ~audio[t].there]
  <2>3. audioFile \in AudioFile /\ audioFile.mtime = audio[t].mtime /\ audioFile.sound = audio[t].sound
    BY <2>2 DEF AudioFile
  <2>4. audio' = [audio EXCEPT ![t] = audioFile] BY <2>1
  <2> HIDE DEF audioFile
  <2>5. /\ audio' \in [Tracks -> AudioFile]
        /\ \A u \in Tracks : audio'[u].mtime = audio[u].mtime /\ audio'[u].sound = audio[u].sound
    BY <2>2, <2>3, <2>4
  <2>6. \A r \in DecodeRow : \A ok : FoundTrue(audio, r, ok) => FoundTrue(audio', r, ok)
    BY <2>5 DEF FoundTrue, DecodeRow
  <2>7. FoundInv'
    <3>1. \A r \in decodes : r \in DecodeRow BY ScanFacts
    <3>2. scan.pc \in {"decode", "record"} => scan.row \in DecodeRow BY ScanFacts DEF ScanOK
    <3>3. QED BY <1>1, <2>6, <3>1, <3>2 DEF HealthInv, FoundInv
  <2>8. HealthTyped' BY <1>1, <2>1, <2>5 DEF HealthInv, HealthTyped
  <2>9. AbsentInv' BY <1>1, <2>1 DEF HealthInv, AbsentInv
  <2>10. QED BY <1>2, <2>7, <2>8, <2>9 DEF HealthInv
<1>5. CASE LeaveOrJoin(t)
  <2>1. /\ UNCHANGED <<audio, liked>> /\ tracks' \subseteq Tracks
        /\ tracks \cup absent \subseteq tracks' \cup absent' /\ absent \subseteq absent'
    BY <1>5, ScanFacts DEF LeaveOrJoin
  <2>2. HealthTyped' BY <1>1, <2>1 DEF HealthInv, HealthTyped
  <2>3. FoundInv' BY <1>1, <2>1 DEF HealthInv, FoundInv
  <2>4. AbsentInv' BY <1>1, <2>1 DEF HealthInv, AbsentInv
  <2>5. QED BY <1>2, <2>2, <2>3, <2>4 DEF HealthInv
<1>6. CASE Like(t)
  <2>1. /\ UNCHANGED <<tracks, audio>> /\ t \in tracks /\ liked' = liked \cup {t}
        /\ tracks \cup absent \subseteq tracks \cup absent'
        /\ sweeping.pc = "delete" => absent' = absent
    BY <1>6 DEF Like
  <2>2. HealthTyped' BY <1>1, <2>1 DEF HealthInv, HealthTyped
  <2>3. FoundInv' BY <1>1, <2>1 DEF HealthInv, FoundInv
  <2>4. AbsentInv' BY <1>1, <2>1 DEF HealthInv, AbsentInv
  <2>5. QED BY <1>2, <2>2, <2>3, <2>4 DEF HealthInv
<1>7. QED BY <1>3, <1>4, <1>5, <1>6

LEMMA SweepStepKeeps ==
    ASSUME HealthInv, StartSweep \/ ResolveRefs \/ UNCHANGED healthVars PROVE HealthInv' /\ LikesStep
<1>1. UNCHANGED <<tracks, audio, decodes, missings, liked, scan, steady, absent>>
  BY DEF StartSweep, ResolveRefs, healthVars
<1>2. HealthTyped' /\ FoundInv' BY <1>1 DEF HealthInv, HealthTyped, FoundInv
<1>3. SteadyInv'
  BY <1>1 DEF HealthInv, SteadyInv, SteadyScan, SteadyLook, SteadyFound, SteadyDone, ChecksExact
<1>4. AbsentInv'
  <2>1. CASE StartSweep
    <3>1. sweeping'.pc = "resolve" /\ sweeping'.refs = liked \cup {r.track : r \in decodes \cup missings}
      BY <2>1 DEF StartSweep
    <3>2. sweeping'.refs \subseteq tracks \cup absent BY <3>1 DEF HealthInv, AbsentInv, TracksOf
    <3>3. QED BY <1>1, <3>1, <3>2 DEF HealthInv, AbsentInv
  <2>2. CASE ResolveRefs
    <3>1. sweeping.pc = "resolve" /\ sweeping'.pc = "delete" /\ sweeping'.stale = StaleRefs(sweeping.refs)
      BY <2>2 DEF ResolveRefs
    <3>2. StaleRefs(sweeping.refs) \subseteq sweeping.refs \ tracks BY DEF StaleRefs
    <3>3. QED BY <1>1, <3>1, <3>2 DEF HealthInv, AbsentInv
  <2>3. CASE UNCHANGED healthVars BY <2>3 DEF healthVars, HealthInv, AbsentInv
  <2>4. QED BY <2>1, <2>2, <2>3
<1>5. QED BY <1>1, <1>2, <1>3, <1>4 DEF HealthInv, LikesStep

LEMMA SweepKeepsHealth == ASSUME HealthInv, SweepRefs PROVE HealthInv' /\ LikesStep
<1> DEFINE gone == sweeping.stale
           decs == OfTracks(decodes, Tracks \ gone)
           miss == OfTracks(missings, Tracks \ gone)
<1>1. /\ sweeping.pc = "delete" /\ sweeping' = NoSweep /\ liked' = liked \ gone
      /\ decodes' = decs /\ missings' = miss /\ steady' = (steady /\ gone = {})
      /\ UNCHANGED <<tracks, audio, scan, absent>>
  BY DEF SweepRefs
<1>2. sweeping'.pc = "idle" BY <1>1 DEF NoSweep
<1>3. decs \subseteq decodes /\ miss \subseteq missings BY OfTracksIs
<1>4. gone = {} => decs = decodes /\ miss = missings
  BY ScanFacts DEF OfTracks, DecodeRow, MissingRow
<1> HIDE DEF decs, miss
<1>5. HealthTyped' BY <1>1, <1>3 DEF HealthInv, HealthTyped
<1>6. FoundInv' BY <1>1, <1>3 DEF HealthInv, FoundInv
<1>7. SteadyInv'
  <2> SUFFICES ASSUME steady', Quiet(scan') PROVE scan'.items = tracks' /\ SteadyScan(scan, decodes, missings)'
    BY DEF SteadyInv
  <2>1. steady /\ UNCHANGED <<decodes, missings, audio, scan, tracks>> BY <1>1, <1>4
  <2>2. scan.items = tracks /\ SteadyScan(scan, decodes, missings)
    BY <2>1 DEF HealthInv, SteadyInv
  <2>3. QED BY <2>1, <2>2 DEF SteadyScan, SteadyLook, SteadyFound, SteadyDone, ChecksExact
<1>8. TracksOf(decs) \subseteq TracksOf(decodes) /\ TracksOf(miss) \subseteq TracksOf(missings)
  BY <1>3 DEF TracksOf
<1>9. AbsentInv' BY <1>1, <1>2, <1>8 DEF HealthInv, AbsentInv
<1>10. LikesStep BY <1>1 DEF HealthInv, AbsentInv, LikesStep
<1>11. QED BY <1>5, <1>6, <1>7, <1>9, <1>10 DEF HealthInv

LEMMA HealthStarts == HealthInit => HealthInv
<1> SUFFICES ASSUME HealthInit PROVE HealthInv OBVIOUS
<1>1. /\ tracks \subseteq Tracks /\ decodes = {} /\ missings = {} /\ liked = tracks /\ ~steady
      /\ scan.pc = "idle" /\ sweeping.pc = "idle"
      /\ audio \in [Tracks -> [there : {TRUE}, mtime : {1}, sound : BOOLEAN]]
  BY DEF HealthInit, NoScan, NoSweep
<1>2. audio \in [Tracks -> AudioFile]
  <2>1. [there : {TRUE}, mtime : {1}, sound : BOOLEAN] \subseteq AudioFile
    <3> SUFFICES ASSUME NEW audioFile \in [there : {TRUE}, mtime : {1}, sound : BOOLEAN]
                 PROVE  audioFile \in AudioFile
      OBVIOUS
    <3>1. audioFile = [there |-> TRUE, mtime |-> 1, sound |-> audioFile.sound] /\ audioFile.sound \in BOOLEAN
      OBVIOUS
    <3>2. [there |-> TRUE, mtime |-> 1, sound |-> audioFile.sound] \in AudioFile BY <3>1 DEF AudioFile
    <3>3. QED BY <3>1, <3>2
  <2>2. QED BY <1>1, <2>1
<1>3. HealthTyped BY <1>1, <1>2 DEF HealthTyped, ScanOK, Looking
<1>4. FoundInv /\ SteadyInv BY <1>1 DEF FoundInv, SteadyInv
<1>5. AbsentInv BY <1>1 DEF AbsentInv, TracksOf
<1>6. QED BY <1>3, <1>4, <1>5 DEF HealthInv

LEMMA HealthKeeps == HealthInv /\ [HealthNext]_healthVars => HealthInv' /\ LikesStep
BY StartKeepsHealth, ReadKeepsHealth, LookKeepsHealth, DecodeKeepsHealth, RecordKeepsHealth,
   PruneKeepsHealth, EndKeepsHealth, ChangeKeepsHealth, SweepStepKeeps, SweepKeepsHealth DEF HealthNext

LEMMA HealthShown == HealthInv => PassedIsSound /\ ScanIsExact
<1> SUFFICES ASSUME HealthInv PROVE PassedIsSound /\ ScanIsExact OBVIOUS
<1>1. PassedIsSound BY ScanFacts DEF PassedIsSound, FoundTrue
<1>2. ASSUME scan.pc = "done", ~scan.full, steady
      PROVE  /\ {t \in Tracks : Flagged(missings, t)} = {t \in tracks : ~audio[t].there}
             /\ \A t \in tracks : audio[t].there => \E r \in decodes : r.track = t /\ r.mtime = audio[t].mtime
             /\ {r.track : r \in decodes \cup missings} \subseteq tracks
  <2>1. scan.items = tracks /\ SteadyDone(scan, decodes, missings)
    BY <1>2, ScanFacts DEF Quiet, SteadyScan
  <2>2. {r.track : r \in decodes \cup missings} \subseteq tracks BY <2>1 DEF SteadyDone, TracksOf
  <2>3. \A t : Flagged(missings, t) => t \in tracks BY <2>2 DEF Flagged
  <2>4. \A t \in tracks : ChecksExact(t, decodes, missings) BY <2>1 DEF SteadyDone
  <2>5. QED BY <2>2, <2>3, <2>4, ScanFacts DEF ChecksExact
<1>3. QED BY <1>1, <1>2 DEF ScanIsExact

(* A check that is passed is about the file as it is; an incremental scan   *)
(* that nothing disturbed leaves the checks exact; and a sweep takes only   *)
(* likes of songs that were out of the library: for any songs, changes,     *)
(* scans, sweeps and threshold.                                             *)
THEOREM ChecksAreTrue == HealthSpec => HealthHolds
<1>1. HealthInit => HealthInv BY HealthStarts
<1>2. HealthInv /\ [HealthNext]_healthVars => HealthInv' /\ LikesStep BY HealthKeeps
<1>3. HealthInv => PassedIsSound /\ ScanIsExact BY HealthShown
<1>4. HealthSpec => []PassedIsSound /\ []ScanIsExact /\ [][LikesStep]_healthVars
  BY <1>1, <1>2, <1>3, PTL DEF HealthSpec
<1>5. QED BY <1>4 DEF HealthHolds, LikesSpared, LikesStep

-----------------------------------------------------------------------------
(***************************************************************************)
(* Images of artists. A row is put in place of none, of one without an     *)
(* upload, or by an upload; and what a clean-up under way will delete is   *)
(* none of the keys that have been in the library ever since it began.     *)
(***************************************************************************)

ImageRow == [image : BOOLEAN, source : {"none", "deezer", "manual"}, recent : BOOLEAN]

ImagesInv == images \in [DOMAIN images -> ImageRow] /\ MissingWasAsked

(* A clean-up that is under way will delete no key that has stayed.         *)
CleanInv ==
    /\ stayed \subseteq LibraryKeys
    /\ cleanup.pc \in {"idle", "selected", "deleting"}
    /\ cleanup.pc = "deleting" => cleanup # NoCleanup /\ cleanup.orphans \cap stayed = {}

\* A row that is put in place of none, of one without an upload, or by an upload.
LEMMA PutKeeps ==
    ASSUME ImagesInv, NEW k, NEW r \in ImageRow, PutRow(k, r), ~HasImage(k) \/ r.image,
           r.source = "none" => k \in unmatched', unmatched \subseteq unmatched'
    PROVE  ImagesInv' /\ UploadsStay
<1>1. /\ DOMAIN images' = DOMAIN images \cup {k}
      /\ \A x \in DOMAIN images' : images'[x] = IF x = k THEN r ELSE images[x]
  BY DEF PutRow
<1>2. images' \in [DOMAIN images' -> ImageRow]
  <2>1. \A x \in DOMAIN images : images[x] \in ImageRow BY DEF ImagesInv
  <2>2. QED BY <2>1 DEF PutRow
<1>3. MissingWasAsked' BY <1>1 DEF ImagesInv, MissingWasAsked
<1>4. Uploads \subseteq Uploads' BY <1>1 DEF Uploads, HasImage
<1>5. QED BY <1>2, <1>3, <1>4 DEF ImagesInv, UploadsStay

\* Rows are dropped, but no upload that UploadsStay protects.
LEMMA DropKeeps ==
    ASSUME ImagesInv, NEW D \in SUBSET DOMAIN images, images' = [x \in D |-> images[x]],
           \A k \in Uploads : k \notin D => DeleteImage(k) \/ (cleanup # NoCleanup /\ k \notin stayed),
           unmatched' = unmatched
    PROVE  ImagesInv' /\ UploadsStay
<1>1. DOMAIN images' = D /\ \A x \in D : images'[x] = images[x] OBVIOUS
<1>2. \A x \in DOMAIN images : images[x] \in ImageRow BY DEF ImagesInv
<1>3. images' \in [DOMAIN images' -> ImageRow] BY <1>2
<1>4. MissingWasAsked' BY <1>1 DEF ImagesInv, MissingWasAsked
<1>5. \A k \in Uploads : k \in D => k \in Uploads' BY <1>1 DEF Uploads
<1>6. QED BY <1>3, <1>4, <1>5 DEF ImagesInv, UploadsStay

LEMMA SameKeeps ==
    ASSUME ImagesInv, images' = images, unmatched \subseteq unmatched'
    PROVE  ImagesInv' /\ UploadsStay
BY DEF ImagesInv, MissingWasAsked, UploadsStay, Uploads

LEMMA CleanStep == ASSUME CleanInv, [ImagesNext]_imageVars PROVE CleanInv'
<1>1. ASSUME \/ FetchAll \/ FetchNext \/ FetchEnds \/ UNCHANGED imageVars
             \/ \E t \in ImageThreads, a \in ImageArtists : SendArtistImage(t, a) \/ FetchOne(t, a)
             \/ \E t \in ImageThreads \cup {Fetcher} : DeezerAnswers(t)
             \/ \E a \in ImageArtists : SetImage(a)
             \/ \E k \in ImageKey : DeleteImage(k) \/ Age(k)
      PROVE  CleanInv'
  <2>1. UNCHANGED <<cleanup, stayed, tags>>
    BY <1>1 DEF FetchAll, FetchNext, FetchEnds, imageVars, cleanVars, SendArtistImage, FetchOne, DeezerAnswers,
       SetImage, DeleteImage, Age
  <2>2. LibraryKeys' = LibraryKeys BY <2>1 DEF LibraryKeys, ArtistKeys, Present, KeyOf, Range
  <2>3. QED BY <2>1, <2>2 DEF CleanInv, NoCleanup
<1>2. ASSUME NEW a \in ImageArtists, Retag(a) PROVE CleanInv'
  <2>1. stayed' = stayed \cap LibraryKeys' /\ cleanup' = cleanup BY <1>2 DEF Retag
  <2>2. QED BY <2>1 DEF CleanInv, NoCleanup
<1>3. ASSUME CleanupSelects \/ CleanupReads \/ CleanupDeletes PROVE CleanInv'
  <2>1. tags' = tags BY <1>3 DEF CleanupSelects, CleanupReads, CleanupDeletes
  <2>2. LibraryKeys' = LibraryKeys BY <2>1 DEF LibraryKeys, ArtistKeys, Present, KeyOf, Range
  <2>3. CASE CleanupSelects BY <2>2, <2>3 DEF CleanupSelects, CleanInv
  <2>4. CASE CleanupReads
    <3>1. PICK present \in {LibraryKeys, {}} :
            IF Orphans(present) = {} THEN cleanup' = NoCleanup /\ stayed' = {}
            ELSE cleanup' = [pc |-> "deleting", orphans |-> Orphans(present)] /\ stayed' = stayed
      BY <2>4 DEF CleanupReads
    <3>2. Orphans(present) \cap stayed = {} BY <3>1 DEF Orphans, CleanInv
    <3>3. CASE Orphans(present) = {}
      BY <2>2, <3>1, <3>3 DEF CleanInv, NoCleanup
    <3>4. CASE Orphans(present) # {}
      <4>1. cleanup'.pc = "deleting" /\ cleanup'.orphans = Orphans(present) /\ cleanup' # NoCleanup
        BY <3>1, <3>4 DEF NoCleanup
      <4>2. QED BY <2>2, <3>1, <3>2, <3>4, <4>1 DEF CleanInv, NoCleanup
    <3>5. QED BY <3>3, <3>4
  <2>5. CASE CleanupDeletes BY <2>2, <2>5 DEF CleanupDeletes, CleanInv, NoCleanup
  <2>6. QED BY <1>3, <2>3, <2>4, <2>5
<1>4. QED BY <1>1, <1>2, <1>3 DEF ImagesNext

LEMMA ImagesStep ==
    ASSUME ImagesInv, CleanInv, [ImagesNext]_imageVars
    PROVE  ImagesInv' /\ UploadsStay
<1>1. ASSUME NEW t, DeezerAnswers(t) PROVE ImagesInv' /\ UploadsStay
  <2>1. PICK match \in {"artist", "member", "none"}, failed \in BOOLEAN :
          /\ IF AnsweredAll(failed)
               THEN RecordStatus(lookups[t].key, IF match = "none" THEN "none" ELSE "deezer")
               ELSE UNCHANGED images
          /\ unmatched' = IF match = "none" /\ ~failed THEN unmatched \cup {lookups[t].key} ELSE unmatched
    BY <1>1 DEF DeezerAnswers
  <2> DEFINE k == lookups[t].key
             source == IF match = "none" THEN "none" ELSE "deezer"
             r == [image |-> FALSE, source |-> source, recent |-> TRUE]
  <2>2. unmatched \subseteq unmatched' BY <2>1
  <2>3. CASE images' = images BY <2>2, <2>3, SameKeeps
  <2>4. CASE images' # images
    <3>1. ~failed /\ RecordStatus(k, source) BY <2>1, <2>4 DEF AnsweredAll
    <3>2. ~HasImage(k) /\ PutRow(k, r) BY <2>4, <3>1 DEF RecordStatus
    <3>3. r.source = "none" => k \in unmatched' BY <2>1, <3>1
    <3>4. r \in ImageRow BY DEF ImageRow
    <3> HIDE DEF r, k
    <3>5. QED BY <2>2, <3>2, <3>3, <3>4, PutKeeps
  <2>5. QED BY <2>3, <2>4
<1>2. ASSUME NEW a, SetImage(a) PROVE ImagesInv' /\ UploadsStay
  <2> DEFINE r == [image |-> TRUE, source |-> "manual", recent |-> FALSE]
  <2>1. PutRow(ArtistKeys(a)[1], r) /\ unmatched' = unmatched BY <1>2 DEF SetImage
  <2>2. r \in ImageRow /\ r.image /\ r.source # "none" BY DEF ImageRow
  <2> HIDE DEF r
  <2>3. QED BY <2>1, <2>2, PutKeeps
<1>3. ASSUME NEW k, DeleteImage(k) PROVE ImagesInv' /\ UploadsStay
  <2>1. images' = [x \in DOMAIN images \ {k} |-> images[x]] /\ unmatched' = unmatched
    BY <1>3 DEF DeleteImage
  <2>2. \A x \in Uploads : x \notin DOMAIN images \ {k} => DeleteImage(x) BY <1>3 DEF Uploads
  <2>3. DOMAIN images \ {k} \in SUBSET DOMAIN images OBVIOUS
  <2>4. QED BY <2>1, <2>2, <2>3, DropKeeps
<1>4. ASSUME CleanupDeletes PROVE ImagesInv' /\ UploadsStay
  <2>1. /\ images' = [k \in DOMAIN images \ cleanup.orphans |-> images[k]]
        /\ cleanup.pc = "deleting" /\ unmatched' = unmatched
    BY <1>4 DEF CleanupDeletes
  <2>2. \A k \in Uploads : k \notin DOMAIN images \ cleanup.orphans =>
            cleanup # NoCleanup /\ k \notin stayed
    BY <2>1 DEF CleanInv, Uploads
  <2>3. DOMAIN images \ cleanup.orphans \in SUBSET DOMAIN images OBVIOUS
  <2>4. QED BY <2>1, <2>2, <2>3, DropKeeps
<1>5. ASSUME NEW k, Age(k) PROVE ImagesInv' /\ UploadsStay
  <2>1. k \in DOMAIN images /\ images' = [images EXCEPT ![k].recent = FALSE] /\ unmatched' = unmatched
    BY <1>5 DEF Age
  <2>2. \A x \in DOMAIN images : images[x] \in ImageRow BY DEF ImagesInv
  <2>3. [images[k] EXCEPT !.recent = FALSE] \in ImageRow
        /\ [images[k] EXCEPT !.recent = FALSE].image = images[k].image
        /\ [images[k] EXCEPT !.recent = FALSE].source = images[k].source
    BY <2>1, <2>2 DEF ImageRow
  <2>4. /\ DOMAIN images' = DOMAIN images
        /\ \A x \in DOMAIN images :
             /\ images'[x] = IF x = k THEN [images[k] EXCEPT !.recent = FALSE] ELSE images[x]
             /\ images'[x] \in ImageRow /\ images'[x].image = images[x].image
             /\ images'[x].source = images[x].source
    BY <2>1, <2>2, <2>3
  <2>5. images' \in [DOMAIN images' -> ImageRow] BY <2>1, <2>4
  <2>6. MissingWasAsked' BY <2>1, <2>4 DEF ImagesInv, MissingWasAsked
  <2>7. Uploads' = Uploads BY <2>4 DEF Uploads
  <2>8. QED BY <2>5, <2>6, <2>7 DEF ImagesInv, UploadsStay
<1>6. ASSUME \/ FetchAll \/ FetchNext \/ FetchEnds \/ UNCHANGED imageVars
             \/ CleanupSelects \/ CleanupReads
             \/ \E t \in ImageThreads, a \in ImageArtists : SendArtistImage(t, a) \/ FetchOne(t, a)
             \/ \E a \in ImageArtists : Retag(a)
      PROVE  ImagesInv' /\ UploadsStay
  <2>1. images' = images /\ unmatched' = unmatched
    BY <1>6 DEF FetchAll, FetchNext, FetchEnds, imageVars, SendArtistImage, FetchOne, Retag, CleanupSelects, CleanupReads
  <2>2. QED BY <2>1, SameKeeps
<1>7. QED BY <1>1, <1>2, <1>3, <1>4, <1>5, <1>6 DEF ImagesNext

(* No upload is taken by a lookup in flight or the background run, nor by   *)
(* a clean-up from a key that has been in the library since it began, and   *)
(* none is said to have no image whom Deezer was not asked for              *)
(* (core/media/artist_images, record_status(), cleanup_artist_records()).   *)
THEOREM ImagesAreKept == ImagesSpec => ImagesHold
<1> DEFINE IInv == ImagesInv /\ CleanInv
<1>1. ImagesInit => IInv
  BY DEF ImagesInit, ImagesInv, MissingWasAsked, CleanInv, NoCleanup
<1>2. IInv /\ [ImagesNext]_imageVars => IInv' /\ UploadsStay BY ImagesStep, CleanStep
<1>3. IInv => MissingWasAsked BY DEF ImagesInv
<1> HIDE DEF IInv
<1>4. ImagesSpec => []IInv BY <1>1, <1>2, PTL DEF ImagesSpec
<1>5. ImagesSpec => [][UploadsStay]_imageVars BY <1>2, <1>4, PTL DEF ImagesSpec
<1>6. QED BY <1>3, <1>4, <1>5, PTL DEF ImagesHold

=============================================================================
