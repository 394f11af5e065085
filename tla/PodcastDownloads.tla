-------------------------- MODULE PodcastDownloads --------------------------
(***************************************************************************)
(* The audio files of podcast episodes (core/services/podcasts.py, class   *)
(* PodcastManager): the users' wants, the rows of podcast_episodes, the    *)
(* files on disk, the reservation that allows one download of an episode   *)
(* at a time, the download pool, the stream that relays an episode to a    *)
(* client while it saves it, and the sweep and the recovery of the         *)
(* maintenance thread.  The episodes are those of one channel.             *)
(*                                                                         *)
(* Every section under `_download_lock`, every transaction of the database *)
(* and every change of the disk is a step.  A SELECT that comes before the *)
(* first write of its `with database()` block is a transaction of its own. *)
(* A database error of the two writes that end or announce a download, and *)
(* a failure anywhere in a download, are choices.                          *)
(***************************************************************************)
EXTENDS Integers, Sequences, FiniteSets

CONSTANTS
    Episodes, NoEpisode,
    Users,
    Threads,        \* request threads
    Workers,        \* threads of the download pool
    Maintenance,    \* the startup and maintenance thread
    MaxCrashes,     \* bound: crashes of the process
    MaxAsked        \* bound: requests handled over a behaviour

Actors == Threads \cup Workers \cup {Maintenance}

ASSUME ActorsAssumption ==
    /\ Threads \cap Workers = {}
    /\ Maintenance \notin Threads \cup Workers
    /\ NoEpisode \notin Episodes
ASSUME BoundsAssumption == MaxCrashes \in Nat /\ MaxAsked \in Nat

VARIABLES
    channel,    \* the channel has a row, and so have its episodes
    rows,       \* podcast_episodes: status, and whether file_path is set
    wants,      \* podcast_episode_downloads
    part,       \* the '.part' file of an episode
    file,       \* its audio file
    reserved,   \* _downloading_episodes
    events,     \* the episodes that have a cancel event
    cancelled,  \* ... and those whose event is set
    jobs,       \* the pool's queue
    act,        \* what each thread is doing
    up,         \* the server has started
    crashes,
    asked,      \* requests handled so far (bounds the model)
    leaked,     \* reservations that no thread will ever give back
    released    \* last want withdrawn while no relay was under way, and
                \* no download asked for or reserved since

disk   == <<part, file>>
memory == <<reserved, events, cancelled, jobs>>
server == <<up, crashes, asked>>
vars   == <<channel, rows, wants, disk, memory, act, server, leaked, released>>

-----------------------------------------------------------------------------
Statuses == {"new", "downloading", "completed", "error", "deleted"}
Contents == {"none", "partial", "whole"}

\* What a thread does next.
Fetching == {"fetching", "writing", "replace", "undo"}
Steps == Fetching \cup
    {"idle", "look", "want", "reserve", "mark", "submit",
     "count", "readPath", "clear", "unlink", "drop", "dropChannel",
     "relayReserve", "relayMark", "connect", "giveUp", "commit", "reset", "free",
     "resume", "sweep", "sweepAll"}

Row == [status: Statuses, stored: BOOLEAN]

Doing == [pc: Steps, ep: Episodes \cup {NoEpisode},
          user: Users \cup {"nobody"},
          paths: SUBSET Episodes,       \* episodes a loop still has to handle
          verdict: {"new", "error"},    \* the status a failed download leaves
          spared: SUBSET Users]         \* who has wanted `ep` since the release began

Idle == [pc |-> "idle", ep |-> NoEpisode, user |-> "nobody", paths |-> {}, verdict |-> "new", spared |-> {}]

TypeOK ==
    /\ channel \in BOOLEAN
    /\ rows \in [Episodes -> Row]
    /\ wants \subseteq Users \X Episodes
    /\ part \in [Episodes -> Contents]
    /\ file \in [Episodes -> Contents]
    /\ reserved \subseteq Episodes
    /\ cancelled \subseteq events /\ events \subseteq reserved
    /\ jobs \in Seq(Episodes)
    /\ act \in [Actors -> Doing]
    /\ up \in BOOLEAN
    /\ crashes \in 0..MaxCrashes
    /\ asked \in 0..MaxAsked
    /\ leaked \subseteq reserved
    /\ released \subseteq Episodes

Init ==
    /\ channel = TRUE
    /\ rows = [e \in Episodes |-> [status |-> "new", stored |-> FALSE]]
    /\ wants = {}
    /\ part = [e \in Episodes |-> "none"]
    /\ file = [e \in Episodes |-> "none"]
    /\ reserved = {} /\ events = {} /\ cancelled = {}
    /\ jobs = << >>
    /\ act = [a \in Actors |-> Idle]
    /\ up = TRUE /\ crashes = 0 /\ asked = 0
    /\ leaked = {} /\ released = {}

-----------------------------------------------------------------------------
At(a, pc)   == act[a].pc = pc
Goes(a, pc) == act' = [act EXCEPT ![a].pc = pc]
Rests(a)    == act' = [act EXCEPT ![a] = Idle]

Starts(a, doing) ==
    /\ up /\ At(a, "idle")
    /\ act' = [act EXCEPT ![a] = doing]
    /\ UNCHANGED <<up, crashes>>
    /\ IF a \in Threads THEN asked < MaxAsked /\ asked' = asked + 1
                       ELSE UNCHANGED asked

Doings(pc, e) == [Idle EXCEPT !.pc = pc, !.ep = e]

(* UPDATE podcast_episodes ... WHERE id = e                                 *)
SetRow(e, row) ==
    rows' = IF channel THEN [rows EXCEPT ![e] = row] ELSE rows

SetStatus(e, status) == SetRow(e, [rows[e] EXCEPT !.status = status])

Wanted(e) == \E u \in Users : <<u, e>> \in wants

(* DELETE FROM podcast_episode_downloads: the users it takes a want from    *)
(* are no longer among those a release in progress has to spare.            *)
Unspare(doings, gone) ==
    [a \in Actors |->
        [doings[a] EXCEPT !.spared = {u \in @ : <<u, doings[a].ep>> \notin gone}]]

-----------------------------------------------------------------------------
(* request_episode_download(): record the want, look at the row, and unless *)
(* it is completed hand over to background_download().                      *)
Request(t, u, e) ==
    /\ channel
    /\ Starts(t, [Doings("look", e) EXCEPT !.user = u])
    /\ wants' = wants \cup {<<u, e>>}
    /\ released' = released \ {e}
    /\ UNCHANGED <<channel, rows, disk, memory, leaked>>

Look(t) ==
    /\ At(t, "look")
    /\ IF channel /\ rows[act[t].ep].status # "completed"
       THEN Goes(t, "reserve") ELSE Rests(t)
    /\ UNCHANGED <<channel, rows, wants, disk, memory, server, leaked, released>>

(* download_recent_episodes(): pick an episode, record the want ...         *)
DownloadRecent(t, u, e) ==
    /\ channel /\ rows[e].status \notin {"completed", "downloading"}
    /\ Starts(t, [Doings("want", e) EXCEPT !.user = u])
    /\ UNCHANGED <<channel, rows, wants, disk, memory, leaked, released>>

Want(t) ==
    /\ At(t, "want")
    /\ IF channel
       THEN /\ wants' = wants \cup {<<act[t].user, act[t].ep>>}
            /\ released' = released \ {act[t].ep}
            /\ Goes(t, "reserve")
       ELSE UNCHANGED <<wants, released>> /\ Rests(t)   \* foreign key error
    /\ UNCHANGED <<channel, rows, disk, memory, server, leaked>>

(* background_download() asked for by an admin: nobody's want is recorded.  *)
AdminDownload(t, e) ==
    /\ channel
    /\ Starts(t, Doings("reserve", e))
    /\ UNCHANGED <<channel, rows, wants, disk, memory, leaked, released>>

(* Back to the loop of resume_downloads(), or out of the handler.           *)
Continue(a) ==
    IF act[a].paths = {} THEN Rests(a)
    ELSE act' = [act EXCEPT ![a] = [Idle EXCEPT !.pc = "resume", !.paths = act[a].paths]]

(* Mutant of Reserve: it does not look whether a download is underway.      *)
ReserveAnyway(a) ==
    /\ At(a, "reserve")
    /\ reserved' = reserved \cup {act[a].ep}
    /\ events' = events \cup {act[a].ep}
    /\ released' = released \ {act[a].ep}
    /\ Goes(a, "mark")
    /\ UNCHANGED <<channel, rows, wants, disk, cancelled, jobs, server, leaked>>

(* background_download() reads the row, and then the locked part of         *)
(* _reserve_download(); without a row there is nothing to download.         *)
Reserve(a) ==
    /\ At(a, "reserve")
    /\ LET e == act[a].ep IN
        \/ /\ e \in reserved \/ ~channel
           /\ Continue(a)
           /\ UNCHANGED <<reserved, events, released>>
        \/ /\ e \notin reserved
           /\ reserved' = reserved \cup {e}
           /\ events' = events \cup {e}
           /\ released' = released \ {e}
           /\ Goes(a, "mark")
    /\ UNCHANGED <<channel, rows, wants, disk, cancelled, jobs, server, leaked>>

(* ... and its UPDATE.  When that raises, the reservation is never undone.  *)
Mark(a) ==
    /\ At(a, "mark")
    /\ \/ SetStatus(act[a].ep, "downloading") /\ Goes(a, "submit") /\ UNCHANGED leaked
       \/ leaked' = leaked \cup {act[a].ep} /\ Rests(a) /\ UNCHANGED rows
    /\ UNCHANGED <<channel, wants, disk, memory, server, released>>

Submit(a) ==
    /\ At(a, "submit")
    /\ jobs' = Append(jobs, act[a].ep)
    /\ Continue(a)
    /\ UNCHANGED <<channel, rows, wants, disk, reserved, events, cancelled, server, leaked, released>>

(* cancel_download()                                                        *)
Cancel(e) ==
    /\ up /\ e \in events
    /\ cancelled' = cancelled \cup {e}
    /\ UNCHANGED <<channel, rows, wants, disk, reserved, events, jobs, act, server, leaked, released>>

-----------------------------------------------------------------------------
(* release_episode_download(), also from release_channel_downloads()        *)
Release(t, u, e) ==
    /\ channel
    /\ up /\ At(t, "idle")
    /\ asked < MaxAsked /\ asked' = asked + 1
    /\ wants' = wants \ {<<u, e>>}
    /\ act' = [Unspare(act, {<<u, e>>}) EXCEPT ![t] =
                  [Doings("count", e) EXCEPT
                      !.spared = {v \in Users : <<v, e>> \in wants'}]]
    /\ released' = IF <<u, e>> \in wants /\ ~Wanted(e)' /\ e \notin reserved \ events
                   THEN released \cup {e} ELSE released
    /\ UNCHANGED <<channel, rows, disk, memory, up, crashes, leaked>>

(* Mutant of Count: the file is purged whoever else wants the episode.      *)
CountNobody(t) ==
    /\ At(t, "count")
    /\ Goes(t, "readPath")
    /\ UNCHANGED <<channel, rows, wants, disk, memory, server, leaked, released>>

Count(t) ==
    /\ At(t, "count")
    /\ IF Wanted(act[t].ep) THEN Rests(t) ELSE Goes(t, "readPath")
    /\ UNCHANGED <<channel, rows, wants, disk, memory, server, leaked, released>>

ReadPath(t) ==
    /\ At(t, "readPath")
    /\ IF channel /\ rows[act[t].ep].stored THEN Goes(t, "clear") ELSE Rests(t)
    /\ UNCHANGED <<channel, rows, wants, disk, memory, server, leaked, released>>

Clear(t) ==
    /\ At(t, "clear")
    /\ SetRow(act[t].ep, [status |-> "new", stored |-> FALSE])
    /\ act' = [act EXCEPT ![t].pc = "unlink", ![t].paths = {act[t].ep}]
    /\ UNCHANGED <<channel, wants, disk, memory, server, leaked, released>>

(* The files whose path a release or a deletion has read, one by one.       *)
Unlink(t) ==
    /\ At(t, "unlink")
    /\ \E e \in act[t].paths :
        /\ file' = [file EXCEPT ![e] = "none"]
        /\ IF act[t].paths = {e} THEN Rests(t)
           ELSE act' = [act EXCEPT ![t].paths = @ \ {e}]
    /\ UNCHANGED <<channel, rows, wants, part, memory, server, leaked, released>>

(* delete_episode(): read the path, then mark the row and drop all wants.   *)
Delete(t, e) ==
    /\ channel
    /\ Starts(t, [Doings("drop", e) EXCEPT !.paths = IF rows[e].stored THEN {e} ELSE {}])
    /\ UNCHANGED <<channel, rows, wants, disk, memory, leaked, released>>

Drop(t) ==
    /\ At(t, "drop")
    /\ SetRow(act[t].ep, [status |-> "deleted", stored |-> FALSE])
    /\ LET gone == {w \in wants : w[2] = act[t].ep} IN
        /\ wants' = wants \ gone
        /\ act' = [Unspare(act, gone) EXCEPT ![t] =
                      IF @.paths = {} THEN Idle ELSE [Idle EXCEPT !.pc = "unlink", !.paths = act[t].paths]]
    /\ UNCHANGED <<channel, disk, memory, server, leaked, released>>

(* delete_channel(): the episodes and the wants go with the channel's row.  *)
DeleteChannel(t) ==
    /\ channel
    /\ Starts(t, [Idle EXCEPT !.pc = "dropChannel", !.paths = {e \in Episodes : rows[e].stored}])
    /\ UNCHANGED <<channel, rows, wants, disk, memory, leaked, released>>

DropChannel(t) ==
    /\ At(t, "dropChannel")
    /\ channel' = FALSE
    /\ rows' = [e \in Episodes |-> [status |-> "new", stored |-> FALSE]]
    /\ wants' = {}
    /\ act' = [Unspare(act, wants) EXCEPT ![t] =
                  IF @.paths = {} THEN Idle ELSE [@ EXCEPT !.pc = "unlink"]]
    /\ UNCHANGED <<disk, memory, server, leaked, released>>

-----------------------------------------------------------------------------
(* Streaming an episode that is not on disk: relayed_download() reserves it *)
(* without a cancel event, and the route relays the body while saving it.   *)
Stream(t, e) ==
    /\ channel /\ ~(rows[e].status = "completed" /\ rows[e].stored)
    /\ Starts(t, Doings("relayReserve", e))
    /\ UNCHANGED <<channel, rows, wants, disk, memory, leaked, released>>

RelayReserve(t) ==
    /\ At(t, "relayReserve")
    /\ LET e == act[t].ep IN
        IF e \in reserved THEN Rests(t) /\ UNCHANGED <<reserved, released>>
        ELSE /\ reserved' = reserved \cup {e}
             /\ released' = released \ {e}
             /\ Goes(t, "relayMark")
    /\ UNCHANGED <<channel, rows, wants, disk, events, cancelled, jobs, server, leaked>>

RelayMark(t) ==
    /\ At(t, "relayMark")
    /\ \/ SetStatus(act[t].ep, "downloading") /\ Goes(t, "connect")
       \/ Goes(t, "giveUp") /\ UNCHANGED rows
    /\ UNCHANGED <<channel, wants, disk, memory, server, leaked, released>>

(* The feed's server answers or not.  When the client is gone before the    *)
(* response's generator has started, its `finally` never runs.              *)
Connect(t) ==
    /\ At(t, "connect")
    /\ \/ Goes(t, "fetching") /\ UNCHANGED leaked
       \/ Goes(t, "giveUp") /\ UNCHANGED leaked
       \/ Rests(t) /\ leaked' = leaked \cup {act[t].ep}
    /\ UNCHANGED <<channel, rows, wants, disk, memory, server, released>>

(* Mutant of GiveUp: the `except` does not discard the reservation.         *)
GiveUpHolding(t) ==
    /\ At(t, "giveUp")
    /\ SetStatus(act[t].ep, "new") /\ Rests(t)
    /\ UNCHANGED <<channel, wants, disk, memory, server, leaked, released>>

(* Its `except`: a second database error leaves the reservation behind.     *)
GiveUp(t) ==
    /\ At(t, "giveUp")
    /\ \/ SetStatus(act[t].ep, "new") /\ Goes(t, "free") /\ UNCHANGED leaked
       \/ leaked' = leaked \cup {act[t].ep} /\ Rests(t) /\ UNCHANGED rows
    /\ UNCHANGED <<channel, wants, disk, memory, server, released>>

-----------------------------------------------------------------------------
(* _worker_download_episode(), and generate() with finish_relayed_download() *)
(* of a relay: both write '.part', rename it and then complete the row.     *)
TakeJob(w) ==
    /\ At(w, "idle") /\ jobs # << >>
    /\ act' = [act EXCEPT ![w] = Doings("fetching", Head(jobs))]
    /\ jobs' = Tail(jobs)
    /\ UNCHANGED <<channel, rows, wants, disk, reserved, events, cancelled, server, leaked, released>>

Gives(a, pc, verdict) ==
    act' = [act EXCEPT ![a].pc = pc, ![a].verdict = verdict]

Failure(a) == IF a \in Workers THEN "error" ELSE "new"

OpenPart(a) ==
    /\ At(a, "fetching")
    /\ part' = [part EXCEPT ![act[a].ep] = "partial"]
    /\ Goes(a, "writing")
    /\ UNCHANGED <<channel, rows, wants, file, memory, server, leaked, released>>

(* The last chunk is written, to a file that may have been unlinked.        *)
WriteAll(a) ==
    /\ At(a, "writing")
    /\ part' = [part EXCEPT ![act[a].ep] = IF @ = "none" THEN "none" ELSE "whole"]
    /\ Goes(a, "replace")
    /\ UNCHANGED <<channel, rows, wants, file, memory, server, leaked, released>>

FetchFails(a) ==
    /\ act[a].pc \in {"fetching", "writing"}
    /\ Gives(a, "undo", Failure(a))
    /\ UNCHANGED <<channel, rows, wants, disk, memory, server, leaked, released>>

FetchCancelled(w) ==
    /\ w \in Workers /\ At(w, "writing") /\ act[w].ep \in cancelled
    /\ Gives(w, "undo", "new")
    /\ UNCHANGED <<channel, rows, wants, disk, memory, server, leaked, released>>

(* os.replace().  A relay leaves the row as it is when it raises.           *)
Replace(a) ==
    /\ At(a, "replace")
    /\ LET e == act[a].ep IN
        IF part[e] # "none"
        THEN /\ file' = [file EXCEPT ![e] = part[e]]
             /\ part' = [part EXCEPT ![e] = "none"]
             /\ Goes(a, "commit")
        ELSE /\ IF a \in Workers THEN Gives(a, "undo", "error") ELSE Goes(a, "free")
             /\ UNCHANGED disk
    /\ UNCHANGED <<channel, rows, wants, memory, server, leaked, released>>

Commit(a) ==
    /\ At(a, "commit")
    /\ \/ SetRow(act[a].ep, [status |-> "completed", stored |-> TRUE])
       \/ UNCHANGED rows
    /\ Goes(a, "free")
    /\ UNCHANGED <<channel, wants, disk, memory, server, leaked, released>>

Undo(a) ==
    /\ At(a, "undo")
    /\ part' = [part EXCEPT ![act[a].ep] = "none"]
    /\ Goes(a, "reset")
    /\ UNCHANGED <<channel, rows, wants, file, memory, server, leaked, released>>

Reset(a) ==
    /\ At(a, "reset")
    /\ SetStatus(act[a].ep, act[a].verdict) \/ UNCHANGED rows
    /\ Goes(a, "free")
    /\ UNCHANGED <<channel, wants, disk, memory, server, leaked, released>>

Free(a) ==
    /\ At(a, "free")
    /\ LET e == act[a].ep IN
        /\ reserved' = reserved \ {e}
        /\ events' = IF a \in Workers THEN events \ {e} ELSE events
        /\ cancelled' = IF a \in Workers THEN cancelled \ {e} ELSE cancelled
    /\ Rests(a)
    /\ UNCHANGED <<channel, rows, wants, disk, jobs, server, leaked, released>>

-----------------------------------------------------------------------------
(* resume_downloads(): one transaction resets what is 'downloading'; then   *)
(* what is wanted is downloaded again.                                      *)
Stuck == {e \in Episodes : channel /\ rows[e].status = "downloading"}

ResetStuck ==
    rows' = [e \in Episodes |->
                IF e \in Stuck THEN [rows[e] EXCEPT !.status = "new"] ELSE rows[e]]

Resume ==
    /\ Stuck # {}
    /\ ResetStuck
    /\ LET again == {e \in Stuck : Wanted(e)} IN
        Starts(Maintenance, IF again = {} THEN Idle
                            ELSE [Idle EXCEPT !.pc = "resume", !.paths = again])
    /\ UNCHANGED <<channel, wants, disk, memory, leaked, released>>

ResumeNext ==
    /\ At(Maintenance, "resume")
    /\ \E e \in act[Maintenance].paths :
        act' = [act EXCEPT ![Maintenance] =
                   [act[Maintenance] EXCEPT !.pc = "reserve", !.ep = e, !.paths = @ \ {e}]]
    /\ UNCHANGED <<channel, rows, wants, disk, memory, server, leaked, released>>

(* remove_leftovers(): which files have a row is read first; then the files *)
(* are listed and the others removed, one by one.                           *)
Sweep ==
    /\ LET leftover == {e \in Episodes : ~rows[e].stored} IN
        /\ leftover # {}
        /\ Starts(Maintenance,
                  [Idle EXCEPT !.pc = IF channel THEN "sweep" ELSE "sweepAll",
                               !.paths = leftover])
    /\ UNCHANGED <<channel, rows, wants, disk, memory, leaked, released>>

(* A '.part' of a channel that is kept goes when it is PART_MAX_AGE_SEC old, *)
(* which none that is being written ever is.                                *)
SweepFile ==
    /\ act[Maintenance].pc \in {"sweep", "sweepAll"}
    /\ \E e \in act[Maintenance].paths :
        /\ file' = [file EXCEPT ![e] = "none"]
        /\ \/ /\ \/ At(Maintenance, "sweepAll")
                 \/ \A a \in Actors : act[a].pc \in Fetching => act[a].ep # e
              /\ part' = [part EXCEPT ![e] = "none"]
           \/ At(Maintenance, "sweep") /\ UNCHANGED part
        /\ IF act[Maintenance].paths = {e} THEN Rests(Maintenance)
           ELSE act' = [act EXCEPT ![Maintenance].paths = @ \ {e}]
    /\ UNCHANGED <<channel, rows, wants, memory, server, leaked, released>>

(* The process dies and is started again: only the database and the disk    *)
(* are left, and the first thing done with them is resume_downloads().      *)
Crash ==
    /\ up /\ crashes < MaxCrashes
    /\ crashes' = crashes + 1 /\ UNCHANGED asked
    /\ up' = FALSE
    /\ reserved' = {} /\ events' = {} /\ cancelled' = {} /\ jobs' = << >>
    /\ leaked' = {}
    /\ ResetStuck
    /\ LET again == {e \in Stuck : Wanted(e)} IN
        act' = [a \in Actors |->
                  IF a = Maintenance /\ again # {}
                  THEN [Idle EXCEPT !.pc = "resume", !.paths = again] ELSE Idle]
    /\ UNCHANGED <<channel, wants, disk, released>>

Serve ==
    /\ ~up /\ At(Maintenance, "idle")
    /\ up' = TRUE
    /\ UNCHANGED <<channel, rows, wants, disk, memory, act, crashes, asked, leaked, released>>

-----------------------------------------------------------------------------
Requests ==
    \/ \E t \in Threads, u \in Users, e \in Episodes :
          Request(t, u, e) \/ DownloadRecent(t, u, e) \/ Release(t, u, e)
    \/ \E t \in Threads, e \in Episodes :
          AdminDownload(t, e) \/ Delete(t, e) \/ Stream(t, e)
    \/ \E t \in Threads : DeleteChannel(t)
    \/ \E e \in Episodes : Cancel(e)

(* What a thread does once it has begun.                                    *)
Handler(t) ==
    \/ Look(t) \/ Want(t) \/ Count(t) \/ ReadPath(t) \/ Clear(t) \/ Unlink(t)
    \/ Drop(t) \/ DropChannel(t) \/ RelayReserve(t) \/ RelayMark(t) \/ Connect(t) \/ GiveUp(t)

Background(a) == Reserve(a) \/ Mark(a) \/ Submit(a)

Fetch(a) ==
    \/ OpenPart(a) \/ WriteAll(a) \/ FetchFails(a) \/ FetchCancelled(a)
    \/ Replace(a) \/ Commit(a) \/ Undo(a) \/ Reset(a) \/ Free(a)

Maintain == ResumeNext \/ SweepFile

Next ==
    \/ Requests
    \/ \E t \in Threads : Handler(t)
    \/ \E a \in Threads \cup {Maintenance} : Background(a)
    \/ \E w \in Workers : TakeJob(w)
    \/ \E a \in Threads \cup Workers : Fetch(a)
    \/ Resume \/ Sweep \/ Maintain
    \/ Crash \/ Serve

Spec == Init /\ [][Next]_vars

(* Threads are scheduled, a download ends one way or another (its reads     *)
(* time out), and the maintenance thread comes round to resume_downloads(). *)
Fairness ==
    /\ \A t \in Threads : WF_vars(Handler(t))
    /\ \A a \in Threads \cup {Maintenance} : WF_vars(Background(a))
    /\ \A w \in Workers : WF_vars(TakeJob(w))
    /\ \A a \in Threads \cup Workers : WF_vars(Fetch(a))
    /\ WF_vars(Maintain) /\ WF_vars(Serve) /\ SF_vars(Resume)

FairSpec == Spec /\ Fairness

-----------------------------------------------------------------------------
(* An episode is downloaded at most once at a time, be it by the pool or by *)
(* a relay, and whatever was deleted, cancelled or resumed meanwhile: two   *)
(* of them would write to the same '.part' file.                            *)
OneDownload ==
    /\ \A a, b \in Actors :
          act[a].pc \in Fetching /\ act[b].pc \in Fetching /\ act[a].ep = act[b].ep
          => a = b
    /\ \A i, j \in 1..Len(jobs) : jobs[i] = jobs[j] => i = j
    /\ \A i \in 1..Len(jobs), a \in Actors :
          act[a].pc \in Fetching => act[a].ep # jobs[i]

(* What has the name of an audio file is the whole file, through failures,  *)
(* cancellations and crashes: nobody is served half an episode.             *)
WholeFiles == \A e \in Episodes : file[e] # "partial"

(* A user's release never takes the file away from another user who has     *)
(* wanted the episode ever since the release began.                         *)
ReleaseSpares ==
    \A a \in Actors :
        act[a].pc \in {"readPath", "clear"} => act[a].spared = {}

(* All three, and every part of the state has its type.                     *)
DownloadsSound == TypeOK /\ OneDownload /\ WholeFiles /\ ReleaseSpares

(* A reservation is given back however its download ends, unless it is one  *)
(* of those nobody can give back (`leaked`).                                *)
DownloadsEnd ==
    \A e \in Episodes : e \in reserved ~> (e \notin reserved \/ e \in leaked)

(* No episode shows 'downloading' for ever: not after a crash, a database   *)
(* error when the download ended, or a relay that nobody reads.             *)
NotStuck ==
    \A e \in Episodes :
        rows[e].status = "downloading" ~> rows[e].status # "downloading"

(* What downloads come to: both.                                            *)
DownloadsSettle == DownloadsEnd /\ NotStuck

(* An episode whose last want was withdrawn is not on disk for long: its    *)
(* file is purged by the release, also when it was still being downloaded.  *)
ReleasedIsPurged ==
    \A e \in released :
        rows[e].stored /\ ~Wanted(e) =>
            \E a \in Actors : act[a].ep = e /\ act[a].pc \in {"count", "readPath", "clear"}

=============================================================================
