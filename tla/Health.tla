--------------------------------- MODULE Health ---------------------------------
(***************************************************************************)
(* The health scan of the audio files (core/library/health.py) and the     *)
(* sweep of stale references (core/library/maintenance.py).  A scan lists   *)
(* the library, reads the checks that are stored, then takes the songs one *)
(* by one: it reads the file's time, decodes the file, and commits what it *)
(* found.  Files and library change at any moment.                         *)
(***************************************************************************)
EXTENDS Integers, FiniteSets

CONSTANTS
    Tracks,
    SweepMin,                           \* _SWEEP_MIN_REFS
    FileTimesMax, ChurnMax, ScansMax    \* bounds: times of a file, changes, scans and sweeps

ASSUME HealthAssumption == {SweepMin, FileTimesMax, ChurnMax, ScansMax} \subseteq Nat

VARIABLES
    tracks,     \* the songs of the beets library
    audio,      \* per song, its file: there or not, its time, whether it decodes
    decodes,    \* song_checks 'decode_errors': rows [track, mtime, ok]
    missings,   \* song_checks 'missing_file': rows [track, ok]
    liked,      \* the songs that the rows of users refer to
    scan, sweeping,
    churn, scans,
    steady,     \* (history) nothing was changed from outside since the scan began
    absent      \* (history) songs that were out of the library since they were liked, or when
                \* the sweep under way looked

healthVars == <<tracks, audio, decodes, missings, liked, scan, sweeping, churn, scans, steady, absent>>

NoScan  == [pc |-> "idle"]
NoRow   == << >>                        \* (of a scan: the check in the making)
NoSweep == [pc |-> "idle"]

HealthInit ==
    /\ tracks \in SUBSET Tracks
    /\ audio \in [Tracks -> [there : {TRUE}, mtime : {1}, sound : BOOLEAN]]
    /\ decodes = {} /\ missings = {} /\ liked = tracks
    /\ scan = NoScan /\ sweeping = NoSweep
    /\ churn = 0 /\ scans = 0 /\ steady = FALSE /\ absent = {}

Flagged(rows, t)       == \E r \in rows : r.track = t /\ ~r.ok
Recorded(rows, row)    == {r \in rows : r.track # row.track} \cup {row}
OfTracks(rows, set)    == {r \in rows : r.track \in set}

-----------------------------------------------------------------------------
(* From outside: a file is replaced (a new time), lost, back as it was; a   *)
(* song leaves the library or is imported again; a user likes one.          *)
Changed == churn < ChurnMax /\ churn' = churn + 1 /\ steady' = FALSE
           /\ UNCHANGED <<decodes, missings, scan, sweeping, scans>>

ReplaceFile(t) ==
    /\ Changed /\ audio[t].mtime < FileTimesMax
    /\ \E s \in BOOLEAN : audio' = [audio EXCEPT ![t] = [there |-> TRUE, mtime |-> @.mtime + 1, sound |-> s]]
    /\ UNCHANGED <<tracks, liked, absent>>

LoseOrFindFile(t) ==
    /\ Changed /\ audio' = [audio EXCEPT ![t].there = ~@]
    /\ UNCHANGED <<tracks, liked, absent>>

LeaveOrJoin(t) ==
    /\ Changed
    /\ tracks' = IF t \in tracks THEN tracks \ {t} ELSE tracks \cup {t}
    /\ absent' = IF t \in tracks THEN absent \cup {t} ELSE absent
    /\ UNCHANGED <<audio, liked>>

(* endpoint_star_or_unstar(): a star asks that the song exists.             *)
Like(t) ==
    /\ Changed /\ t \in tracks \ liked
    /\ liked' = liked \cup {t}
    /\ absent' = IF sweeping.pc = "delete" THEN absent ELSE absent \ {t}
    /\ UNCHANGED <<tracks, audio>>

-----------------------------------------------------------------------------
Outside == UNCHANGED <<tracks, audio, liked, sweeping, churn, absent>>

(* health_scan.try_acquire(), then the list of items.                       *)
StartScan(full) ==
    /\ scan.pc = "idle" /\ scans < ScansMax
    /\ scans' = scans + 1 /\ steady' = TRUE
    /\ scan' = [pc |-> "checks", full |-> full, items |-> tracks]
    /\ UNCHANGED <<decodes, missings>> /\ Outside

(* `existing`, read once; a full scan makes no use of it.                   *)
ReadChecks ==
    /\ scan.pc = "checks"
    /\ scan' = [pc |-> "song", full |-> scan.full, items |-> scan.items, left |-> scan.items,
                decodes |-> IF scan.full THEN {} ELSE decodes, missings |-> IF scan.full THEN {} ELSE missings,
                checked |-> {r.track : r \in decodes \cup missings}, row |-> NoRow]
    /\ UNCHANGED <<decodes, missings, scans, steady>> /\ Outside

(* "File reappeared since it was last flagged missing: clear that flag".    *)
Reappeared(t) == Flagged(scan.missings, t)

Unchanged(t)  == \E r \in scan.decodes : r.track = t /\ r.mtime = audio[t].mtime

(* The file's time is read, and decides: missing, unchanged, or to decode.  *)
LookAtSong(t) ==
    /\ scan.pc = "song" /\ t \in scan.left
    /\ IF ~audio[t].there
       THEN /\ missings' = IF Flagged(scan.missings, t) THEN missings
                           ELSE Recorded(missings, [track |-> t, ok |-> FALSE])
            /\ scan' = [scan EXCEPT !.left = @ \ {t}]
       ELSE /\ missings' = IF Reappeared(t) THEN Recorded(missings, [track |-> t, ok |-> TRUE]) ELSE missings
            /\ scan' = IF Unchanged(t) THEN [scan EXCEPT !.left = @ \ {t}]
                       ELSE [scan EXCEPT !.pc = "decode", !.row = [track |-> t, mtime |-> audio[t].mtime, ok |-> FALSE]]
    /\ UNCHANGED <<decodes, scans, steady>> /\ Outside

(* check_decode_errors(): ffmpeg may also fail by itself, or time out.      *)
Decode ==
    /\ scan.pc = "decode"
    /\ LET file == audio[scan.row.track] IN
       \E ok \in {file.there /\ file.sound, FALSE} : scan' = [scan EXCEPT !.pc = "record", !.row.ok = ok]
    /\ UNCHANGED <<decodes, missings, scans, steady>> /\ Outside

Record ==
    /\ scan.pc = "record"
    /\ decodes' = Recorded(decodes, scan.row)
    /\ scan' = [scan EXCEPT !.pc = "song", !.left = @ \ {scan.row.track}, !.row = NoRow]
    /\ UNCHANGED <<missings, scans, steady>> /\ Outside

(* The checks of songs that are no longer listed are deleted.               *)
PruneChecks ==
    /\ scan.pc = "song" /\ scan.left = {}
    /\ LET kept == Tracks \ (scan.checked \ scan.items) IN
       decodes' = OfTracks(decodes, kept) /\ missings' = OfTracks(missings, kept)
    /\ scan' = [pc |-> "done", full |-> scan.full, items |-> scan.items]
    /\ UNCHANGED <<scans, steady>> /\ Outside

(* health_scan.release(): at the end, on an exception, by a restart.        *)
EndScan ==
    /\ scan.pc # "idle" /\ scan' = NoScan
    /\ UNCHANGED <<decodes, missings, scans, steady>> /\ Outside

-----------------------------------------------------------------------------
(* sweep_stale_references(): the references, the library, then the deletes. *)
StartSweep ==
    /\ sweeping.pc = "idle" /\ scans < ScansMax /\ scans' = scans + 1
    /\ sweeping' = [pc |-> "resolve", refs |-> liked \cup {r.track : r \in decodes \cup missings}]
    /\ UNCHANGED <<tracks, audio, decodes, missings, liked, scan, churn, steady, absent>>

(* Mutant of StaleRefs: by the list of the running scan, where a song that  *)
(* was imported since does not appear.                                      *)
StaleByScan(refs) == refs \ (IF scan.pc = "idle" THEN tracks ELSE scan.items)

(* Too many of them at once, and it must be the wrong library.              *)
StaleRefs(refs) ==
    LET stale == refs \ tracks
    IN  IF Cardinality(refs) >= SweepMin /\ 2 * Cardinality(stale) > Cardinality(refs) THEN {} ELSE stale

ResolveRefs ==
    /\ sweeping.pc = "resolve"
    /\ sweeping' = [pc |-> "delete", stale |-> StaleRefs(sweeping.refs)]
    /\ UNCHANGED <<tracks, audio, decodes, missings, liked, scan, churn, scans, steady, absent>>

SweepRefs ==
    /\ sweeping.pc = "delete" /\ sweeping' = NoSweep
    /\ liked' = liked \ sweeping.stale
    /\ decodes' = OfTracks(decodes, Tracks \ sweeping.stale)
    /\ missings' = OfTracks(missings, Tracks \ sweeping.stale)
    /\ steady' = (steady /\ sweeping.stale = {})
    /\ UNCHANGED <<tracks, audio, scan, churn, scans, absent>>

HealthNext ==
    \/ \E t \in Tracks : \/ ReplaceFile(t) \/ LoseOrFindFile(t) \/ LeaveOrJoin(t) \/ Like(t)
                         \/ LookAtSong(t)
    \/ \E full \in BOOLEAN : StartScan(full)
    \/ ReadChecks \/ Decode \/ Record \/ PruneChecks \/ EndScan
    \/ StartSweep \/ ResolveRefs \/ SweepRefs

HealthSpec == HealthInit /\ [][HealthNext]_healthVars

-----------------------------------------------------------------------------
(* A check that is passed is about the file as it is: whatever replaced it  *)
(* while it was read, decoded and recorded, a file of the recorded time     *)
(* does decode.                                                             *)
PassedIsSound ==
    \A r \in decodes : r.ok /\ r.mtime = audio[r.track].mtime => audio[r.track].sound

(* An incremental scan that nothing disturbed leaves the checks exact: the  *)
(* songs flagged as missing are those of the library that have no file, the *)
(* others were decoded as they are, and no other song has a check.          *)
ScanIsExact ==
    scan.pc = "done" /\ ~scan.full /\ steady =>
       /\ {t \in Tracks : Flagged(missings, t)} = {t \in tracks : ~audio[t].there}
       /\ \A t \in tracks : audio[t].there => \E r \in decodes : r.track = t /\ r.mtime = audio[t].mtime
       /\ {r.track : r \in decodes \cup missings} \subseteq tracks

(* A sweep takes the like of a song only when the song was out of the       *)
(* library since it was liked, or when the sweep looked.                    *)
LikesSpared == [][liked \ liked' \subseteq absent]_healthVars

(* What the checks promise: all of them hold.                               *)
HealthHolds == []PassedIsSound /\ []ScanIsExact /\ LikesSpared
=============================================================================
