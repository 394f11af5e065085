------------------------------- MODULE PlayQueue -------------------------------
(***************************************************************************)
(* The play queue a user's players share (subsonic/routes/playqueue.py): a *)
(* row that names the current song and the songs in order, saved whole and *)
(* read in two transactions, by song or by index.  Songs leave the library *)
(* and come back between requests; those that are not there are dropped    *)
(* from what is saved and from what is answered.                           *)
(***************************************************************************)
EXTENDS Subsequences

CONSTANTS
    QueueSongs, NoCurrent,
    QueueReaders,
    QueueLength, SavesMax, AbsencesMax  \* bounds

ASSUME QueueAssumption == NoCurrent \notin QueueSongs /\ {QueueLength, SavesMax, AbsencesMax} \subseteq Nat

VARIABLES
    queueRow,       \* play_queue: whether there is a row, its current song, the
                    \* save it is of, and whether that named one of its songs
    entries,        \* play_queue_entries
    savedBy,        \* the save the entries are of
    library,        \* the songs that resolve
    reading,
    saves, absences

queueVars == <<queueRow, entries, savedBy, library, reading, saves, absences>>

NoRow      == [there |-> FALSE, current |-> NoCurrent, save |-> 0, named |-> FALSE]
NotReading == [pc |-> "idle"]
SongLists  == UNION {[1..n -> QueueSongs] : n \in 0..QueueLength}

QueueInit ==
    /\ queueRow = NoRow /\ entries = << >> /\ savedBy = 0 /\ library = QueueSongs
    /\ reading = [r \in QueueReaders |-> NotReading]
    /\ saves = 0 /\ absences = 0

ResolvedSongs(songs) == Kept(songs, {i \in DOMAIN songs : songs[i] \in library})

(* The row and the entries are replaced in one transaction.                *)
StoreQueue(current, songs, named) ==
    /\ saves < SavesMax /\ saves' = saves + 1
    /\ queueRow' = [there |-> TRUE, current |-> current, save |-> saves + 1, named |-> named]
    /\ entries' = songs /\ savedBy' = saves + 1
    /\ UNCHANGED <<library, reading, absences>>

-----------------------------------------------------------------------------
(* savePlayQueue: a current song that does not resolve is not kept; it need *)
(* not be one of the songs.                                                 *)
Save(songs, current) ==
    IF current \in library
    THEN StoreQueue(current, ResolvedSongs(songs), current \in ToSet(songs))
    ELSE StoreQueue(NoCurrent, ResolvedSongs(songs), FALSE)

(* savePlayQueueByIndex: the index is checked against what was sent and     *)
(* against what resolves, and then picks among what resolves.               *)
SaveByIndex(songs, index) ==
    /\ index \in 1..Len(songs) /\ index <= Len(ResolvedSongs(songs))
    /\ StoreQueue(ResolvedSongs(songs)[index], ResolvedSongs(songs), TRUE)

ClearQueue ==
    /\ queueRow.there /\ queueRow' = NoRow /\ entries' = << >>
    /\ UNCHANGED <<savedBy, library, reading, saves, absences>>

(* An import or a deletion in beets.                                        *)
Absent(s) ==
    /\ absences < AbsencesMax /\ absences' = absences + 1
    /\ library' = IF s \in library THEN library \ {s} ELSE library \cup {s}
    /\ UNCHANGED <<queueRow, entries, savedBy, reading, saves>>

-----------------------------------------------------------------------------
ReadQueue(r) ==
    /\ reading[r].pc = "idle" /\ queueRow.there
    /\ reading' = [reading EXCEPT ![r] = [pc |-> "entries", row |-> queueRow]]
    /\ UNCHANGED <<queueRow, entries, savedBy, library, saves, absences>>

ReadEntries(r) ==
    /\ reading[r].pc = "entries"
    /\ reading' = [reading EXCEPT ![r] =
           IF entries = << >> THEN NotReading
           ELSE [pc |-> "resolve", row |-> @.row, songs |-> entries, of |-> savedBy]]
    /\ UNCHANGED <<queueRow, entries, savedBy, library, saves, absences>>

(* Mutant of Index: counted over the songs that do not resolve, too.        *)
IndexOfAll(songs, found, current) ==
    IF \E i \in 1..Len(songs) : songs[i] = current
    THEN CHOOSE i \in 1..Len(songs) : songs[i] = current /\ \A j \in (i + 1)..Len(songs) : songs[j] # current
    ELSE 1

(* getPlayQueueByIndex: the last place of the current song, or the first.   *)
Index(songs, found, current) ==
    IF \E i \in 1..Len(found) : found[i] = current
    THEN CHOOSE i \in 1..Len(found) : found[i] = current /\ \A j \in (i + 1)..Len(found) : found[j] # current
    ELSE 1

Answer(r) ==
    /\ reading[r].pc = "resolve"
    /\ LET q == reading[r]  found == ResolvedSongs(q.songs) IN
       reading' = [reading EXCEPT ![r] =
           [pc |-> "answered", found |-> found, index |-> Index(q.songs, found, q.row.current)]]
    /\ UNCHANGED <<queueRow, entries, savedBy, library, saves, absences>>

EndRead(r) ==
    /\ reading[r].pc = "answered" /\ reading' = [reading EXCEPT ![r] = NotReading]
    /\ UNCHANGED <<queueRow, entries, savedBy, library, saves, absences>>

QueueNext ==
    \/ \E songs \in SongLists :
         \/ \E current \in QueueSongs \cup {NoCurrent} : Save(songs, current)
         \/ \E index \in 1..QueueLength : SaveByIndex(songs, index)
    \/ ClearQueue
    \/ \E s \in QueueSongs : Absent(s)
    \/ \E r \in QueueReaders : ReadQueue(r) \/ ReadEntries(r) \/ Answer(r) \/ EndRead(r)

QueueSpec == QueueInit /\ [][QueueNext]_queueVars

-----------------------------------------------------------------------------
(* What a player is answered never joins the current song of one save with  *)
(* the songs of an earlier one; and if both are of one save, which named    *)
(* one of its songs as the current one (by itself or by its index), and     *)
(* that song is in the library, then the index names it, whichever songs    *)
(* have left the library or come back since. When another player has saved  *)
(* between the two reads, the index may be of a song of the later save.     *)
PointsAtCurrent ==
    \A r \in QueueReaders :
        reading[r].pc = "resolve" /\ reading'[r].pc = "answered" =>
            LET row == reading[r].row  answer == reading'[r] IN
            /\ row.save <= reading[r].of
            /\ row.save = reading[r].of /\ row.named /\ row.current \in library =>
                  answer.index <= Len(answer.found) /\ answer.found[answer.index] = row.current

IndexReturned == [][PointsAtCurrent]_queueVars
=============================================================================
