------------------------------- MODULE PlayState -------------------------------
(***************************************************************************)
(* What one user plays (blueprints/subsonic/routes/scrobble.py): the row   *)
(* of now_playing, the one session that all players of the user share, and *)
(* the plays that play_stats counts and the scrobbling services are given. *)
(* A player announces a play (reportPlayback 'starting', or scrobble with  *)
(* submission=false), may report its progress, and may submit it at its    *)
(* end; anyone's getNowPlaying() forgets a session begun too long ago.     *)
(*                                                                         *)
(* A player sends one request at a time; those of several players run in   *)
(* threads of their own.  A step is a transaction: a SELECT before the     *)
(* first write of its block is one of its own.                             *)
(***************************************************************************)
EXTENDS Integers, FiniteSets

CONSTANTS
    PlayedSongs, NoSong,
    SongPlayers,        \* the players of the user
    PlaysMax,           \* bound: plays of each player
    CountsMax           \* bound: how often one play is counted

ASSUME PlayAssumption == NoSong \notin PlayedSongs /\ {PlaysMax, CountsMax} \subseteq Nat

VARIABLES
    session,    \* the row of now_playing: the song, and its flag `scrobbled`
    playing,    \* what each player plays and how far its request has got
    counted,    \* how often the play of each player was counted
    present,    \* history: players that have sent something
    forgotten   \* history: a session was forgotten while its play went on

playVars == <<session, playing, counted, present, forgotten>>

NoSession == [song |-> NoSong, scrobbled |-> FALSE]
NotPlaying == [song |-> NoSong, plays |-> 0, pc |-> "idle", begun |-> FALSE, over |-> FALSE,
               skip |-> NoSong]

PlayInit ==
    /\ session = NoSession
    /\ playing = [c \in SongPlayers |-> NotPlaying]
    /\ counted = [c \in SongPlayers |-> 0]
    /\ present = {} /\ forgotten = FALSE

-----------------------------------------------------------------------------
PlAt(c, pc) == playing[c].pc = pc
PlGo(c, pc) == playing' = [playing EXCEPT ![c].pc = pc]

(* The player: a new song, or an end of it that the server is told.         *)
Play(c, song) ==
    /\ PlAt(c, "idle") /\ playing[c].plays < PlaysMax
    /\ playing' = [playing EXCEPT ![c] = [NotPlaying EXCEPT !.song = song, !.plays = playing[c].plays + 1]]
    /\ counted' = [counted EXCEPT ![c] = 0]
    /\ UNCHANGED <<session, present, forgotten>>

Listening(c) == PlAt(c, "idle") /\ playing[c].song # NoSong /\ ~playing[c].over

-----------------------------------------------------------------------------
(* Mutant of Started: the flag of the last play stays.                      *)
StartedKeeping(song) == [session EXCEPT !.song = song]

(* reportPlayback 'starting': a session of its own.                         *)
Started(song) == [song |-> song, scrobbled |-> FALSE]

ReportStarting(c) ==
    /\ Listening(c) /\ ~playing[c].begun
    /\ playing' = [playing EXCEPT ![c].begun = TRUE]
    /\ session' = Started(playing[c].song)
    /\ present' = present \cup {c} /\ UNCHANGED <<counted, forgotten>>

(* The other states update the row, if there is one; 'playing' beyond the   *)
(* threshold goes on to count.                                              *)
Report(c, beyond) ==
    /\ Listening(c) /\ playing[c].begun
    /\ session' = IF session = NoSession THEN session ELSE [session EXCEPT !.song = playing[c].song]
    /\ PlGo(c, IF beyond THEN "check" ELSE "idle")
    /\ present' = present \cup {c} /\ UNCHANGED <<counted, forgotten>>

CheckSession(c) ==
    /\ PlAt(c, "check")
    /\ PlGo(c, IF session # NoSession /\ ~session.scrobbled THEN "count" ELSE "idle")
    /\ UNCHANGED <<session, counted, present, forgotten>>

(* play_stats and the flag, and then the scrobbling services.               *)
CountReported(c) ==
    /\ PlAt(c, "count") /\ PlGo(c, "idle") /\ counted[c] < CountsMax
    /\ counted' = [counted EXCEPT ![c] = @ + 1]
    /\ session' = IF session = NoSession THEN session ELSE [session EXCEPT !.scrobbled = TRUE]
    /\ UNCHANGED <<present, forgotten>>

-----------------------------------------------------------------------------
(* scrobble, submission=false: the song of the row, or a new row.           *)
NowPlaying(c) ==
    /\ Listening(c)
    /\ session' = [session EXCEPT !.song = playing[c].song]
    /\ present' = present \cup {c} /\ UNCHANGED <<playing, counted, forgotten>>

(* scrobble of a play that has ended, each once: what was counted is read,  *)
(* then the session ends and the play is counted unless it was.             *)
Submit(c) ==
    /\ Listening(c)
    /\ playing' = [playing EXCEPT ![c].pc = "submit", ![c].over = TRUE,
                     ![c].skip = IF session.scrobbled THEN session.song ELSE NoSong]
    /\ present' = present \cup {c} /\ UNCHANGED <<session, counted, forgotten>>

Again(c) == playing[c].song # playing[c].skip

CountSubmitted(c) ==
    /\ PlAt(c, "submit") /\ PlGo(c, "idle") /\ counted[c] < CountsMax
    /\ session' = NoSession
    /\ counted' = IF Again(c) THEN [counted EXCEPT ![c] = @ + 1] ELSE counted
    /\ UNCHANGED <<present, forgotten>>

(* getNowPlaying() NOW_PLAYING_TIMEOUT_SEC after the session began.         *)
Forget ==
    /\ session # NoSession /\ session' = NoSession
    /\ forgotten' = TRUE
    /\ UNCHANGED <<playing, counted, present>>

PlayNext ==
    \/ \E c \in SongPlayers :
         \/ \E song \in PlayedSongs : Play(c, song)
         \/ ReportStarting(c) \/ \E beyond \in BOOLEAN : Report(c, beyond)
         \/ CheckSession(c) \/ CountReported(c)
         \/ NowPlaying(c) \/ Submit(c) \/ CountSubmitted(c)
    \/ Forget

PlaySpec == PlayInit /\ [][PlayNext]_playVars

-----------------------------------------------------------------------------
(* As long as one player of the user is active and no session of it has     *)
(* been forgotten, a play is counted at most once whichever of the two      *)
(* interfaces reports it, and exactly once when it was begun by             *)
(* reportPlayback and then submitted.                                       *)
LoneCounted ==
    \A c \in SongPlayers :
        present \subseteq {c} /\ ~forgotten =>
            /\ counted[c] <= 1
            /\ playing[c].begun /\ playing[c].over /\ PlAt(c, "idle") => counted[c] = 1

(* The flag of now_playing is there "to prevent double scrobbles"           *)
(* (schema.py), and "A play that reportPlayback already counted should not  *)
(* be counted again" (scrobble.py).  It goes with the session, which        *)
(* another player's request ends, or getNowPlaying() after five minutes.    *)
CountedOnce == \A c \in SongPlayers : counted[c] <= 1
=============================================================================
