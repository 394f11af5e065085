----------------------------- MODULE StreamChoice -----------------------------
(***************************************************************************)
(* What a song is sent as (blueprints/subsonic/routes/stream.py): the file *)
(* itself or a transcode, of which format and bitrate.  A client either    *)
(* asks /stream, or asks getTranscodeDecision first and then sends its     *)
(* answer back to getTranscodeStream, while settings and the limit of the  *)
(* user may change.                                                        *)
(***************************************************************************)
EXTENDS Subsequences

CONSTANTS
    SongFormats, Targets,     \* formats of files; keys of FORMAT_MAP
    Lossless,                 \* is_lossless()
    Mp3, Flac, Raw,           \* formats the code names
    Bitrates,                 \* kbps, 0 for none asked or no limit
    Profiles,                 \* transcodingProfiles: sequences of containers
    NotAsked

VARIABLES
    limit,      \* maxBitRate of the user, 0: none
    server,     \* whether loudness is normalised, the song healed, formats kept
    answer      \* the last answer of the client: a decision, or what is sent

choiceVars == <<limit, server, answer>>

ASSUME ChoiceAssumption ==
    /\ Bitrates \subseteq Nat /\ 0 \in Bitrates
    /\ Mp3 \in Targets \ Lossless /\ Flac \in Targets \cap Lossless
    /\ Raw \notin Targets \cup SongFormats /\ Lossless \subseteq SongFormats \cup Targets
    /\ Profiles \subseteq Seq(UNION {ToSet(p) : p \in Profiles})

Songs   == [format : SongFormats, bitrate : Bitrates \ {0}]
Servers == [norm : BOOLEAN, healing : BOOLEAN, never : BOOLEAN]
Least(a, b)  == IF a < b THEN a ELSE b
Capped0(a, b) == IF a = 0 THEN b ELSE IF b = 0 THEN a ELSE Least(a, b)  \* 0: no cap

ChoiceInit ==
    /\ limit \in Bitrates /\ server \in Servers
    /\ answer = NotAsked

SetLimit  == limit' \in Bitrates /\ UNCHANGED <<server, answer>>
SetServer == server' \in Servers /\ UNCHANGED <<limit, answer>>

-----------------------------------------------------------------------------
(* Mutant of CanDirectPlay: a song that needs healing.                      *)
CanDirectPlayUnhealed(song, plays) ==
    /\ ~server.norm
    /\ limit > 0 => song.bitrate <= limit
    /\ plays

(* getTranscodeDecision.  clientMax: maxTranscodingAudioBitrate; plays: the *)
(* client's direct play and codec profiles take the file.                   *)
CanDirectPlay(song, plays) ==
    /\ ~server.norm /\ ~server.healing
    /\ limit > 0 => song.bitrate <= limit
    /\ plays

Selectable(song, container) ==
    /\ container \in Targets
    /\ container \in Lossless => limit = 0 /\ song.format \in Lossless

Decide(song, plays, profiles, clientMax) ==
    /\ LET target == Kept(profiles, {i \in DOMAIN profiles : Selectable(song, profiles[i])})
           container == IF target = << >> THEN Mp3 ELSE Head(target)
           lossy == song.format \notin Lossless /\ container \notin Lossless
           bitrate == Capped0(Capped0(clientMax, limit), IF lossy THEN song.bitrate ELSE 0)
       IN answer' = IF CanDirectPlay(song, plays)
                    THEN [is |-> "direct", song |-> song, under |-> limit, by |-> server]
                    ELSE [is |-> "transcode", song |-> song, under |-> limit, by |-> server,
                          format |-> container, bitrate |-> bitrate]
    /\ UNCHANGED <<limit, server>>

Is(kind) == answer # NotAsked /\ answer.is = kind

(* getTranscodeStream: its parameters are those of the decision, and nobody *)
(* looks at limit or settings again.                                        *)
StreamDecided ==
    /\ Is("transcode") /\ answer' = [answer EXCEPT !.is = "sent"]
    /\ UNCHANGED <<limit, server>>

-----------------------------------------------------------------------------
(* endpoint_stream_song(): the client's maximum and the user's.             *)
AskedMax(asked) == Capped0(asked, limit)

NeedsTranscode(song, asked, format, seek) ==
    \/ server.norm \/ server.healing
    \/ AskedMax(asked) > 0 /\ song.bitrate > AskedMax(asked)
    \/ format \notin {Raw, song.format} /\ ~server.never
    \/ seek

TargetFormat(song, asked, format) ==
    CASE format # Raw -> IF format \in Targets THEN format ELSE Mp3
      [] format = Raw /\ AskedMax(asked) = 0 /\ song.format \in Targets -> song.format
      [] format = Raw /\ AskedMax(asked) = 0 /\ song.format \in Lossless \ Targets -> Flac
      [] OTHER -> Mp3

Stream(song, asked, format, seek) ==
    /\ answer' = IF NeedsTranscode(song, asked, format, seek)
                 THEN [is |-> "encoded", song |-> song, under |-> limit, by |-> server,
                       format |-> TargetFormat(song, asked, format),
                       bitrate |-> IF AskedMax(asked) > 0 THEN AskedMax(asked) ELSE 320]
                 ELSE [is |-> "whole", song |-> song, under |-> limit, by |-> server]
    /\ UNCHANGED <<limit, server>>

(* A client that was told it can play the file asks for it as it is.        *)
StreamDirect == Is("direct") /\ Stream(answer.song, 0, Raw, FALSE)

(* The client is done with a song.                                          *)
NextSong == answer' = NotAsked /\ UNCHANGED <<limit, server>>

ChoiceNext ==
    \/ SetLimit \/ SetServer \/ StreamDecided \/ StreamDirect \/ NextSong
    \/ /\ answer = NotAsked
       /\ \E song \in Songs, rate \in Bitrates :
             \/ \E plays \in BOOLEAN, profiles \in Profiles :
                   rate > 0 /\ Decide(song, plays, profiles, rate)
             \/ \E format \in {Raw} \cup Targets, seek \in BOOLEAN : Stream(song, rate, format, seek)

ChoiceSpec == ChoiceInit /\ [][ChoiceNext]_choiceVars

-----------------------------------------------------------------------------
(* A decision keeps the limit it was made under: it plays a file directly   *)
(* only within it, and transcodes to a lossy format within it otherwise,    *)
(* whatever profiles and maximum the client sends; and a lossy song is not  *)
(* encoded above its own bitrate, nor to a lossless format.  What is sent   *)
(* by a decision stays there, though the limit be another by now; what      *)
(* /stream sends, the file of an older decision included, keeps the limit   *)
(* in force when it is asked.                                               *)
DecidedWithin ==
    /\ Is("direct") \/ Is("whole") => (answer.under > 0 => answer.song.bitrate <= answer.under)
    /\ Is("encoded") => (answer.under > 0 => answer.bitrate <= answer.under)
    /\ Is("transcode") \/ Is("sent") =>
          /\ answer.under > 0 => answer.bitrate <= answer.under /\ answer.format \notin Lossless
          /\ answer.song.format \notin Lossless =>
                answer.format \notin Lossless /\ answer.bitrate <= answer.song.bitrate

(* The two ways agree: the file that a client was told to play directly is  *)
(* sent as it is, while nothing changed.                                    *)
DirectIsWhole ==
    [][StreamDirect /\ answer.under = limit /\ answer.by = server => answer'.is = "whole"]_choiceVars

(* What the choice of a stream promises: both hold.                         *)
ChoiceHolds == []DecidedWithin /\ DirectIsWhole
=============================================================================
