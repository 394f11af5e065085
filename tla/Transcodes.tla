------------------------------ MODULE Transcodes ------------------------------
(***************************************************************************)
(* Transcodes on the fly (core/media/transcode.py).  A request takes one   *)
(* of its user's slots and one of the server's.  Either ffmpeg writes a    *)
(* whole file before anything is sent, or its output is streamed: a thread *)
(* reads it into a short queue and the response takes it from there, until *)
(* ffmpeg ends or the client is gone.  The slots are given back when the   *)
(* response is closed.                                                     *)
(***************************************************************************)
EXTENDS Integers, FiniteSets

CONSTANTS
    Listeners,                  \* users
    StreamRequests,             \* requests, each in its thread; one transcode each
    TranscodesMax, UserTranscodesMax,  \* TRANSCODE_MAX_CONCURRENT, TRANSCODE_MAX_PER_USER
    ChunkQueueSize,             \* maxsize of the chunk queue
    ChunksMax                   \* bound: chunks ffmpeg writes

VARIABLES
    slots,      \* free slots of the server
    held,       \* slots each user holds
    transcodes

transVars == <<slots, held, transcodes>>

ASSUME TranscodesAssumption ==
    /\ {TranscodesMax, UserTranscodesMax, ChunkQueueSize, ChunksMax} \subseteq Nat \ {0}
    /\ IsFiniteSet(StreamRequests)

(* left: chunks ffmpeg still writes, inHand: one the reader has read, mark: *)
(* the sentinel.                                                            *)
NewTranscode == [pc |-> "new", user |-> "none", ffmpeg |-> "none", left |-> 0, reader |-> "none",
                 inHand |-> FALSE, queued |-> 0, mark |-> "no"]

TransInit ==
    /\ slots = TranscodesMax
    /\ held = [u \in Listeners |-> 0]
    /\ transcodes = [r \in StreamRequests |-> NewTranscode]

Pc(r)      == transcodes[r].pc
User(r)    == transcodes[r].user
ToPc(r, p) == transcodes' = [transcodes EXCEPT ![r].pc = p]
ReleaseSlots(r) == slots' = slots + 1 /\ held' = [held EXCEPT ![User(r)] = @ - 1]

-----------------------------------------------------------------------------
(* try_transcode()                                                          *)
TakeUserSlot(r, u) ==
    /\ Pc(r) = "new" /\ held[u] < UserTranscodesMax
    /\ held' = [held EXCEPT ![u] = @ + 1]
    /\ transcodes' = [transcodes EXCEPT ![r].pc = "global", ![r].user = u]
    /\ UNCHANGED slots

(* Mutant of TakeSlot: the user's slot is kept when the server has none.    *)
TakeSlotKeeping(r) ==
    /\ Pc(r) = "global"
    /\ (IF slots > 0 THEN slots' = slots - 1 /\ ToPc(r, "start") ELSE UNCHANGED slots /\ ToPc(r, "over"))
    /\ UNCHANGED held

TakeSlot(r) ==
    /\ Pc(r) = "global"
    /\ IF slots > 0
       THEN slots' = slots - 1 /\ ToPc(r, "start") /\ UNCHANGED held
       ELSE held' = [held EXCEPT ![User(r)] = @ - 1] /\ ToPc(r, "over") /\ UNCHANGED slots

(* ffmpeg does not start, or the whole file (with exact_length) is done or  *)
(* failed.                                                                  *)
StartFails(r) == Pc(r) \in {"start", "file"} /\ ReleaseSlots(r) /\ ToPc(r, "over")
StartFile(r)  == Pc(r) = "start" /\ ToPc(r, "file") /\ UNCHANGED <<slots, held>>

StartStream(r, n) ==
    /\ Pc(r) = "start"
    /\ transcodes' = [transcodes EXCEPT ![r].pc = "open", ![r].ffmpeg = "runs", ![r].left = n]
    /\ UNCHANGED <<slots, held>>

(* generate() begins with the first chunk that is asked for.                *)
Generate(r) ==
    /\ Pc(r) = "open"
    /\ transcodes' = [transcodes EXCEPT ![r].pc = "stream", ![r].reader = "reads"]
    /\ UNCHANGED <<slots, held>>

-----------------------------------------------------------------------------
(* ffmpeg ends by itself with all written, or breaks.                       *)
FfmpegEnds(r) ==
    /\ transcodes[r].ffmpeg = "runs" /\ transcodes[r].left = 0
    /\ transcodes' = [transcodes EXCEPT ![r].ffmpeg = "ended"]
    /\ UNCHANGED <<slots, held>>

FfmpegBreaks(r) ==
    /\ transcodes[r].ffmpeg = "runs" /\ transcodes[r].left > 0
    /\ transcodes' = [transcodes EXCEPT ![r].ffmpeg = "ended", ![r].left = 0]
    /\ UNCHANGED <<slots, held>>

(* _reader()                                                                *)
ReadChunk(r) ==
    /\ transcodes[r].reader = "reads" /\ ~transcodes[r].inHand /\ transcodes[r].left > 0
    /\ transcodes' = [transcodes EXCEPT ![r].left = @ - 1, ![r].inHand = TRUE]
    /\ UNCHANGED <<slots, held>>

PutChunk(r) ==
    /\ transcodes[r].reader = "reads" /\ transcodes[r].inHand
    /\ transcodes[r].queued < ChunkQueueSize
    /\ transcodes' = [transcodes EXCEPT ![r].inHand = FALSE, ![r].queued = @ + 1]
    /\ UNCHANGED <<slots, held>>

(* The end of the output: the sentinel is put if there is room for it.      *)
ReaderEnds(r) ==
    /\ transcodes[r].reader = "reads" /\ ~transcodes[r].inHand
    /\ transcodes[r].ffmpeg = "ended" /\ transcodes[r].left = 0
    /\ transcodes' = [transcodes EXCEPT ![r].reader = "ended",
           ![r].mark = IF transcodes[r].queued < ChunkQueueSize THEN "queued" ELSE "dropped"]
    /\ UNCHANGED <<slots, held>>

-----------------------------------------------------------------------------
GetChunk(r) ==
    /\ Pc(r) = "stream" /\ transcodes[r].queued > 0
    /\ transcodes' = [transcodes EXCEPT ![r].queued = @ - 1]
    /\ UNCHANGED <<slots, held>>

(* Mutant of AtEnd: only the sentinel ends it.                              *)
AtEndMark(r) == transcodes[r].queued = 0 /\ transcodes[r].mark = "queued"

(* The sentinel comes out of the queue; or nothing does for 2 s, and ffmpeg *)
(* is no more (long enough for the reader to have passed on what it wrote). *)
AtEnd(r) ==
    /\ transcodes[r].queued = 0
    /\ \/ transcodes[r].mark = "queued"
       \/ transcodes[r].mark = "dropped" /\ transcodes[r].ffmpeg = "ended"

(* The response is at its end, or closed since the client is gone: the      *)
(* generator, if it began, ends ffmpeg, and the slots are given back.  The  *)
(* reader's thread sees the stop event and ends.                            *)
Close(r, t) ==
    /\ transcodes' = [transcodes EXCEPT ![r] =
           [t EXCEPT !.user = User(r), !.ffmpeg = IF Pc(r) = "stream" THEN "ended" ELSE transcodes[r].ffmpeg]]
    /\ ReleaseSlots(r)

EndStream(r)  == Pc(r) = "stream" /\ AtEnd(r) /\ Close(r, [transcodes[r] EXCEPT !.pc = "sent"])
ClientGone(r) == Pc(r) \in {"open", "stream"} /\ Close(r, [NewTranscode EXCEPT !.pc = "over"])

(* A generator that never began ends nothing: ffmpeg goes with its pipe,    *)
(* when the process object is freed.                                        *)
Collected(r) ==
    /\ Pc(r) = "over" /\ transcodes[r].ffmpeg = "runs"
    /\ transcodes' = [transcodes EXCEPT ![r].ffmpeg = "ended"]
    /\ UNCHANGED <<slots, held>>

TransNext == \E r \in StreamRequests :
    \/ \E u \in Listeners : TakeUserSlot(r, u)
    \/ TakeSlot(r) \/ StartFails(r) \/ StartFile(r)
    \/ \E n \in 1..ChunksMax : StartStream(r, n)
    \/ Generate(r) \/ FfmpegEnds(r) \/ FfmpegBreaks(r)
    \/ ReadChunk(r) \/ PutChunk(r) \/ ReaderEnds(r)
    \/ GetChunk(r) \/ EndStream(r) \/ ClientGone(r) \/ Collected(r)

TransSpec == TransInit /\ [][TransNext]_transVars

(* ffmpeg and the threads run, and a client reads what is sent to it, or    *)
(* goes away.  Nothing says that a job which is done comes to be.           *)
Proceeds(r) ==
    \/ FfmpegEnds(r) \/ ReadChunk(r) \/ PutChunk(r) \/ ReaderEnds(r)
    \/ GetChunk(r) \/ EndStream(r)

TransFairness == \A r \in StreamRequests : WF_transVars(Proceeds(r))

-----------------------------------------------------------------------------
Holding(pcs) == {r \in StreamRequests : Pc(r) \in pcs}
Working == {"start", "file", "open", "stream"}

(* The slots are those of the transcodes that are under way, for the server *)
(* and for each user: whichever way a transcode ends, or is refused, gives  *)
(* back both, once.                                                         *)
SlotsExact ==
    /\ slots = TranscodesMax - Cardinality(Holding(Working))
    /\ \A u \in Listeners :
          held[u] = Cardinality({r \in Holding(Working \cup {"global"}) : User(r) = u})

(* A response that came to its end sent all that ffmpeg wrote, also when    *)
(* the sentinel was dropped for want of room.                               *)
AllSent ==
    \A r \in StreamRequests : Pc(r) = "sent" =>
        /\ transcodes[r].left = 0 /\ ~transcodes[r].inHand /\ transcodes[r].queued = 0

(* Streams end, by themselves or with their clients, though a sentinel may  *)
(* be lost: again and again there is none under way.                        *)
StreamsFinish == []<>(Holding({"stream"}) = {})

(* What transcodes promise while they run: both hold.                       *)
TranscodesHold == SlotsExact /\ AllSent
=============================================================================
