--------------------------------- MODULE HLS ---------------------------------
(***************************************************************************)
(* HLS sessions (core/media/hls.py, the hls routes of routes/stream.py and *)
(* the purge of core/library/maintenance.py).  A session is a directory of *)
(* the cache: the first request for it reserves it and starts ffmpeg in a  *)
(* thread, later ones find it.  Sessions idle for long are evicted to keep *)
(* the cache under its cap, and a failed encode discards its own.          *)
(***************************************************************************)
EXTENDS Subsequences

CONSTANTS
    Sessions,           \* stream ids: a song, its bitrates and its mtime
    HLSRequests,        \* requests, each in its thread
    HLSMax,             \* HLS_MAX_CONCURRENT
    HLSCacheMax,        \* HLS_MAX_CACHE_BYTES
    HLSSizeMax,         \* bound: size of a session
    HLSEncodesMax       \* bound: sessions created

VARIABLES
    hlsFree,    \* free slots
    cache,      \* directories of the cache, the least recently used first
    sizes,
    encoding,   \* HLSSessions._encoding
    hlsReq,     \* requests and the encodes they started
    created     \* sessions created so far

hlsVars == <<hlsFree, cache, sizes, encoding, hlsReq, created>>

ASSUME HLSAssumption ==
    IsFiniteSet(HLSRequests) /\ {HLSMax, HLSCacheMax, HLSSizeMax, HLSEncodesMax} \subseteq Nat \ {0}

NoHLS == [pc |-> "idle"]

HLSInit ==
    /\ hlsFree = HLSMax /\ cache = << >> /\ encoding = {} /\ created = 0
    /\ sizes = [s \in Sessions |-> 0]
    /\ hlsReq = [r \in HLSRequests |-> NoHLS]

There(s) == s \in ToSet(cache)
Total(c) == FoldLeft(LAMBDA sum, s : sum + sizes[s], 0, c)
CacheWithout(s) == Kept(cache, {i \in DOMAIN cache : cache[i] # s})
UsedAt(s)  == Append(CacheWithout(s), s)

-----------------------------------------------------------------------------
(* A session that is there is used, one that is not needs a slot first.     *)
AskHLS(r, s) ==
    /\ hlsReq[r] = NoHLS
    /\ IF There(s)
       THEN cache' = UsedAt(s) /\ UNCHANGED <<hlsFree, hlsReq>>
       ELSE /\ hlsFree > 0 /\ hlsFree' = hlsFree - 1
            /\ hlsReq' = [hlsReq EXCEPT ![r] = [pc |-> "reserve", session |-> s]]
            /\ UNCHANGED cache
    /\ UNCHANGED <<sizes, encoding, created>>

(* Mutant of Evictable: a session that ffmpeg writes may go too.            *)
EvictableAny(c) == ToSet(c)

Evictable(c) == ToSet(c) \ encoding

(* _enforce_cache_cap(): the least recently used ones go first, until the   *)
(* rest fits or none is left that may go.                                   *)
Capped(c) ==
    LET old == {i \in DOMAIN c : c[i] \in Evictable(c)}
        fits(n) ==  \* without the first n that may go
            Kept(c, {i \in DOMAIN c : i \in old => Rank(old, i) > n})
        all == Cardinality(old)
        enough == {n \in 0..all : Total(fits(n)) <= HLSCacheMax}
    IN fits(IF enough = {} THEN all ELSE Min(enough))

(* The session was made by another request by now, or there is no room.     *)
RefusedHLS(r) == hlsFree' = hlsFree + 1 /\ hlsReq' = [hlsReq EXCEPT ![r] = NoHLS]

(* reserve(), under its lock.                                               *)
Reserve(r) ==
    /\ hlsReq[r].pc = "reserve"
    /\ LET s == hlsReq[r].session
           left == Capped(cache)
       IN IF There(s)
          THEN RefusedHLS(r) /\ UNCHANGED <<cache, sizes, encoding, created>>
          ELSE IF Total(left) > HLSCacheMax
          THEN RefusedHLS(r) /\ cache' = left /\ UNCHANGED <<sizes, encoding, created>>
          ELSE /\ created < HLSEncodesMax /\ created' = created + 1
               /\ cache' = Append(left, s) /\ sizes' = [sizes EXCEPT ![s] = 0]
               /\ encoding' = encoding \cup {s}
               /\ hlsReq' = [hlsReq EXCEPT ![r].pc = "encode"]
               /\ UNCHANGED hlsFree

(* ffmpeg writes another segment.                                           *)
Segment(r) ==
    /\ hlsReq[r].pc = "encode" /\ There(hlsReq[r].session) /\ sizes[hlsReq[r].session] < HLSSizeMax
    /\ sizes' = [sizes EXCEPT ![hlsReq[r].session] = @ + 1]
    /\ UNCHANGED <<hlsFree, cache, encoding, hlsReq, created>>

(* end(), with ffmpeg's return code; a failed encode has its directory left *)
(* to discard.                                                              *)
EncodeEnds(r, failed) ==
    /\ hlsReq[r].pc = "encode"
    /\ encoding' = encoding \ {hlsReq[r].session} /\ hlsFree' = hlsFree + 1
    /\ hlsReq' = [hlsReq EXCEPT ![r] = IF failed THEN [@ EXCEPT !.pc = "discard"] ELSE NoHLS]
    /\ UNCHANGED <<cache, sizes, created>>

Discard(r) ==
    /\ hlsReq[r].pc = "discard"
    /\ cache' = CacheWithout(hlsReq[r].session)
    /\ hlsReq' = [hlsReq EXCEPT ![r] = NoHLS]
    /\ UNCHANGED <<hlsFree, sizes, encoding, created>>

(* A client gets a playlist or a segment of it.                             *)
ServeSegment(s) ==
    /\ There(s) /\ cache' = UsedAt(s)
    /\ UNCHANGED <<hlsFree, sizes, encoding, hlsReq, created>>

(* Not used for HLS_MAX_AGE_SEC; ffmpeg is through within that time.        *)
PurgeOld ==
    /\ cache # << >> /\ Head(cache) \notin encoding
    /\ cache' = Tail(cache)
    /\ UNCHANGED <<hlsFree, sizes, encoding, hlsReq, created>>

HLSNext ==
    \/ \E r \in HLSRequests :
          \/ \E s \in Sessions : AskHLS(r, s)
          \/ \E failed \in BOOLEAN : EncodeEnds(r, failed)
          \/ Reserve(r) \/ Segment(r) \/ Discard(r)
    \/ \E s \in Sessions : ServeSegment(s)
    \/ PurgeOld

HLSSpec == HLSInit /\ [][HLSNext]_hlsVars

-----------------------------------------------------------------------------
(* Every slot that is taken is one of a request that reserves or encodes,   *)
(* and what is marked as being encoded is what is: no refusal and no        *)
(* failure wears the slots out.                                             *)
HLSSlotsExact ==
    /\ hlsFree = HLSMax - Cardinality({r \in HLSRequests : hlsReq[r].pc \in {"reserve", "encode"}})
    /\ \A s \in encoding : \E r \in HLSRequests : hlsReq[r] = [pc |-> "encode", session |-> s]

(* The directory ffmpeg writes to is only taken away by a failed encode of  *)
(* the same session that discards its own late, never to make room.         *)
EncodedStays ==
    [][\A s \in encoding \cap encoding' : There(s) /\ ~There(s)' =>
          \E r \in HLSRequests : hlsReq[r] = [pc |-> "discard", session |-> s]]_hlsVars

(* What HLS promises: both hold.                                            *)
HLSHolds == []HLSSlotsExact /\ EncodedStays
=============================================================================
