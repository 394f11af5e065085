------------------------------- MODULE Tokeniser -------------------------------
(***************************************************************************)
(* The opaque tokens of streams and images (core/media/tokeniser.py): two  *)
(* maps, of which the first is kept in the order of use, under one lock.   *)
(* A token is forgotten some time after its last use, or when more than a  *)
(* fixed number have been used since; whoever registers a payload again    *)
(* gets the token it has.  Every operation is a step; time passes between. *)
(***************************************************************************)
EXTENDS Integers, FiniteSets

CONSTANTS
    Payloads,
    TokenTTL, TokensKept,               \* ttl, max_entries
    TokenClockMax, TokenUsesMax         \* bounds

ASSUME TokensAssumption ==
    /\ {TokenTTL, TokensKept} \subseteq Nat \ {0}
    /\ {TokenClockMax, TokenUsesMax} \subseteq Nat

VARIABLES
    byToken,    \* _by_token: `turn` is the place in the order of use
    byPayload,  \* _by_payload: <<payload, token>>
    uses,       \* uses so far; a new token is named by the use that made it
    tokenClock

tokenVars == <<byToken, byPayload, uses, tokenClock>>

Entry == [token : Nat, payload : Payloads, expires : Nat, turn : Nat]

TokensInit == byToken = {} /\ byPayload = {} /\ uses = 0 /\ tokenClock = 0

-----------------------------------------------------------------------------

(* _evict(): from the least recently used on, up to the first that is alive *)
(* and among the last TokensKept.                                           *)
Evicted(entries) ==
    {e \in entries : \A f \in entries : f.turn <= e.turn =>
        f.expires <= tokenClock \/ Cardinality({g \in entries : g.turn >= f.turn}) > TokensKept}

(* _by_payload.pop(payload) for each that is dropped.                       *)
Without(pairs, gone) == {p \in pairs : \A e \in gone : e.payload # p[1]}

(* A use: it expires later, and goes to the end of the order.               *)
Used(entries, e) ==
    (entries \ {e}) \cup {[e EXCEPT !.expires = tokenClock + TokenTTL, !.turn = uses + 1]}

NextUse == uses < TokenUsesMax /\ uses' = uses + 1

-----------------------------------------------------------------------------
Register(payload) ==
    LET live  == byToken \ Evicted(byToken)
        pairs == Without(byPayload, Evicted(byToken))
        new   == [token |-> uses + 1, payload |-> payload,
                  expires |-> tokenClock + TokenTTL, turn |-> uses + 1]
        all   == live \cup {new}
    IN /\ NextUse
       /\ \/ \E e \in live : /\ <<payload, e.token>> \in pairs
                             /\ byToken' = Used(live, e) /\ byPayload' = pairs
          \/ /\ \A p \in pairs : p[1] # payload
             /\ byToken' = all \ Evicted(all)
             /\ byPayload' = Without(pairs \cup {<<payload, new.token>>}, Evicted(all))
       /\ UNCHANGED tokenClock

(* Mutant of Dropped: the payload keeps naming the token.                   *)
DroppedHalf(pairs, e) == pairs

(* _drop() of the one.                                                      *)
Dropped(pairs, e) == Without(pairs, {e})

Resolve(e) ==
    /\ e \in byToken /\ NextUse
    /\ IF e.expires <= tokenClock
         THEN byToken' = byToken \ {e} /\ byPayload' = Dropped(byPayload, e)
         ELSE byToken' = Used(byToken, e) /\ UNCHANGED byPayload
    /\ UNCHANGED tokenClock

(* clear(): a jukebox player is given up.                                   *)
Clear ==
    /\ byToken' = {} /\ byPayload' = {}
    /\ UNCHANGED <<uses, tokenClock>>

TokenTick ==
    /\ tokenClock < TokenClockMax /\ tokenClock' = tokenClock + 1
    /\ UNCHANGED <<byToken, byPayload, uses>>

TokensNext ==
    \/ \E payload \in Payloads : Register(payload)
    \/ \E e \in byToken : Resolve(e)
    \/ Clear \/ TokenTick

TokensSpec == TokensInit /\ [][TokensNext]_tokenVars

-----------------------------------------------------------------------------
(* The two maps say the same: a payload has at most one token, and a token  *)
(* that is dropped by age, by number or at its use is dropped from both.    *)
MapsAgree ==
    /\ byPayload = {<<e.payload, e.token>> : e \in byToken}
    /\ \A e, f \in byToken : e # f => e.payload # f.payload /\ e.token # f.token /\ e.turn # f.turn

(* The order of use is the order of expiry, so that the eviction, which     *)
(* stops at the first entry that is alive, leaves no expired one behind.    *)
OrderIsAge == \A e, f \in byToken : e.turn < f.turn => e.expires <= f.expires

(* What the maps promise: both hold.                                        *)
InStep == MapsAgree /\ OrderIsAge
=============================================================================
